---------------------------- MODULE MCPassCache ----------------------------
(* One pass of one station; queries for its first day, for a window that  *)
(* starts on that day and leaves the pass out (second page), and for one   *)
(* satellite, which the cache does not serve.  The pass may be absent,     *)
(* present, scheduled and cleaned up, which makes the lists differ.        *)
EXTENDS PassCache

MCRequest == {"a", "b"}
MCProcess == {"api"}
MCProcessOf == [r \in MCRequest |-> "api"]

MCAny == 0
MCPass == {[sat |-> 1, station |-> 7, rise |-> 1, set |-> 2]}
MCQuery == {[sat |-> 0, station |-> 7, start |-> 0, end |-> 3, page |-> 1],
            [sat |-> 0, station |-> 7, start |-> 2, end |-> 6, page |-> 2],
            [sat |-> 1, station |-> 7, start |-> 4, end |-> 8, page |-> 1]}
=============================================================================
