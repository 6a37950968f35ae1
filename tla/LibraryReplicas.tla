-------------------------- MODULE LibraryReplicas ---------------------------
(***************************************************************************)
(* What keeping a library on several devices promises: a device holds only *)
(* versions of an item that somebody wrote, and within a session an item   *)
(* it holds is never replaced by an earlier one and never lost.            *)
(***************************************************************************)
EXTENDS Naturals

CONSTANTS Devices, Ids, Absent

VARIABLES
  held,       \* the items each device holds
  written,    \* every version of an item written so far, with its id
  session     \* the session each device is in

vars == <<held, written, session>>

Init ==
  /\ held = [d \in Devices |-> [id \in Ids |-> Absent]]
  /\ written = {}
  /\ session = [d \in Devices |-> 0]

Others(d) == \A e \in Devices \ {d} : held'[e] = held[e] /\ session'[e] = session[e]

WasWritten(id, item) == [id |-> id, item |-> item] \in written'

Newer(old, new) == new # Absent /\ (old # Absent => new.mtime >= old.mtime)

Advance(d) ==
  /\ written \subseteq written'
  /\ session' = session /\ Others(d)
  /\ \A id \in Ids :
       \/ held'[d][id] = held[d][id]
       \/ Newer(held[d][id], held'[d][id]) /\ WasWritten(id, held'[d][id])

\* A session ends or begins with another library.
Reset(d) ==
  /\ written' = written
  /\ session'[d] # session[d] /\ Others(d)
  /\ \A id \in Ids : held'[d][id] = Absent \/ WasWritten(id, held'[d][id])

Next == \E d \in Devices : Advance(d) \/ Reset(d)

Spec == Init /\ [][Next]_vars
=============================================================================
