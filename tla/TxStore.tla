------------------------------ MODULE TxStore ------------------------------
(***************************************************************************)
(* What a Move session promises to the program that runs in it and to the  *)
(* host that owns the storage: a private, always up-to-date view of the    *)
(* global resources, committed as a whole or not at all.                   *)
(***************************************************************************)
CONSTANTS Key,      \* the global slots: (address, resource type)
          Blob,     \* the serialized resources
          Absent,   \* no resource is stored under the key
          Corrupt   \* bytes that do not deserialize at the resource's layout

VARIABLES stored,   \* the host's storage
          view,     \* what the running program would read
          session   \* "running", "finished" or "failed"

vars == <<stored, view, session>>

Init == /\ stored \in [Key -> Blob \cup {Absent, Corrupt}]
        /\ view = stored
        /\ session = "running"

\* move_to: only where there is no resource.
Publish(k) == /\ session = "running"
              /\ view[k] = Absent
              /\ \E b \in Blob : view' = [view EXCEPT ![k] = b]
              /\ UNCHANGED <<stored, session>>

\* move_from: only where there is one.
Withdraw(k) == /\ session = "running"
               /\ view[k] \in Blob
               /\ view' = [view EXCEPT ![k] = Absent]
               /\ UNCHANGED <<stored, session>>

\* A write through a reference changes at most one resource, which exists.
Update(k) == /\ session = "running"
             /\ view[k] \in Blob
             /\ \E b \in Blob : view' = [view EXCEPT ![k] = b]
             /\ UNCHANGED <<stored, session>>

\* The transaction ends; its view is what will be stored.
Finish == /\ session = "running"
          /\ session' = "finished"
          /\ UNCHANGED <<stored, view>>

\* The transaction aborts: the view falls back to what is stored.
Fail == /\ session = "running"
        /\ session' = "failed"
        /\ view' = stored
        /\ UNCHANGED stored

\* The host stores exactly the view and the next transaction starts from it.
NextSession == /\ session # "running"
               /\ session' = "running"
               /\ stored' = view
               /\ UNCHANGED view

Next == \/ \E k \in Key : Publish(k) \/ Withdraw(k) \/ Update(k)
        \/ Finish \/ Fail \/ NextSession

Spec == Init /\ [][Next]_vars
=============================================================================
