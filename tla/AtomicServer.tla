---------------------------- MODULE AtomicServer ----------------------------
(***************************************************************************)
(* What the commit protocol promises to the clients of a Palo server: the  *)
(* comment on Commitable.h says that readers "always have consistent       *)
(* version" and that a failed commit leaves nothing behind.  Each write    *)
(* request either changes the latest data at one instant, all its objects  *)
(* together and on top of every earlier change, or is refused.  Readers    *)
(* see a state the data went through, and a request is answered only when  *)
(* they see its change.                                                    *)
(***************************************************************************)
CONSTANTS Job, Obj

VARIABLES
  latest,    \* the jobs whose change each object holds
  visible,   \* what readers see
  outcome    \* of each request

vars == <<latest, visible, outcome>>

Init ==
  /\ latest = [o \in Obj |-> {}]
  /\ visible = latest
  /\ outcome = [j \in Job |-> "pending"]

Apply(j) ==
  /\ outcome[j] = "pending"
  /\ \E W \in SUBSET Obj :
       latest' = [o \in Obj |-> IF o \in W THEN latest[o] \union {j}
                                           ELSE latest[o]]
  /\ outcome' = [outcome EXCEPT ![j] = "applied"]
  /\ UNCHANGED visible

Answer(j) ==
  /\ outcome[j] = "applied"
  /\ visible' = latest
  /\ outcome' = [outcome EXCEPT ![j] = "answered"]
  /\ UNCHANGED latest

Refuse(j) ==
  /\ outcome[j] = "pending"
  /\ outcome' = [outcome EXCEPT ![j] = "refused"]
  /\ UNCHANGED <<latest, visible>>

Next == \E j \in Job : Apply(j) \/ Answer(j) \/ Refuse(j)

Spec == Init /\ [][Next]_vars
=============================================================================
