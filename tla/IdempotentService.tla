------------------------- MODULE IdempotentService -------------------------
(***************************************************************************)
(* What the scoring API promises a client that retries: a transaction id   *)
(* is decided at most once, for one fingerprint and with one response; a   *)
(* retry with that fingerprint is answered with that response, and a retry *)
(* with another fingerprint is refused.  How and when the decision is made *)
(* (model, policy, storage, audit) is left open.                           *)
(***************************************************************************)
CONSTANTS Requests,      \* what a client can send; field txn is the id
          Txns,          \* transaction ids
          Fingerprints,  \* canonical request digests
          Responses,     \* decision responses
          NoDecision     \* an undecided transaction

VARIABLES decided,       \* transaction id -> NoDecision or its decision
          answers        \* the answers given so far

vars == <<decided, answers>>

Decision == [fingerprint : Fingerprints, response : Responses]

Init == /\ decided = [t \in Txns |-> NoDecision]
        /\ answers = {}

(* The one moment at which a transaction is decided. *)
Decide(t) == /\ decided[t] = NoDecision
             /\ \E d \in Decision : decided' = [decided EXCEPT ![t] = d]
             /\ UNCHANGED answers

(* Every answer to an accepted request repeats the decision taken. *)
Accept(r) == /\ decided[r.txn] # NoDecision
             /\ answers' = answers \cup
                  {[request |-> r, outcome |-> "ok",
                    fingerprint |-> decided[r.txn].fingerprint,
                    response |-> decided[r.txn].response]}
             /\ UNCHANGED decided

(* A request whose fingerprint differs from the decided one is refused. *)
Refuse(r) == /\ decided[r.txn] # NoDecision
             /\ \E f \in Fingerprints :
                  /\ f # decided[r.txn].fingerprint
                  /\ answers' = answers \cup
                       {[request |-> r, outcome |-> "conflict",
                         fingerprint |-> f, response |-> NoDecision]}
             /\ UNCHANGED decided

Next == \/ \E t \in Txns : Decide(t)
        \/ \E r \in Requests : Accept(r) \/ Refuse(r)

Spec == Init /\ [][Next]_vars
=============================================================================
