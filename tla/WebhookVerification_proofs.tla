--------------------- MODULE WebhookVerification_proofs ---------------------
(***************************************************************************)
(* Proofs about the webhook view and the verification stamp, for any      *)
(* number of concurrent requests, any number of secret rotations and any  *)
(* clock bound.                                                            *)
(***************************************************************************)
EXTENDS WebhookVerification, TLAPS

\* The requests that passed validation and have not answered yet.
Validated == {"stamping", "parsing", "storing"}

\* A request between its validation and its answer was validated.
InFlightValid == \A r \in Request : rpc[r] \in Validated => Valid(r)

\* A stamp is set exactly when the history of who stamped is.
StampRecorded == (verifiedAt = None) <=> (stampGen = None)

\* A request that has been received has loaded a secret of the integration.
Loaded == \A r \in Request : rpc[r] # "idle" => loaded[r] \in Gen

IInv ==
    /\ TypeOK
    /\ Loaded
    /\ InFlightValid
    /\ StampRecorded
    /\ ResponseReflectsValidation
    /\ StampWitnessed

USE WebhookAssumption DEF Gen, Time, RPC, Validated

-----------------------------------------------------------------------------
\* The initial state is well typed.
LEMMA TypeInit == Init => TypeOK
  BY DEF Init, TypeOK

\* Every step keeps the state well typed.
LEMMA TypeStep == TypeOK /\ [Next]_vars => TypeOK'
  <1> SUFFICES ASSUME TypeOK, [Next]_vars PROVE TypeOK'
    OBVIOUS
  <1>1. ASSUME NEW r \in Request, NEW s \in (0..secret) \cup {Forged},
               Receive(r, s)
        PROVE TypeOK'
    BY <1>1 DEF Receive, TypeOK
  <1>2. ASSUME NEW r \in Request, Validate(r) PROVE TypeOK'
    BY <1>2 DEF Validate, TypeOK
  <1>3. ASSUME NEW r \in Request, Stamp(r) PROVE TypeOK'
    BY <1>3 DEF Stamp, TypeOK
  <1>4. ASSUME NEW r \in Request, NEW ping \in BOOLEAN, Parse(r, ping)
        PROVE TypeOK'
    BY <1>4 DEF Parse, TypeOK
  <1>5. ASSUME NEW r \in Request, NEW ok \in BOOLEAN, Store(r, ok)
        PROVE TypeOK'
    BY <1>5 DEF Store, TypeOK
  <1>6. CASE Reconnect
    BY <1>6 DEF Reconnect, TypeOK
  <1>7. CASE Disconnect
    BY <1>7 DEF Disconnect, TypeOK
  <1>8. CASE Tick
    BY <1>8 DEF Tick, TypeOK
  <1>9. CASE Finished \/ UNCHANGED vars
    BY <1>9 DEF Finished, vars, TypeOK
  <1>10. QED
    BY <1>1, <1>2, <1>3, <1>4, <1>5, <1>6, <1>7, <1>8, <1>9 DEF Next, Step

(***************************************************************************)
(* Type correctness of the webhook view: the integration row, the clock    *)
(* and every request's state keep their types in every reachable state.   *)
(***************************************************************************)
THEOREM TypeCorrect == Spec => []TypeOK
  BY TypeInit, TypeStep, PTL DEF Spec

-----------------------------------------------------------------------------
\* The initial state satisfies the inductive invariant.
LEMMA IInvInit == Init => IInv
  BY DEF Init, IInv, TypeOK, Loaded, InFlightValid, StampRecorded,
         ResponseReflectsValidation, StampWitnessed

\* Every step keeps the inductive invariant.
LEMMA IInvStep == IInv /\ [Next]_vars => IInv'
  <1> SUFFICES ASSUME IInv, [Next]_vars PROVE IInv'
    OBVIOUS
  <1>0. TypeOK'
    BY TypeStep DEF IInv
  <1> USE DEF IInv, TypeOK, Loaded, InFlightValid, StampRecorded,
              ResponseReflectsValidation, Valid
  <1>1. ASSUME NEW r \in Request, NEW s \in (0..secret) \cup {Forged},
               Receive(r, s)
        PROVE IInv'
    BY <1>0, <1>1 DEF Receive, StampWitnessed
  <1>2. ASSUME NEW r \in Request, Validate(r) PROVE IInv'
    BY <1>0, <1>2 DEF Validate, StampWitnessed
  <1>3. ASSUME NEW r \in Request, Stamp(r) PROVE IInv'
    BY <1>0, <1>3 DEF Stamp, StampWitnessed
  <1>4. ASSUME NEW r \in Request, NEW ping \in BOOLEAN, Parse(r, ping)
        PROVE IInv'
    BY <1>0, <1>4 DEF Parse, StampWitnessed
  <1>5. ASSUME NEW r \in Request, NEW ok \in BOOLEAN, Store(r, ok)
        PROVE IInv'
    BY <1>0, <1>5 DEF Store, StampWitnessed
  <1>6. CASE Reconnect
    BY <1>0, <1>6 DEF Reconnect, StampWitnessed
  <1>7. CASE Disconnect
    BY <1>0, <1>7 DEF Disconnect, StampWitnessed
  <1>8. CASE Tick
    BY <1>0, <1>8 DEF Tick, StampWitnessed
  <1>9. CASE Finished \/ UNCHANGED vars
    BY <1>0, <1>9 DEF Finished, vars, StampWitnessed
  <1>10. QED
    BY <1>1, <1>2, <1>3, <1>4, <1>5, <1>6, <1>7, <1>8, <1>9 DEF Next, Step

\* The inductive invariant holds in every reachable state.
LEMMA IInvInductive == Spec => []IInv
  BY IInvInit, IInvStep, PTL DEF Spec

(***************************************************************************)
(* No side effect on failure: in every reachable state a set               *)
(* webhook_verified_at was written by a request whose signature validated  *)
(* against the secret it had loaded; a webhook answered 400 never stamps.  *)
(***************************************************************************)
THEOREM StampHasWitness == Spec => []StampWitnessed
  <1>1. IInv => StampWitnessed
    BY DEF IInv
  <1>2. QED
    BY <1>1, IInvInductive, PTL

(***************************************************************************)
(* The view answers 400 exactly for an invalid signature and 200 for a     *)
(* valid one, ping, stored or not, whatever the other requests do.        *)
(***************************************************************************)
THEOREM ResponseCorrect == Spec => []ResponseReflectsValidation
  <1>1. IInv => ResponseReflectsValidation
    BY DEF IInv
  <1>2. QED
    BY <1>1, IInvInductive, PTL

-----------------------------------------------------------------------------
\* The initial integration row is the abstract initial state.
LEMMA RefinementInit == Init => Abstract!Init
  BY DEF Init, Abstract!Init

\* Every step of the view and of the management flows is a step of the
\* abstract stamp or leaves the integration row unchanged.
LEMMA RefinementStep ==
  TypeOK /\ [Next]_vars => [Abstract!Next]_Abstract!stampVars
  <1> SUFFICES ASSUME TypeOK, [Next]_vars
               PROVE  [Abstract!Next]_Abstract!stampVars
    OBVIOUS
  <1> DEFINE rowUnchanged == UNCHANGED <<secret, connected, verifiedAt>>
  <1>1. ASSUME NEW r \in Request, Stamp(r)
        PROVE  [Abstract!Next]_Abstract!stampVars
    <2>1. CASE verifiedAt = None
      <3>1. now \in 0..MaxTime /\ verifiedAt' = now
        BY <1>1, <2>1 DEF Stamp, TypeOK
      <3>2. Abstract!SetStamp
        BY <1>1, <2>1, <3>1 DEF Stamp, Abstract!SetStamp
      <3>3. QED
        BY <3>2 DEF Abstract!Next
    <2>2. CASE verifiedAt # None
      BY <1>1, <2>2 DEF Stamp, Abstract!stampVars
    <2>3. QED
      BY <2>1, <2>2
  <1>2. CASE Reconnect
    BY <1>2 DEF Reconnect, Abstract!Next, Abstract!Rotate
  <1>3. CASE Disconnect
    BY <1>3 DEF Disconnect, Abstract!Next, Abstract!Disconnect
  <1>4. CASE ~(\E r \in Request : Stamp(r)) /\ ~Reconnect /\ ~Disconnect
    <2>1. rowUnchanged
      BY <1>4 DEF Next, Step, Receive, Validate, Parse, Store, Tick, Finished,
                  vars
    <2>2. QED
      BY <2>1 DEF Abstract!stampVars
  <1>5. QED
    BY <1>1, <1>2, <1>3, <1>4

(***************************************************************************)
(* The webhook view, the stamp and the reconnect and disconnect flows      *)
(* implement the abstract verification stamp: webhook_verified_at is set   *)
(* only while unset and cleared only with a secret rotation, under every   *)
(* interleaving of concurrent webhooks.                                    *)
(***************************************************************************)
THEOREM Refinement == Spec => StampRefinement
  BY RefinementInit, RefinementStep, TypeCorrect, PTL
     DEF Spec, StampRefinement, Abstract!Spec

=============================================================================
