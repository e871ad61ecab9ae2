---------------------- MODULE PaymentRepositoryProofs ----------------------
(***************************************************************************)
(* Theorems about PaymentRepository, for every set of callers, keys and    *)
(* identifiers: create_payment keeps its claims and payments in step, and  *)
(* implements PaymentContract.                                             *)
(***************************************************************************)
EXTENDS PaymentRepository, TLAPS

-----------------------------------------------------------------------------
(* The inductive invariant *)

\* What the place of a caller in create_payment says of its own variables.
CallerOK(c) ==
  /\ pc[c] # "idle" => args[c] \in Arguments
  /\ candidate[c] # None <=> pc[c] \in {"inserted", "claimed"}
  /\ pc[c] \in {"inserted", "lost", "matched"} => args[c].key # NoKey
  /\ outcome[c] # None <=> pc[c] \in {"closing", "done"}

\* A caller that lost the key reads the claim it lost to, and a caller that goes
\* on to the payment has found its own request there.
LosersFindClaims ==
  \A c \in Callers :
    /\ pc[c] \in {"lost", "matched"} => claims[args[c].key] # None
    /\ pc[c] = "matched" => claims[args[c].key].fingerprint = args[c].body

\* A pending claim is that of the caller that has the key and will commit it,
\* and there is no committed one beside it.
HoldersOK ==
  \A k \in Keys :
    /\ \A c \in Callers : holder[k] = c <=> pc[c] = "claimed" /\ args[c].key = k
    /\ holder[k] # None => claims[k] = None

\* No two candidates have one identifier, and none has that of a payment.
CandidatesFresh ==
  \A c \in Callers : candidate[c] # None =>
    /\ payments[candidate[c]] = None
    /\ \A d \in Callers : candidate[d] = candidate[c] => d = c

\* A claim names its payment, and no other claim does.
ClaimsOK ==
  /\ \A k \in Keys : claims[k] # None =>
       /\ payments[claims[k].payment] # None
       /\ payments[claims[k].payment].body = claims[k].fingerprint
  /\ \A j, k \in Keys :
       claims[j] # None /\ claims[k] # None /\ claims[j].payment = claims[k].payment => j = k

IInv ==
  /\ TypeOK /\ \A c \in Callers : CallerOK(c)
  /\ LosersFindClaims /\ HoldersOK /\ CandidatesFresh /\ ClaimsOK

-----------------------------------------------------------------------------
(* Types *)

LEMMA InitInvariant == Init => IInv
BY NoneAssumption
   DEF Init, IInv, TypeOK, Places, CallerOK, LosersFindClaims, HoldersOK,
       CandidatesFresh, ClaimsOK

\* A caller's new payment and claim have the types of their tables.
LEMMA NewRowTypes ==
  ASSUME IInv, NEW c \in Callers, pc[c] = "claimed"
  PROVE  NewPayment(c) \in Payment /\ candidate[c] \in Ids /\ NewClaim(c) \in Claim
BY DEF IInv, TypeOK, CallerOK, NewPayment, NewClaim, Payment, Claim, Arguments

\* Every outcome is a payment as the table has it, or a conflict.
LEMMA ReturnedTypes ==
  /\ \A id \in Ids, payment \in Payment : Returned(id, payment) \in Outcomes
  /\ Conflict \in Outcomes
BY DEF Returned, Conflict, Outcomes

\* A loser and a caller in conflict commit nothing of their own.
LEMMA ClosingWritesNothing ==
  ASSUME IInv, NEW c \in Callers, pc[c] = "closing"
  PROVE  Installed(c) = payments /\ ClaimsWith(c) = claims /\ WithoutClaim(c) = holder
<1>1. \A id \in Ids : id # candidate[c]
  BY NoneAssumption DEF IInv, CallerOK
<1>2. \A k \in Keys : holder[k] # c
  BY DEF IInv, HoldersOK
<1>. QED  BY <1>1, <1>2 DEF IInv, TypeOK, Installed, ClaimsWith, WithoutClaim

LEMMA TypeStep == IInv /\ [Next]_vars => TypeOK'
<1>. SUFFICES ASSUME IInv, [Next]_vars PROVE TypeOK'
  OBVIOUS
<1>. USE DEF IInv, TypeOK, Places, Goto, tables
<1>1. ASSUME NEW c \in Callers, NEW k \in CallKeys, NEW b \in Bodies, Call(c, k, b)
      PROVE  TypeOK'
  BY <1>1, KeyAssumption DEF Call, Arguments
<1>2. ASSUME NEW c \in Callers, NEW id \in Ids, InsertPayment(c, id) PROVE TypeOK'
  BY <1>2 DEF InsertPayment
<1>3. ASSUME NEW c \in Callers, ClaimKey(c) PROVE TypeOK'
  BY <1>3 DEF ClaimKey
<1>4. ASSUME NEW c \in Callers, LoseKey(c) PROVE TypeOK'
  BY <1>4 DEF LoseKey, DeleteCandidate
<1>5. ASSUME NEW c \in Callers, ReadClaim(c) PROVE TypeOK'
  BY <1>5, ReturnedTypes DEF ReadClaim
<1>6. ASSUME NEW c \in Callers, ReadPayment(c) PROVE TypeOK'
  <2>1. /\ claims[args[c].key].payment \in Ids
        /\ payments[claims[args[c].key].payment] \in Payment
    BY <1>6 DEF ReadPayment, CallerOK, LosersFindClaims, Arguments, Claim
  <2>. QED  BY <1>6, <2>1, ReturnedTypes DEF ReadPayment
<1>7. ASSUME NEW c \in Callers, Commit(c) PROVE TypeOK'
  <2>1. CASE pc[c] = "claimed"
    BY <1>7, <2>1, NewRowTypes, ReturnedTypes DEF Commit, Installed, ClaimsWith, WithoutClaim
  <2>2. CASE pc[c] = "closing"
    BY <1>7, <2>2, ClosingWritesNothing DEF Commit
  <2>. QED  BY <1>7, <2>1, <2>2 DEF Commit
<1>8. ASSUME NEW c \in Callers, Answer(c) \/ Crash(c) PROVE TypeOK'
  BY <1>8 DEF Answer, Crash, Leave, WithoutClaim
<1>9. ASSUME NEW id \in Ids, Move(id) PROVE TypeOK'
  BY <1>9 DEF Move, Payment
<1>10. CASE UNCHANGED vars
  BY <1>10 DEF vars
<1>. QED
  BY <1>1, <1>2, <1>3, <1>4, <1>5, <1>6, <1>7, <1>8, <1>9, <1>10 DEF Next, Proceed

-----------------------------------------------------------------------------
(* Every step keeps the invariant *)

\* A caller that is not at a commit leaves the tables alone and writes its own
\* place: the others' claims and candidates stay what they were.
LEMMA CallerStep ==
  ASSUME IInv, NEW c \in Callers, TypeOK',
         \/ \E k \in CallKeys, b \in Bodies : Call(c, k, b)
         \/ \E id \in Ids : InsertPayment(c, id)
         \/ ClaimKey(c) \/ LoseKey(c) \/ ReadClaim(c) \/ ReadPayment(c)
  PROVE  IInv'
<1>. USE NoneAssumption DEF IInv, TypeOK, Places, Goto, tables
<1>1. ASSUME NEW k \in CallKeys, NEW b \in Bodies, Call(c, k, b) PROVE IInv'
  <2>. DEFINE a == [key |-> k, body |-> b]
  <2>1. /\ pc' = [pc EXCEPT ![c] = "called"] /\ pc[c] = "idle"
        /\ args' = [args EXCEPT ![c] = a] /\ a \in Arguments
        /\ UNCHANGED <<payments, claims, holder, candidate, outcome>>
    BY <1>1, KeyAssumption DEF Call, Arguments
  <2>. HIDE DEF a
  <2>2. \A d \in Callers : CallerOK(d)'
    BY <2>1 DEF CallerOK
  <2>3. LosersFindClaims' /\ HoldersOK'
    BY <2>1 DEF LosersFindClaims, HoldersOK
  <2>4. CandidatesFresh' /\ ClaimsOK'
    BY <2>1 DEF CandidatesFresh, ClaimsOK
  <2>. QED  BY <2>2, <2>3, <2>4
<1>2. ASSUME NEW id \in Ids, InsertPayment(c, id) PROVE IInv'
  <2>. USE <1>2 DEF InsertPayment
  <2>1. \A d \in Callers : CallerOK(d)'
    BY DEF CallerOK
  <2>2. LosersFindClaims' /\ HoldersOK'
    BY KeyAssumption DEF LosersFindClaims, HoldersOK
  <2>3. CandidatesFresh' /\ ClaimsOK'
    BY DEF Fresh, CandidatesFresh, ClaimsOK
  <2>. QED  BY <2>1, <2>2, <2>3
<1>3. CASE ClaimKey(c)
  BY <1>3
     DEF ClaimKey, KeyFree, CallerOK, LosersFindClaims, HoldersOK, CandidatesFresh, ClaimsOK,
         Arguments
<1>4. CASE LoseKey(c)
  BY <1>4
     DEF LoseKey, KeyTaken, DeleteCandidate, CallerOK, LosersFindClaims, HoldersOK,
         CandidatesFresh, ClaimsOK
<1>5. CASE ReadClaim(c)
  <2>1. Conflict # None
    BY ReturnedTypes
  <2>. QED
    BY <1>5, <2>1
       DEF ReadClaim, SameRequest, CallerOK, LosersFindClaims, HoldersOK, CandidatesFresh,
           ClaimsOK
<1>6. CASE ReadPayment(c)
  <2>1. outcome'[c] # None
    <3>1. /\ claims[args[c].key].payment \in Ids
          /\ payments[claims[args[c].key].payment] \in Payment
      BY <1>6 DEF ReadPayment, CallerOK, LosersFindClaims, Arguments, Claim
    <3>. QED  BY <1>6, <3>1, ReturnedTypes DEF ReadPayment
  <2>. QED
    BY <1>6, <2>1
       DEF ReadPayment, CallerOK, LosersFindClaims, HoldersOK, CandidatesFresh, ClaimsOK
<1>. QED  BY <1>1, <1>2, <1>3, <1>4, <1>5, <1>6

\* What is left of a caller's writes is committed: a payment that no claim and
\* no other candidate names, and its claim of a key that had none.
LEMMA CommitStep ==
  ASSUME IInv, NEW c \in Callers, Commit(c), TypeOK'
  PROVE  IInv'
<1>. USE NoneAssumption DEF IInv, TypeOK, Places, Goto, tables
<1>1. CASE pc[c] = "closing"
  <2>1. /\ UNCHANGED <<payments, claims, holder, args, outcome>>
        /\ candidate' = [candidate EXCEPT ![c] = None]
        /\ pc' = [pc EXCEPT ![c] = "done"]
    BY <1>1, ClosingWritesNothing DEF Commit
  <2>. QED
    BY <1>1, <2>1 DEF CallerOK, LosersFindClaims, HoldersOK, CandidatesFresh, ClaimsOK
<1>2. CASE pc[c] = "claimed"
  <2>. DEFINE id == candidate[c]
              payment == NewPayment(c)
              claim == NewClaim(c)
  <2>1. /\ id \in Ids /\ payment \in Payment /\ claim \in Claim
        /\ payment.body = claim.fingerprint /\ claim.payment = id
        /\ claim.fingerprint = args[c].body
        /\ payments[id] = None
        /\ Returned(id, payment) # None
    BY <1>2, NewRowTypes, ReturnedTypes
       DEF NewPayment, NewClaim, CandidatesFresh, CallerOK
  <2>2. /\ payments' = [payments EXCEPT ![id] = payment]
        /\ claims' = [k \in Keys |-> IF holder[k] = c THEN claim ELSE claims[k]]
        /\ holder' = [k \in Keys |-> IF holder[k] = c THEN None ELSE holder[k]]
        /\ candidate' = [candidate EXCEPT ![c] = None]
        /\ outcome' = [outcome EXCEPT ![c] = Returned(id, payment)]
        /\ pc' = [pc EXCEPT ![c] = "done"]
        /\ args' = args
    BY <1>2 DEF Commit, Installed, ClaimsWith, WithoutClaim
  <2>3. \A j, k \in Keys : holder[j] = c /\ holder[k] = c => j = k
    BY DEF HoldersOK
  <2>. HIDE DEF payment, claim, id
  <2>4. \A d \in Callers : CallerOK(d)'
    BY <1>2, <2>1, <2>2 DEF CallerOK
  <2>5. LosersFindClaims'
    <3>1. ASSUME NEW d \in Callers, pc[d] \in {"lost", "matched"}
          PROVE  args[d].key \in Keys /\ holder[args[d].key] # c
      <4>1. args[d].key \in Keys /\ claims[args[d].key] # None
        BY <3>1 DEF CallerOK, Arguments, LosersFindClaims
      <4>. QED  BY <4>1 DEF HoldersOK
    <3>. QED  BY <1>2, <2>2, <3>1 DEF LosersFindClaims
  <2>6. HoldersOK'
    BY <1>2, <2>1, <2>2 DEF HoldersOK
  <2>7. CandidatesFresh'
    BY <1>2, <2>1, <2>2 DEF CandidatesFresh, CallerOK, id
  <2>8. ClaimsOK'
    <3>1. \A k \in Keys : claims[k] # None => claims[k] \in Claim /\ claims[k].payment # id
      BY <2>1 DEF ClaimsOK
    <3>. QED  BY <2>1, <2>2, <2>3, <3>1 DEF ClaimsOK, Claim
  <2>. QED  BY <2>4, <2>5, <2>6, <2>7, <2>8
<1>. QED  BY <1>1, <1>2 DEF Commit

\* A caller that leaves takes its candidate and pending claim with it.
LEMMA LeaveStep ==
  ASSUME IInv, NEW c \in Callers, Answer(c) \/ Crash(c), TypeOK'
  PROVE  IInv'
<1>. USE NoneAssumption DEF IInv, TypeOK, Places
<1>1. /\ pc' = [pc EXCEPT ![c] = "idle"]
      /\ args' = [args EXCEPT ![c] = None]
      /\ outcome' = [outcome EXCEPT ![c] = None]
      /\ UNCHANGED <<payments, claims>>
  BY DEF Answer, Crash, Leave, Goto, tables
<1>2. /\ holder' = WithoutClaim(c)
      /\ candidate' = [candidate EXCEPT ![c] = None]
  <2>1. CASE Answer(c)
    <3>1. \A k \in Keys : holder[k] # c
      BY <2>1 DEF Answer, HoldersOK
    <3>2. candidate[c] = None
      BY <2>1 DEF Answer, CallerOK
    <3>. QED  BY <2>1, <3>1, <3>2 DEF Answer, WithoutClaim
  <2>. QED  BY <2>1 DEF Crash
<1>3. \A d \in Callers : CallerOK(d)'
  BY <1>1, <1>2 DEF CallerOK
<1>4. LosersFindClaims'
  BY <1>1 DEF LosersFindClaims
<1>5. HoldersOK'
  BY <1>1, <1>2 DEF HoldersOK, WithoutClaim
<1>6. CandidatesFresh' /\ ClaimsOK'
  BY <1>1, <1>2 DEF CandidatesFresh, ClaimsOK
<1>. QED  BY <1>3, <1>4, <1>5, <1>6

\* The body of a payment stays when its status moves on.
LEMMA MoveStep ==
  ASSUME IInv, NEW id \in Ids, Move(id), TypeOK'
  PROVE  IInv'
<1>. USE NoneAssumption DEF IInv, TypeOK, Places
<1>1. /\ payments[id] \in Payment
      /\ payments' = [payments EXCEPT ![id] = [payments[id] EXCEPT !.status = "moved"]]
      /\ UNCHANGED <<claims, holder, candidate, pc, args, outcome>>
  BY DEF Move
<1>2. /\ \A i \in Ids : (payments[i] = None <=> payments'[i] = None)
      /\ \A i \in Ids : payments[i] # None => payments'[i].body = payments[i].body
  BY <1>1 DEF Payment
<1>3. (\A d \in Callers : CallerOK(d)') /\ LosersFindClaims' /\ HoldersOK'
  BY <1>1 DEF CallerOK, LosersFindClaims, HoldersOK
<1>4. CandidatesFresh'
  BY <1>1, <1>2 DEF CandidatesFresh
<1>5. ClaimsOK'
  BY <1>1, <1>2 DEF ClaimsOK, Claim
<1>. QED  BY <1>3, <1>4, <1>5

LEMMA NextInvariant == IInv /\ [Next]_vars => IInv'
<1>. SUFFICES ASSUME IInv, [Next]_vars PROVE IInv'
  OBVIOUS
<1>1. TypeOK'
  BY TypeStep
<1>2. CASE UNCHANGED vars
  BY <1>2 DEF vars, tables, IInv, TypeOK, CallerOK, LosersFindClaims, HoldersOK,
              CandidatesFresh, ClaimsOK
<1>. QED
  BY <1>1, <1>2, CallerStep, CommitStep, LeaveStep, MoveStep DEF Next, Proceed

LEMMA Invariance == Spec => []IInv
BY InitInvariant, NextInvariant, PTL DEF Spec

\* The tables and the callers' variables keep their types.
THEOREM TypesKept == Spec => []TypeOK
BY Invariance, PTL DEF IInv

\* A key names at most one payment and the claim's payment is there: neither of
\* the two errors that the code raises for a missing row is ever raised.
THEOREM ClaimsStayTrue == Spec => []ClaimsNameTheirPayments
<1>1. IInv => ClaimsNameTheirPayments
  BY DEF IInv, ClaimsOK, LosersFindClaims, ClaimsNameTheirPayments
<1>. QED  BY <1>1, Invariance, PTL

-----------------------------------------------------------------------------
(* PaymentRepository implements PaymentContract *)

LEMMA RefinesInit == Init => Contract!Init
BY DEF Init, Phase, Contract!Init

\* The caller's own step is all that changes its phase.
LEMMA PhaseStep ==
  ASSUME IInv, NEW c \in Callers,
         \A d \in Callers : d # c => pc'[d] = pc[d] /\ outcome'[d] = outcome[d]
  PROVE  Phase' = [Phase EXCEPT ![c] = Phase'[c]]
<1>1. \A d \in Callers : d # c => Phase'[d] = Phase[d]
  BY DEF Phase
<1>2. Phase = [d \in Callers |-> Phase[d]] /\ Phase' = [d \in Callers |-> Phase'[d]]
  BY DEF Phase
<1>. HIDE DEF Phase
<1>. QED  BY <1>1, <1>2

\* A call and an answer, or the end of the caller, are those of the contract.
LEMMA EndsRefine ==
  ASSUME IInv, NEW c \in Callers
  PROVE  /\ \A k \in CallKeys, b \in Bodies : Call(c, k, b) => Contract!Call(c, k, b)
         /\ Answer(c) \/ Crash(c) => Contract!Return(c)
<1>. USE DEF IInv, TypeOK, Places, Goto, tables
<1>1. ASSUME NEW k \in CallKeys, NEW b \in Bodies, Call(c, k, b)
      PROVE  Contract!Call(c, k, b)
  <2>1. Phase[c] = "idle" /\ Phase'[c] = "called"
    BY <1>1 DEF Call, Phase, CallerOK
  <2>2. Phase' = [Phase EXCEPT ![c] = "called"]
    BY <1>1, <2>1, PhaseStep DEF Call
  <2>. QED  BY <1>1, <2>1, <2>2 DEF Call, Contract!Call
<1>2. ASSUME Answer(c) \/ Crash(c) PROVE Contract!Return(c)
  <2>1. Phase[c] # "idle" /\ Phase'[c] = "idle"
    BY <1>2 DEF Answer, Crash, Leave, Phase
  <2>2. Phase' = [Phase EXCEPT ![c] = "idle"]
    BY <1>2, <2>1, PhaseStep DEF Answer, Crash, Leave
  <2>. QED  BY <1>2, <2>1, <2>2 DEF Answer, Crash, Leave, Contract!Return
<1>. QED  BY <1>1, <1>2

\* A loser's read of the payment, or its conflict, is the contract's replay.
LEMMA LoserRefines ==
  ASSUME IInv, NEW c \in Callers,
         ReadPayment(c) \/ (ReadClaim(c) /\ ~SameRequest(c))
  PROVE  Contract!Replay(c)
<1>. USE DEF IInv, TypeOK, Places, Goto, tables
<1>. DEFINE existing == claims[args[c].key]
            result == IF SameRequest(c)
                      THEN Returned(existing.payment, payments[existing.payment])
                      ELSE Conflict
<1>1. /\ pc[c] \in {"lost", "matched"} /\ pc' = [pc EXCEPT ![c] = "closing"]
      /\ UNCHANGED <<payments, claims, args>>
  BY DEF ReadPayment, ReadClaim
<1>2. existing # None /\ args[c].key # NoKey
  BY <1>1 DEF LosersFindClaims, CallerOK
<1>3. outcome' = [outcome EXCEPT ![c] = result]
  <2>1. ReadPayment(c) => SameRequest(c)
    BY DEF ReadPayment, LosersFindClaims, SameRequest
  <2>. QED  BY <2>1 DEF ReadPayment, ReadClaim
<1>4. result # None
  <2>1. SameRequest(c) =>
          existing.payment \in Ids /\ payments[existing.payment] \in Payment
    BY <1>2, <1>1, NoneAssumption DEF CallerOK, Arguments, ClaimsOK, Claim
  <2>. QED  BY <2>1, ReturnedTypes, NoneAssumption
<1>5. Phase[c] = "called" /\ Phase'[c] = "done"
  BY <1>1, <1>3, <1>4 DEF Phase, CallerOK
<1>6. Phase' = [Phase EXCEPT ![c] = "done"]
  BY <1>1, <1>3, <1>5, PhaseStep
<1>7. result = IF existing.fingerprint = args[c].body
               THEN Contract!Returned(existing.payment, payments[existing.payment])
               ELSE Contract!Conflict
  BY DEF SameRequest, Returned, Conflict, Contract!Returned, Contract!Conflict
<1>. QED
  BY <1>1, <1>2, <1>3, <1>5, <1>6, <1>7 DEF Contract!Replay, Contract!Finish

\* The winner's commit, or that of a call without key, creates the payment.
LEMMA WinnerRefines ==
  ASSUME IInv, NEW c \in Callers, Commit(c), pc[c] = "claimed"
  PROVE  candidate[c] \in Ids /\ Contract!Create(c, candidate[c])
<1>. USE DEF IInv, TypeOK, Places, Goto
<1>. DEFINE id == candidate[c]
            payment == NewPayment(c)
            claim == NewClaim(c)
<1>1. /\ id \in Ids /\ payments[id] = None
      /\ payment = [body |-> args[c].body, status |-> "pending"]
      /\ claim = [fingerprint |-> args[c].body, payment |-> id]
  BY NewRowTypes, NoneAssumption DEF NewPayment, NewClaim, CandidatesFresh, CallerOK
<1>2. Returned(id, payment) # None
  BY NewRowTypes, ReturnedTypes, NoneAssumption
<1>3. Returned(id, payment) = Contract!Returned(id, payment)
  BY DEF Returned, Contract!Returned
<1>4. /\ payments' = [payments EXCEPT ![id] = payment]
      /\ claims' = [k \in Keys |-> IF holder[k] = c THEN claim ELSE claims[k]]
      /\ outcome' = [outcome EXCEPT ![c] = Returned(id, payment)]
      /\ pc' = [pc EXCEPT ![c] = "done"]
      /\ args' = args
  BY DEF Commit, Installed, ClaimsWith
<1>. HIDE DEF payment, claim, id
<1>5. Phase[c] = "called" /\ Phase'[c] = "done"
  BY <1>2, <1>4 DEF Phase, CallerOK
<1>6. Phase' = [Phase EXCEPT ![c] = "done"]
  BY <1>4, <1>5, PhaseStep
<1>7. Contract!Finish(c, Contract!Returned(id, payment))
  BY <1>3, <1>4, <1>5, <1>6 DEF Contract!Finish
<1>8. \/ args[c].key = NoKey /\ UNCHANGED claims
      \/ /\ args[c].key # NoKey
         /\ claims[args[c].key] = None
         /\ claims' = [claims EXCEPT ![args[c].key] = claim]
  <2>1. args[c].key \in Keys \union {NoKey}
    BY DEF CallerOK, Arguments
  <2>2. \A k \in Keys : holder[k] = c <=> args[c].key = k
    BY DEF HoldersOK
  <2>3. CASE args[c].key = NoKey
    BY <1>4, <2>2, <2>3, KeyAssumption
  <2>4. CASE args[c].key \in Keys
    <3>1. claims[args[c].key] = None
      BY <2>2, <2>4, NoneAssumption DEF HoldersOK
    <3>. QED  BY <1>4, <2>2, <2>4, <3>1, KeyAssumption
  <2>. QED  BY <2>1, <2>3, <2>4
<1>. QED
  BY <1>1, <1>4, <1>5, <1>7, <1>8 DEF Contract!Create, payment, claim, id

\* All other steps of a call show nothing.
LEMMA HiddenSteps ==
  ASSUME IInv, NEW c \in Callers,
         \/ \E id \in Ids : InsertPayment(c, id)
         \/ ClaimKey(c) \/ LoseKey(c) \/ (ReadClaim(c) /\ SameRequest(c))
         \/ (Commit(c) /\ pc[c] = "closing")
  PROVE  UNCHANGED Contract!vars
<1>. USE DEF IInv, TypeOK, Places, Goto, tables
<1>1. UNCHANGED <<payments, claims, args, outcome>>
  BY ClosingWritesNothing
     DEF InsertPayment, ClaimKey, LoseKey, ReadClaim, Commit
<1>2. Phase'[c] = Phase[c]
  BY <1>1 DEF Phase, CallerOK, InsertPayment, ClaimKey, LoseKey, ReadClaim, Commit
<1>3. \A d \in Callers : d # c => pc'[d] = pc[d]
  BY DEF InsertPayment, ClaimKey, LoseKey, ReadClaim, Commit
<1>4. Phase' = [Phase EXCEPT ![c] = Phase[c]]
  BY <1>1, <1>2, <1>3, PhaseStep
<1>5. Phase' = Phase
  BY <1>4 DEF Phase
<1>. QED  BY <1>1, <1>5 DEF Contract!vars

LEMMA RefinesStep == IInv /\ [Next]_vars => [Contract!Next]_Contract!vars
<1>. SUFFICES ASSUME IInv, [Next]_vars PROVE [Contract!Next]_Contract!vars
  OBVIOUS
<1>1. ASSUME NEW c \in Callers, NEW k \in CallKeys, NEW b \in Bodies, Call(c, k, b)
      PROVE  Contract!Next
  BY <1>1, EndsRefine DEF Contract!Next
<1>2. ASSUME NEW c \in Callers, Answer(c) \/ Crash(c) PROVE Contract!Next
  BY <1>2, EndsRefine DEF Contract!Next
<1>3. ASSUME NEW c \in Callers, ReadPayment(c) PROVE Contract!Next
  BY <1>3, LoserRefines DEF Contract!Next
<1>4. ASSUME NEW c \in Callers, ReadClaim(c) PROVE [Contract!Next]_Contract!vars
  BY <1>4, LoserRefines, HiddenSteps DEF Contract!Next
<1>5. ASSUME NEW c \in Callers, Commit(c) PROVE [Contract!Next]_Contract!vars
  <2>1. pc[c] \in {"claimed", "closing"}
    BY <1>5 DEF Commit
  <2>. QED  BY <1>5, <2>1, WinnerRefines, HiddenSteps DEF Contract!Next
<1>6. ASSUME NEW c \in Callers,
             (\E id \in Ids : InsertPayment(c, id)) \/ ClaimKey(c) \/ LoseKey(c)
      PROVE  UNCHANGED Contract!vars
  BY <1>6, HiddenSteps
<1>7. ASSUME NEW id \in Ids, Move(id) PROVE Contract!Next
  <2>1. Phase' = Phase
    BY <1>7 DEF Move, Phase
  <2>. QED  BY <1>7, <2>1 DEF Move, Contract!Move, Contract!Next
<1>8. CASE UNCHANGED vars
  BY <1>8 DEF vars, tables, Contract!vars, Phase
<1>. QED
  BY <1>1, <1>2, <1>3, <1>4, <1>5, <1>6, <1>7, <1>8 DEF Next, Proceed

\* Concurrent callers that wait for each other's claims, lose them, roll back and
\* die behave as if each call took effect at one moment under one lock.
THEOREM Refinement == Spec => ImplementsContract
BY Invariance, RefinesInit, RefinesStep, PTL
   DEF Spec, ImplementsContract, Contract!Spec
=============================================================================
