----------------------------- MODULE Providers_proofs ----------------------------
(***************************************************************************)
(* Proofs about what answers for an outside service, and what rests on     *)
(* one: the circuit breaker for Codohue, for any number of request         *)
(* goroutines and any threshold and cooldown; the account mail, Mail, for  *)
(* any mails, webhook requests, reports and retries; an author's posts,    *)
(* Codohue's catalog of them and the lists all viewers share; and the      *)
(* scroll that mixes Codohue's recommendations with other posts.           *)
(***************************************************************************)
EXTENDS MCMixedFeed, MCProviders, FiniteSetTheorems, WellFoundedInduction,
        TLAPS

(* A request moves within its type.                                        *)
LEMMA BecomeTyped ==
  ASSUME call \in [Callers -> B!Call], NEW c \in Callers, NEW r \in B!Call, B!Become(c, r)
  PROVE  call' \in [Callers -> B!Call]
BY DEF B!Become

(* The circuit breaker works on values of the types TypeOK names.          *)
THEOREM TypeCorrect == B!Spec => []B!TypeOK
<1>1. B!Init => B!TypeOK
  BY ThresholdAssumption, BreakerBounds
     DEF B!Init, B!TypeOK, B!Call, B!NoCall, B!Pcs, B!Outcomes
<1>2. B!TypeOK /\ [B!Next]_B!vars => B!TypeOK'
  <2> SUFFICES ASSUME B!TypeOK, [B!Next]_B!vars PROVE B!TypeOK'
    OBVIOUS
  <2> USE ThresholdAssumption, CooldownAssumption, BreakerBounds
          DEF B!TypeOK, B!Call, B!NoCall, B!Pcs, B!Outcomes, B!At, B!Become
  <2>1. ASSUME NEW c \in Callers, B!Load(c) PROVE B!TypeOK'
    <3> DEFINE sent == [B!NoCall EXCEPT !.pc = "sent"]
               checking == [B!NoCall EXCEPT !.pc = "checking", !.loaded = openedAt]
    <3>1. sent \in B!Call /\ checking \in B!Call
      OBVIOUS
    <3>2. B!Become(c, sent) \/ B!Become(c, checking)
      BY <2>1 DEF B!Load
    <3>3. call' \in [Callers -> B!Call]
      BY <3>1, <3>2, BecomeTyped
    <3>4. QED
      BY <2>1, <3>3 DEF B!Load
  <2>2. ASSUME NEW c \in Callers, B!Check(c) PROVE B!TypeOK'
    BY <2>2 DEF B!Check
  <2>3. ASSUME NEW c \in Callers, B!Stamp(c) PROVE B!TypeOK'
    <3> DEFINE then == [call[c] EXCEPT !.pc = "swapping", !.stamp = clock]
    <3>1. then \in B!Call
      OBVIOUS
    <3>2. B!Become(c, then)
      BY <2>3 DEF B!Stamp
    <3>3. call' \in [Callers -> B!Call]
      BY <3>1, <3>2, BecomeTyped
    <3>4. QED
      BY <2>3, <3>3 DEF B!Stamp
  <2>4. ASSUME NEW c \in Callers, B!Swap(c) PROVE B!TypeOK'
    <3> DEFINE sent == [call[c] EXCEPT !.pc = "sent", !.trial = outage]
    <3>1. sent \in B!Call /\ B!NoCall \in B!Call
      OBVIOUS
    <3>2. B!Become(c, sent) \/ B!Become(c, B!NoCall)
      BY <2>4 DEF B!Swap
    <3>3. call' \in [Callers -> B!Call]
      BY <3>1, <3>2, BecomeTyped
    <3>4. openedAt' \in Nat
      BY <2>4 DEF B!Swap
    <3>5. QED
      BY <2>4, <3>3, <3>4 DEF B!Swap
  <2>5. ASSUME NEW c \in Callers, B!Ping(c) PROVE B!TypeOK'
    BY <2>5 DEF B!Ping
  <2>6. ASSUME NEW c \in Callers, B!Answer(c) PROVE B!TypeOK'
    <3> DEFINE then == [call[c] EXCEPT !.pc = "resetting", !.outcome = "answered"]
    <3>1. then \in B!Call
      OBVIOUS
    <3>2. B!Become(c, then)
      BY <2>6 DEF B!Answer
    <3>3. call' \in [Callers -> B!Call]
      BY <3>1, <3>2, BecomeTyped
    <3>4. QED
      BY <2>6, <3>3 DEF B!Answer
  <2>7. ASSUME NEW c \in Callers, B!Cancel(c) PROVE B!TypeOK'
    <3> DEFINE then == [call[c] EXCEPT !.pc = "resetting", !.outcome = "cancelled"]
    <3>1. then \in B!Call
      OBVIOUS
    <3>2. B!Become(c, then)
      BY <2>7 DEF B!Cancel
    <3>3. call' \in [Callers -> B!Call]
      BY <3>1, <3>2, BecomeTyped
    <3>4. QED
      BY <2>7, <3>3 DEF B!Cancel
  <2>8. ASSUME NEW c \in Callers, B!Error(c) PROVE B!TypeOK'
    BY <2>8 DEF B!Error
  <2>9. ASSUME NEW c \in Callers, B!Reset(c) PROVE B!TypeOK'
    BY <2>9 DEF B!Reset
  <2>10. ASSUME NEW c \in Callers, B!Close(c) PROVE B!TypeOK'
    BY <2>10 DEF B!Close
  <2>11. ASSUME NEW c \in Callers, B!Count(c) PROVE B!TypeOK'
    BY <2>11 DEF B!Count
  <2>12. ASSUME NEW c \in Callers, B!Clock(c) PROVE B!TypeOK'
    <3> DEFINE then == [call[c] EXCEPT !.pc = "tripping", !.stamp = clock]
    <3>1. then \in B!Call
      OBVIOUS
    <3>2. B!Become(c, then)
      BY <2>12 DEF B!Clock
    <3>3. call' \in [Callers -> B!Call]
      BY <3>1, <3>2, BecomeTyped
    <3>4. QED
      BY <2>12, <3>3 DEF B!Clock
  <2>13. ASSUME NEW c \in Callers, B!Open(c) PROVE B!TypeOK'
    BY <2>13 DEF B!Open
  <2>14. ASSUME B!Tick PROVE B!TypeOK'
    BY <2>14 DEF B!Tick
  <2>15. ASSUME B!Outage PROVE B!TypeOK'
    BY <2>15 DEF B!Outage
  <2>16. ASSUME UNCHANGED B!vars PROVE B!TypeOK'
    BY <2>16 DEF B!vars
  <2>17. QED
    BY <2>1, <2>2, <2>3, <2>4, <2>5, <2>6, <2>7, <2>8, <2>9, <2>10, <2>11,
       <2>12, <2>13, <2>14, <2>15, <2>16
       DEF B!Next, B!Allow, B!Observe
<1>3. QED
  BY <1>1, <1>2, PTL DEF B!Spec

-----------------------------------------------------------------------------
(* A request about to swap has seen a whole cooldown pass since the stamp  *)
(* it loaded.                                                              *)
SwapInv ==
  \A c \in Callers :
    /\ call[c].pc = "checking" => call[c].loaded # 0
    /\ call[c].pc = "stamping" =>
         call[c].loaded # 0 /\ call[c].loaded + Cooldown <= clock
    /\ call[c].pc = "swapping" =>
         call[c].loaded # 0 /\ call[c].loaded + Cooldown <= call[c].stamp

(* The trials of the current outage are no younger than its last stamp.    *)
TrialInv ==
  \A c \in Callers :
    call[c].pc = "sent" =>
      /\ call[c].trial <= outage
      /\ (call[c].trial = outage /\ openedAt # 0) => call[c].stamp <= openedAt

\* Where a request is once its outcome is known, and when it is over.
Bookkeeping == {"idle", "resetting", "closing", "counting", "opening", "tripping"}

BreakerInv == B!TypeOK /\ SwapInv /\ TrialInv /\ B!TrialsSpaced

LEMMA InitInv == B!Init => BreakerInv
<1> SUFFICES ASSUME B!Init PROVE BreakerInv
  OBVIOUS
<1>1. B!TypeOK
  BY ThresholdAssumption, BreakerBounds
     DEF B!Init, B!TypeOK, B!Call, B!NoCall, B!Pcs, B!Outcomes
<1>2. SwapInv /\ TrialInv /\ B!TrialsSpaced
  BY DEF B!Init, B!NoCall, SwapInv, TrialInv, B!TrialsSpaced
<1>3. QED
  BY <1>1, <1>2 DEF BreakerInv

(* Steps that change neither openedAt nor outage and send nobody out as a  *)
(* trial keep what is said of the trials.                                  *)
LEMMA QuietStep ==
  ASSUME BreakerInv, NEW c \in Callers, NEW r \in B!Call,
         B!Become(c, r),
         r.pc = "sent" => r.trial = 0 /\ r.stamp = 0,
         UNCHANGED <<openedAt, outage>>
  PROVE  TrialInv' /\ B!TrialsSpaced'
<1> USE DEF BreakerInv, B!TypeOK, B!Call, B!Become
<1>1. TrialInv'
  BY DEF TrialInv
<1>2. B!TrialsSpaced'
  BY DEF B!TrialsSpaced, B!Trials
<1>3. QED
  BY <1>1, <1>2

LEMMA NextInv == BreakerInv /\ B!TypeOK' /\ [B!Next]_B!vars => BreakerInv'
<1> SUFFICES ASSUME BreakerInv, B!TypeOK', [B!Next]_B!vars
             PROVE  SwapInv' /\ TrialInv' /\ B!TrialsSpaced'
  BY DEF BreakerInv
<1> USE CooldownAssumption DEF BreakerInv, B!TypeOK, B!Call, B!NoCall, B!At, B!Become
<1>1. ASSUME NEW c \in Callers, B!Load(c) PROVE SwapInv' /\ TrialInv' /\ B!TrialsSpaced'
  <2> DEFINE sent == [B!NoCall EXCEPT !.pc = "sent"]
             checking == [B!NoCall EXCEPT !.pc = "checking", !.loaded = openedAt]
  <2>1. sent \in B!Call /\ checking \in B!Call
    BY DEF B!Pcs, B!Outcomes
  <2>2. ASSUME B!Become(c, sent) PROVE SwapInv' /\ TrialInv' /\ B!TrialsSpaced'
    <3>1. SwapInv'
      BY <1>1, <2>2 DEF B!Load, SwapInv
    <3>2. QED
      BY <1>1, <2>1, <2>2, <3>1, QuietStep DEF B!Load
  <2>3. ASSUME openedAt # 0, B!Become(c, checking)
        PROVE  SwapInv' /\ TrialInv' /\ B!TrialsSpaced'
    <3>1. SwapInv'
      BY <1>1, <2>3 DEF B!Load, SwapInv
    <3>2. QED
      BY <1>1, <2>1, <2>3, <3>1, QuietStep DEF B!Load
  <2>4. QED
    BY <1>1, <2>2, <2>3 DEF B!Load
<1>2. ASSUME NEW c \in Callers, B!Check(c) PROVE SwapInv' /\ TrialInv' /\ B!TrialsSpaced'
  <2> DEFINE stamping == [call[c] EXCEPT !.pc = "stamping"]
  <2>1. B!NoCall \in B!Call /\ stamping \in B!Call
    BY DEF B!Pcs, B!Outcomes
  <2>2. ASSUME B!Become(c, B!NoCall) PROVE SwapInv' /\ TrialInv' /\ B!TrialsSpaced'
    <3>1. SwapInv'
      BY <1>2, <2>2 DEF B!Check, SwapInv
    <3>2. QED
      BY <1>2, <2>1, <2>2, <3>1, QuietStep DEF B!Check
  <2>3. ASSUME clock >= call[c].loaded + Cooldown, B!Become(c, stamping)
        PROVE  SwapInv' /\ TrialInv' /\ B!TrialsSpaced'
    <3>1. SwapInv'
      BY <1>2, <2>3 DEF B!Check, SwapInv
    <3>2. QED
      BY <1>2, <2>1, <2>3, <3>1, QuietStep DEF B!Check
  <2>4. QED
    BY <1>2, <2>2, <2>3 DEF B!Check
<1>3. ASSUME NEW c \in Callers, B!Stamp(c) PROVE SwapInv' /\ TrialInv' /\ B!TrialsSpaced'
  <2> DEFINE swapping == [call[c] EXCEPT !.pc = "swapping", !.stamp = clock]
  <2>1. swapping \in B!Call
    BY DEF B!Pcs
  <2>2. B!Become(c, swapping)
    BY <1>3 DEF B!Stamp
  <2>3. SwapInv'
    BY <1>3, <2>2 DEF B!Stamp, SwapInv
  <2>4. QED
    BY <1>3, <2>1, <2>2, <2>3, QuietStep DEF B!Stamp
<1>4. ASSUME NEW c \in Callers, B!Swap(c) PROVE SwapInv' /\ TrialInv' /\ B!TrialsSpaced'
  <2>1. ASSUME openedAt = call[c].loaded, openedAt' = call[c].stamp,
               B!Become(c, [call[c] EXCEPT !.pc = "sent", !.trial = outage])
        PROVE  SwapInv' /\ TrialInv' /\ B!TrialsSpaced'
    <3>1. openedAt # 0 /\ openedAt + Cooldown <= call[c].stamp
      BY <1>4, <2>1 DEF B!Swap, SwapInv
    <3>2. SwapInv'
      BY <1>4, <2>1 DEF B!Swap, SwapInv
    <3>3. TrialInv'
      BY <1>4, <2>1, <3>1 DEF B!Swap, TrialInv
    <3>4. ASSUME NEW n \in 1..outage, NEW d \in B!Trials(n)', d # c, n = outage
          PROVE  call[c].stamp >= call[d].stamp + Cooldown
      BY <2>1, <3>1, <3>4 DEF B!Trials, TrialInv
    <3>5. ASSUME NEW n \in 1..outage, NEW d \in B!Trials(n)', NEW e \in B!Trials(n)', d # e
          PROVE  \/ call'[d].stamp >= call'[e].stamp + Cooldown
                 \/ call'[e].stamp >= call'[d].stamp + Cooldown
      <4>1. \A x \in Callers : call'[x].stamp = call[x].stamp
        BY <2>1
      <4>2. ASSUME d # c, e # c
            PROVE  \/ call[d].stamp >= call[e].stamp + Cooldown
                   \/ call[e].stamp >= call[d].stamp + Cooldown
        BY <2>1, <3>5, <4>2 DEF B!Trials, B!TrialsSpaced
      <4>3. c \in B!Trials(n)' => n = outage
        BY <2>1 DEF B!Trials
      <4>4. d \in Callers /\ e \in Callers
        BY DEF B!Trials
      <4>5. QED
        BY <3>4, <3>5, <4>1, <4>2, <4>3, <4>4
    <3>6. outage' = outage
      BY <1>4 DEF B!Swap
    <3>7. QED
      BY <3>2, <3>3, <3>5, <3>6 DEF B!TrialsSpaced
  <2>2. ASSUME B!Become(c, B!NoCall), UNCHANGED openedAt
        PROVE  SwapInv' /\ TrialInv' /\ B!TrialsSpaced'
    <3>1. B!NoCall \in B!Call
      BY DEF B!Pcs, B!Outcomes
    <3>2. SwapInv'
      BY <1>4, <2>2 DEF B!Swap, SwapInv
    <3>3. QED
      BY <1>4, <2>2, <3>1, <3>2, QuietStep DEF B!Swap
  <2>3. QED
    BY <1>4, <2>1, <2>2 DEF B!Swap
<1>5. ASSUME NEW c \in Callers, B!Ping(c) PROVE SwapInv' /\ TrialInv' /\ B!TrialsSpaced'
  <2> DEFINE sent == [B!NoCall EXCEPT !.pc = "sent"]
  <2>1. sent \in B!Call
    BY DEF B!Pcs, B!Outcomes
  <2>2. B!Become(c, sent)
    BY <1>5 DEF B!Ping
  <2>3. SwapInv'
    BY <1>5, <2>2 DEF B!Ping, SwapInv
  <2>4. QED
    BY <1>5, <2>1, <2>2, <2>3, QuietStep DEF B!Ping
<1>6. ASSUME NEW c \in Callers,
             B!Answer(c) \/ B!Cancel(c) \/ B!Error(c) \/ B!Reset(c) \/ B!Count(c) \/ B!Clock(c)
      PROVE  SwapInv' /\ TrialInv' /\ B!TrialsSpaced'
  <2>1. UNCHANGED <<openedAt, outage, clock>>
    BY <1>6 DEF B!Answer, B!Cancel, B!Error, B!Reset, B!Count, B!Clock
  <2>2. PICK r \in B!Call : B!Become(c, r) /\ r.pc \in Bookkeeping
    <3>1. ASSUME B!Answer(c) \/ B!Cancel(c)
          PROVE  \E r \in B!Call : B!Become(c, r) /\ r.pc \in Bookkeeping
      <4> DEFINE answered == [call[c] EXCEPT !.pc = "resetting", !.outcome = "answered"]
                 cancelled == [call[c] EXCEPT !.pc = "resetting", !.outcome = "cancelled"]
      <4>1. /\ answered \in B!Call /\ answered.pc \in Bookkeeping
            /\ cancelled \in B!Call /\ cancelled.pc \in Bookkeeping
        BY DEF B!Pcs, B!Outcomes, Bookkeeping
      <4>2. B!Become(c, answered) \/ B!Become(c, cancelled)
        BY <3>1 DEF B!Answer, B!Cancel
      <4>3. QED
        BY <4>1, <4>2
    <3>2. ASSUME B!Error(c) PROVE \E r \in B!Call : B!Become(c, r) /\ r.pc \in Bookkeeping
      <4> DEFINE counting == [call[c] EXCEPT !.pc = "counting"]
      <4>1. counting \in B!Call /\ counting.pc \in Bookkeeping
        BY DEF B!Pcs, Bookkeeping
      <4>2. B!Become(c, counting)
        BY <3>2 DEF B!Error
      <4>3. QED
        BY <4>1, <4>2
    <3>3. ASSUME B!Reset(c) PROVE \E r \in B!Call : B!Become(c, r) /\ r.pc \in Bookkeeping
      <4> DEFINE closing == [call[c] EXCEPT !.pc = "closing"]
      <4>1. closing \in B!Call /\ closing.pc \in Bookkeeping
        BY DEF B!Pcs, Bookkeeping
      <4>2. B!Become(c, closing)
        BY <3>3 DEF B!Reset
      <4>3. QED
        BY <4>1, <4>2
    <3>4. ASSUME B!Count(c) PROVE \E r \in B!Call : B!Become(c, r) /\ r.pc \in Bookkeeping
      <4> DEFINE opening == [call[c] EXCEPT !.pc = "opening"]
      <4>1. /\ opening \in B!Call /\ opening.pc \in Bookkeeping
            /\ B!NoCall \in B!Call /\ B!NoCall.pc \in Bookkeeping
        BY DEF B!Pcs, B!Outcomes, Bookkeeping
      <4>2. B!Become(c, opening) \/ B!Become(c, B!NoCall)
        BY <3>4 DEF B!Count
      <4>3. QED
        BY <4>1, <4>2
    <3>5. ASSUME B!Clock(c) PROVE \E r \in B!Call : B!Become(c, r) /\ r.pc \in Bookkeeping
      <4> DEFINE tripping == [call[c] EXCEPT !.pc = "tripping", !.stamp = clock]
      <4>1. tripping \in B!Call /\ tripping.pc \in Bookkeeping
        BY DEF B!Pcs, Bookkeeping
      <4>2. B!Become(c, tripping)
        BY <3>5 DEF B!Clock
      <4>3. QED
        BY <4>1, <4>2
    <3>6. QED
      BY <1>6, <3>1, <3>2, <3>3, <3>4, <3>5
  <2>3. SwapInv'
    BY <2>1, <2>2 DEF SwapInv, Bookkeeping
  <2>4. QED
    BY <2>1, <2>2, <2>3, QuietStep DEF Bookkeeping
<1>7. ASSUME NEW c \in Callers, B!Close(c) \/ B!Open(c)
      PROVE  SwapInv' /\ TrialInv' /\ B!TrialsSpaced'
  <2>1. /\ B!Become(c, B!NoCall)
        /\ UNCHANGED clock
        /\ \/ openedAt' = 0 /\ outage' = outage
           \/ outage' = outage + 1
           \/ UNCHANGED <<openedAt, outage>>
    BY <1>7 DEF B!Close, B!Open
  <2>2. SwapInv'
    BY <2>1 DEF SwapInv
  <2>3. TrialInv'
    BY <2>1 DEF TrialInv
  <2>4. \A n \in Nat : B!Trials(n)' \subseteq B!Trials(n) \ {c}
    BY <2>1 DEF B!Trials
  <2>5. \A d \in Callers \ {c} : call'[d] = call[d]
    BY <2>1
  <2>6. \A n \in 1..outage' : n \notin 1..outage => B!Trials(n)' = {}
    BY <2>1, <2>4 DEF B!Trials, TrialInv
  <2>7. B!TrialsSpaced'
    BY <2>4, <2>5, <2>6 DEF B!TrialsSpaced, B!Trials
  <2>8. QED
    BY <2>2, <2>3, <2>7
<1>8. ASSUME B!Tick \/ B!Outage \/ UNCHANGED B!vars
      PROVE  SwapInv' /\ TrialInv' /\ B!TrialsSpaced'
  <2>1. UNCHANGED <<openedAt, call, outage>> /\ clock <= clock'
    BY <1>8 DEF B!Tick, B!Outage, B!vars
  <2>2. QED
    BY <2>1 DEF SwapInv, TrialInv, B!TrialsSpaced, B!Trials
<1>9. QED
  BY <1>1, <1>2, <1>3, <1>4, <1>5, <1>6, <1>7, <1>8 DEF B!Next, B!Allow, B!Observe

(* The trials that one outage lets through are a cooldown apart, whoever   *)
(* races for them: allow's swap and observe's two stores interleave        *)
(* freely.                                                                 *)
THEOREM TrialsApart == ServiceSpec => []TrialsSpaced
<1>1. B!Spec => []B!TypeOK
  BY TypeCorrect
<1>2. BreakerInv => TrialsSpaced
  BY DEF BreakerInv, TrialsSpaced
<1>3. [ServiceNext]_serviceVars => [B!Next]_B!vars
  BY DEF ServiceNext, Calling, Mailing, serviceVars, breakerVars, B!vars
<1>4. QED
  BY <1>1, <1>2, <1>3, InitInv, NextInv, PTL DEF B!Spec, ServiceSpec, ServiceInit

-----------------------------------------------------------------------------
(* Account mail.  What was handed to the provider has the one key of its   *)
(* mail; a report being served was made; and the row of a mail has the     *)
(* latest of the outcomes that found it.                                   *)
OneKey == \A k \in queued : k = Mail!Key(k.mail)

ReportsMade ==
  /\ Mail!IsFiniteSet(reports) /\ \A e \in reports : e.id \in Nat
  /\ unanswered \subseteq reports
  /\ hook \in [Hooks -> [pc : {"apply", "suppress"}, report : reports] \cup {Mail!NoReport}]

LatestHeard ==
  /\ delivery = [m \in Mails |-> delivery[m]] /\ heard = [m \in Mails |-> heard[m]]
  /\ \A m \in Mails :
       /\ delivery[m].at \in Nat
       /\ heard[m] = {} => delivery[m].at = 0
       /\ heard[m] # {} => /\ delivery[m] \in heard[m]
                           /\ \A o \in heard[m] : o.at \in Nat /\ o.at <= delivery[m].at

MailInv == OneKey /\ ReportsMade /\ LatestHeard

(* Sets are finite, and are counted, as in FiniteSets.                     *)
LEMMA SameSets ==
  \A S : /\ Mail!IsFiniteSet(S) <=> IsFiniteSet(S)
         /\ Mail!Cardinality(S) = Cardinality(S)
BY DEF IsFiniteSet, Mail!IsFiniteSet, Cardinality, Mail!Cardinality

(* A row is written by a report that is as new, or newer.                  *)
LEMMA WriteKeeps ==
  ASSUME MailInv, NEW e \in reports, Mail!Write(e)
  PROVE  LatestHeard'
<1> DEFINE o == [status |-> e.kind, at |-> Mail!OccurredAt(e)]
<1>1. o.at \in Nat
  <2>1. Cardinality(reports) \in Nat
    BY SameSets, FS_CardinalityType DEF MailInv, ReportsMade
  <2> QED  BY <2>1, SameSets DEF MailInv, ReportsMade, Mail!OccurredAt
<1>2. CASE Mail!Recorded(e.mail)
  <2>1. /\ heard' = [heard EXCEPT ![e.mail] = @ \cup {o}]
        /\ delivery' = IF delivery[e.mail].at <= o.at
                       THEN [delivery EXCEPT ![e.mail] = o] ELSE delivery
    BY <1>2 DEF Mail!Write
  <2> HIDE DEF o
  <2> SUFFICES ASSUME NEW m \in Mails
               PROVE  /\ delivery'[m].at \in Nat
                      /\ heard'[m] = {} => delivery'[m].at = 0
                      /\ heard'[m] # {} =>
                           /\ delivery'[m] \in heard'[m]
                           /\ \A x \in heard'[m] : x.at \in Nat /\ x.at <= delivery'[m].at
    BY <2>1 DEF MailInv, LatestHeard
  <2>2. CASE m # e.mail
    <3>1. delivery'[m] = delivery[m] /\ heard'[m] = heard[m]
      BY <2>1, <2>2 DEF MailInv, LatestHeard
    <3> QED  BY <3>1 DEF MailInv, LatestHeard
  <2>3. CASE m = e.mail
    <3>1. heard'[m] = heard[m] \cup {o}
      BY <2>1, <2>3 DEF MailInv, LatestHeard
    <3>2. delivery'[m] = IF delivery[m].at <= o.at THEN o ELSE delivery[m]
      BY <2>1, <2>3 DEF MailInv, LatestHeard
    <3> QED  BY <1>1, <3>1, <3>2 DEF MailInv, LatestHeard
  <2> QED  BY <2>2, <2>3
<1>3. CASE ~Mail!Recorded(e.mail)
  BY <1>3 DEF MailInv, LatestHeard, Mail!Write
<1> QED  BY <1>2, <1>3

(* Every step keeps the account of the mails.                              *)
LEMMA NextMailInv == MailInv /\ [Mail!Next]_Mail!vars => MailInv'
<1> SUFFICES ASSUME MailInv, [Mail!Next]_Mail!vars PROVE MailInv'
  OBVIOUS
<1>1. ASSUME NEW m \in Mails, Mail!Check(m) \/ Mail!HandOver(m) \/ Mail!Record(m) PROVE MailInv'
  <2>1. queued' = queued \/ queued' = queued \cup {Mail!Key(m)}
    BY <1>1 DEF Mail!Check, Mail!HandOver, Mail!Record, Mail!PostEmail, Mail!Accept
  <2>2. OneKey'
    BY <2>1 DEF MailInv, OneKey, Mail!Key
  <2>3. UNCHANGED <<delivery, reports, unanswered, hook, heard>>
    BY <1>1 DEF Mail!Check, Mail!HandOver, Mail!Record
  <2> QED  BY <2>2, <2>3, SameSets DEF MailInv, ReportsMade, LatestHeard
<1>2. ASSUME NEW m \in Mails, Mail!MakeReport(m) PROVE MailInv'
  <2>1. PICK kind \in Mail!Kinds, dated \in BOOLEAN, named \in BOOLEAN :
          LET new == [mail |-> m, kind |-> kind, id |-> Mail!Cardinality(reports) + 1,
                      dated |-> dated, named |-> named]
          IN reports' = reports \cup {new} /\ unanswered' = unanswered \cup {new}
    BY <1>2 DEF Mail!MakeReport
  <2> DEFINE new == [mail |-> m, kind |-> kind, id |-> Mail!Cardinality(reports) + 1,
                     dated |-> dated, named |-> named]
  <2>2. new.id \in Nat
    BY SameSets, FS_CardinalityType DEF MailInv, ReportsMade
  <2>3. reports' = reports \cup {new} /\ unanswered' = unanswered \cup {new}
    BY <2>1
  <2>4. UNCHANGED <<queued, hook, delivery, heard>>
    BY <1>2 DEF Mail!MakeReport, Mail!sending
  <2> HIDE DEF new
  <2>5. IsFiniteSet(reports')
    BY <2>3, SameSets, FS_AddElement DEF MailInv, ReportsMade
  <2>6. ReportsMade'
    BY <2>2, <2>3, <2>4, <2>5, SameSets DEF MailInv, ReportsMade
  <2> QED  BY <2>4, <2>6 DEF MailInv, OneKey, LatestHeard, Mail!Key
<1>3. ASSUME NEW h \in Hooks, Mail!Post(h) \/ Mail!Repost(h) PROVE MailInv'
  <2>1. PICK e \in reports : Mail!Begin(h, e)
    BY <1>3 DEF Mail!Post, Mail!Repost, MailInv, ReportsMade
  <2>2. hook' \in [Hooks -> [pc : {"apply", "suppress"}, report : reports]
                              \cup {Mail!NoReport}]
    BY <2>1 DEF MailInv, ReportsMade, Mail!Begin
  <2> QED  BY <2>1, <2>2, SameSets
       DEF Mail!Begin, Mail!sending, MailInv, OneKey, ReportsMade, LatestHeard, Mail!Key
<1>4. ASSUME NEW h \in Hooks, Mail!Serve(h) \/ Mail!Fault(h) PROVE MailInv'
  <2>1. hook[h].pc # "idle" /\ hook[h] \in [pc : {"apply", "suppress"}, report : reports]
    BY <1>4 DEF Mail!Serve, Mail!Apply, Mail!Suppress, Mail!Fault, MailInv, ReportsMade,
                Mail!NoReport
  <2>2. UNCHANGED <<queued, reports>> /\ unanswered' \subseteq unanswered
    BY <1>4 DEF Mail!Serve, Mail!Apply, Mail!Suppress, Mail!Fault, Mail!Acknowledge,
                Mail!sending
  <2>3. \/ hook' = [hook EXCEPT ![h] = Mail!NoReport]
        \/ hook' = [hook EXCEPT ![h].pc = "suppress"]
    BY <1>4 DEF Mail!Serve, Mail!Apply, Mail!Suppress, Mail!Fault, Mail!Acknowledge
  <2>4. hook' \in [Hooks -> [pc : {"apply", "suppress"}, report : reports]
                              \cup {Mail!NoReport}]
    BY <2>1, <2>3 DEF MailInv, ReportsMade
  <2>5. LatestHeard'
    <3>1. CASE Mail!Apply(h)
      BY <2>1, <3>1, WriteKeeps DEF Mail!Apply
    <3>2. CASE Mail!Suppress(h) \/ Mail!Fault(h)
      BY <3>2 DEF Mail!Suppress, Mail!Fault, MailInv, LatestHeard
    <3> QED  BY <1>4, <3>1, <3>2 DEF Mail!Serve
  <2> QED  BY <2>2, <2>4, <2>5, SameSets DEF MailInv, OneKey, ReportsMade, Mail!Key
<1>5. CASE Mail!Unsuppress \/ UNCHANGED Mail!vars
  BY <1>5, SameSets DEF Mail!Unsuppress, Mail!vars, Mail!sending, MailInv, OneKey, ReportsMade,
                        LatestHeard, Mail!Key
<1> QED  BY <1>1, <1>2, <1>3, <1>4, <1>5 DEF Mail!Next

(* However often sending a mail is tried, it leaves at most once, and the  *)
(* delivery log shows the newest outcome that found its row (postEmail's   *)
(* idempotency key, ApplyEmailDeliveryEvent), for any mails, reports and   *)
(* webhook requests, in whatever order the reports come and come again.    *)
THEOREM MailsStayAccounted == ServiceSpec => []MailsAccounted
<1>1. Mail!Init => MailInv
  <2> SUFFICES ASSUME Mail!Init PROVE MailInv
    OBVIOUS
  <2>1. Mail!IsFiniteSet(reports)
    BY SameSets, FS_EmptySet DEF Mail!Init
  <2>2. LatestHeard
    BY DEF Mail!Init, LatestHeard, Mail!Sent
  <2> QED  BY <2>1, <2>2 DEF Mail!Init, MailInv, OneKey, ReportsMade, Mail!NoReport
<1>2. [ServiceNext]_serviceVars => [Mail!Next]_Mail!vars
  BY DEF ServiceNext, Calling, Mailing, serviceVars, mailVars, Mail!vars, Mail!sending
<1>3. MailInv => MailsAccounted
  BY DEF MailInv, OneKey, LatestHeard, MailsAccounted, Mail!MailsAccounted
<1>4. QED
  BY <1>1, <1>2, <1>3, NextMailInv, PTL DEF ServiceSpec, ServiceInit

-----------------------------------------------------------------------------
(* An author's posts, and Codohue's catalog of them.                       *)
PostRow == [state : {"none", "live", "deleted"}, visibility : Catalog!Visibilities,
            version : Nat, tags : Nat]
Item == [text : Nat, tags : Nat]
RequestRecord ==
  [pc : {"idle", "update", "delete", "evict", "hydrate", "spawn", "remove", "unlist"},
   post : AuthorPosts \cup {Catalog!Idle.post}, seen : PostRow, item : Item]

CatalogTyped ==
  /\ posts \in [AuthorPosts -> PostRow]
  /\ announced \in [AuthorPosts -> Catalog!Visibilities \cup {"nothing", "deleted"}]
  /\ catalog \in [AuthorPosts -> Item]
  /\ ingests \subseteq [post : AuthorPosts, item : Item]
  /\ req \in [Requests -> RequestRecord]
  /\ \A r \in Requests : req[r].pc # "idle" => req[r].post \in AuthorPosts
  /\ changes \in Nat

(* A request that committed a change of p, and has to follow it up.        *)
Follows(r, p) == req[r].post = p /\ req[r].pc \in {"evict", "hydrate", "spawn", "unlist", "remove"}

(* What Codohue should hold of a post.                                     *)
Due(p) ==
  IF Catalog!Live(p) THEN [text |-> posts[p].version, tags |-> posts[p].tags]
  ELSE Catalog!NoItem

(* Unless changes crossed or a call failed, one request or one ingestion   *)
(* at most is under way about a post, and it brings what is due; and when  *)
(* there is none, that has come.                                           *)
FollowsRightly(r, p) ==
  /\ req[r].pc \in {"evict", "hydrate", "spawn"} =>
       Catalog!Live(p) /\ req[r].item.text = posts[p].version
  /\ req[r].pc = "spawn" => req[r].item.tags = posts[p].tags
  /\ req[r].pc \in {"unlist", "remove"} => ~Catalog!Live(p)

Alone(p) ==
  /\ \A r, q \in Requests : Follows(r, p) /\ Follows(q, p) => r = q
  /\ \A r \in Requests, i \in ingests : Follows(r, p) => i.post # p
  /\ \A i, j \in ingests : i.post = p /\ j.post = p => i = j

Settled(p) == (\A i \in ingests : i.post # p) /\ \A r \in Requests : ~Follows(r, p)

PostFollowed(p) ==
  /\ Alone(p)
  /\ \A r \in Requests : Follows(r, p) => FollowsRightly(r, p)
  /\ \A i \in ingests : i.post = p => Catalog!Live(p) /\ i.item = Due(p)
  /\ Settled(p) => catalog[p] = Due(p)

CatalogInv ==
  /\ CatalogTyped
  /\ Catalog!VisibilityAnnounced
  /\ \A p \in AuthorPosts : p \notin blurred => PostFollowed(p)

(* A request is about a post's change if it follows one up.                *)
LEMMA SettledIs ==
  ASSUME CatalogTyped, NEW p \in AuthorPosts
  PROVE  Settled(p) <=> ~Catalog!Indexing(p)
BY DEF CatalogTyped, Settled, Catalog!Indexing, Follows, RequestRecord

LEMMA CatalogInit == Catalog!SharedInit => CatalogInv
<1> SUFFICES ASSUME Catalog!SharedInit PROVE CatalogInv
  OBVIOUS
<1>1. /\ posts = [p \in AuthorPosts |-> Catalog!NoRow]
      /\ announced = [p \in AuthorPosts |-> "nothing"]
      /\ catalog = [p \in AuthorPosts |-> Catalog!NoItem]
      /\ ingests = {} /\ req = [r \in Requests |-> Catalog!Idle] /\ changes = 0
  BY DEF Catalog!SharedInit, Catalog!Init
<1>2. /\ Catalog!NoRow \in PostRow /\ Catalog!NoItem \in Item
      /\ Catalog!Idle \in RequestRecord /\ Catalog!Idle.pc = "idle"
  BY DEF Catalog!NoRow, PostRow, Catalog!Visibilities, Catalog!NoItem, Item, Catalog!Idle,
         RequestRecord
<1>3. CatalogTyped
  BY <1>1, <1>2 DEF CatalogTyped
<1>4. \A p \in AuthorPosts : ~Catalog!Live(p)
  BY <1>1 DEF Catalog!Live, Catalog!NoRow
<1>5. Catalog!VisibilityAnnounced
  BY <1>1, <1>4 DEF Catalog!VisibilityAnnounced, Catalog!NoRow
<1>6. \A p \in AuthorPosts, r \in Requests : ~Follows(r, p)
  BY <1>1, <1>2 DEF Follows
<1>7. \A p \in AuthorPosts : PostFollowed(p)
  BY <1>1, <1>4, <1>6 DEF PostFollowed, Alone, Due
<1>8. QED
  BY <1>3, <1>5, <1>7 DEF CatalogInv

(* The request r goes on as n, and nothing else about the posts changes.   *)
Onward(r, n) ==
  /\ n \in RequestRecord /\ (n.pc # "idle" => n.post \in AuthorPosts)
  /\ req' = [req EXCEPT ![r] = n]
  /\ UNCHANGED <<posts, announced, raced, changes, catalog, ingests>>

LEMMA OnwardKeeps ==
  ASSUME CatalogInv, NEW r \in Requests, NEW n, Onward(r, n), blurred \subseteq blurred',
         \A p \in AuthorPosts : p \notin blurred' =>
           /\ Follows(r, p) <=> Follows(r, p)'
           /\ Follows(r, p)' => FollowsRightly(r, p)'
  PROVE  CatalogInv'
<1>1. CatalogTyped'
  BY DEF CatalogInv, CatalogTyped, Onward
<1>2. Catalog!VisibilityAnnounced'
  BY DEF CatalogInv, Onward, Catalog!VisibilityAnnounced, Catalog!Live
<1>3. ASSUME NEW p \in AuthorPosts, p \notin blurred' PROVE PostFollowed(p)'
  <2>1. PostFollowed(p)
    BY <1>3 DEF CatalogInv
  <2>2. \A q \in Requests : Follows(q, p)' <=> Follows(q, p)
    BY <1>3 DEF CatalogInv, CatalogTyped, Onward, Follows
  <2>3. \A q \in Requests : Follows(q, p)' => FollowsRightly(q, p)'
    BY <1>3, <2>1, <2>2
       DEF CatalogInv, CatalogTyped, Onward, Follows, FollowsRightly, PostFollowed, Catalog!Live
  <2>4. Due(p)' = Due(p) /\ Catalog!Live(p)' = Catalog!Live(p)
    BY DEF Onward, Due, Catalog!Live
  <2>5. Alone(p)'
    BY <2>1, <2>2 DEF PostFollowed, Alone, Onward
  <2>6. Settled(p)' <=> Settled(p)
    BY <2>2 DEF Settled, Onward
  <2>7. QED
    BY <2>1, <2>3, <2>4, <2>5, <2>6 DEF PostFollowed, Onward
<1>4. QED
  BY <1>1, <1>2, <1>3 DEF CatalogInv

(* The first half of a request: it reads, or is refused.                   *)
LEMMA ReadingKeeps ==
  ASSUME CatalogInv, NEW r \in Requests,
         Catalog!UpdatePost(r) \/ Catalog!DeletePost(r) \/ Catalog!Refused(r)
  PROVE  CatalogInv'
<1>1. req \in [Requests -> RequestRecord] /\ posts \in [AuthorPosts -> PostRow]
  BY DEF CatalogInv, CatalogTyped
<1>2. \E n \in RequestRecord :
        n.pc \in {"idle", "update", "delete"} /\ req' = [req EXCEPT ![r] = n]
          /\ (n.pc # "idle" => n.post \in AuthorPosts)
  <2>1. CASE Catalog!UpdatePost(r) \/ Catalog!DeletePost(r)
    <3>1. PICK pc \in {"update", "delete"}, p \in AuthorPosts :
            /\ Catalog!Live(p)
            /\ req' = [req EXCEPT ![r] =
                 [Catalog!Idle EXCEPT !.pc = pc, !.post = p, !.seen = Catalog!GetPostByID(p)]]
      BY <2>1 DEF Catalog!UpdatePost, Catalog!DeletePost, Catalog!ReadFirst, Catalog!GetPostByID
    <3> DEFINE n == [Catalog!Idle EXCEPT !.pc = pc, !.post = p, !.seen = Catalog!GetPostByID(p)]
    <3>2. n \in RequestRecord /\ n.pc = pc /\ n.post = p
      BY <1>1, <3>1 DEF Catalog!Idle, RequestRecord, Catalog!GetPostByID, Catalog!NoItem, Item
    <3>3. QED
      BY <3>1, <3>2
  <2>2. CASE Catalog!Refused(r)
    <3>1. Catalog!Idle \in RequestRecord /\ Catalog!Idle.pc = "idle"
      BY DEF Catalog!NoRow, PostRow, Catalog!Visibilities, Catalog!NoItem, Item, Catalog!Idle,
             RequestRecord
    <3>2. QED
      BY <2>2, <3>1 DEF Catalog!Refused
  <2>3. QED
    BY <2>1, <2>2
<1>3. PICK n \in RequestRecord :
        n.pc \in {"idle", "update", "delete"} /\ req' = [req EXCEPT ![r] = n]
          /\ (n.pc # "idle" => n.post \in AuthorPosts)
  BY <1>2
<1>4. /\ req[r].pc \in {"idle", "update", "delete"}
      /\ UNCHANGED <<posts, announced, raced, changes, catalog, ingests, blurred>>
  BY DEF Catalog!UpdatePost, Catalog!DeletePost, Catalog!ReadFirst, Catalog!Refused, Catalog!At,
         Catalog!mutated, Catalog!indexed
<1>5. Onward(r, n)
  BY <1>3, <1>4 DEF Onward
<1>6. \A p \in AuthorPosts : ~Follows(r, p) /\ ~Follows(r, p)'
  BY <1>1, <1>3, <1>4 DEF Follows
<1>7. QED
  BY <1>4, <1>5, <1>6, OnwardKeeps

(* The steps that follow a change up, short of the catalog.                *)
LEMMA FollowingKeeps ==
  ASSUME CatalogInv, NEW r \in Requests,
         \/ Catalog!EvictAfterUpdate(r) \/ Catalog!EvictAfterDelete(r) \/ Catalog!Hydrate(r)
  PROVE  CatalogInv'
<1>1. /\ req \in [Requests -> RequestRecord] /\ posts \in [AuthorPosts -> PostRow]
      /\ req[r] \in RequestRecord /\ (req[r].pc # "idle" => req[r].post \in AuthorPosts)
  BY DEF CatalogInv, CatalogTyped
<1>2. UNCHANGED <<posts, announced, raced, changes, catalog, ingests>> /\ blurred \subseteq blurred'
  BY DEF Catalog!EvictAfterUpdate, Catalog!EvictAfterDelete, Catalog!Hydrate, Catalog!mutated,
         Catalog!indexed
<1>3. ASSUME NEW p \in AuthorPosts, p \notin blurred' PROVE Follows(r, p) => FollowsRightly(r, p)
  BY <1>2, <1>3 DEF CatalogInv, PostFollowed
<1>4. CASE Catalog!EvictAfterUpdate(r) \/ Catalog!EvictAfterDelete(r)
  <2>1. PICK pc \in {"hydrate", "remove"} :
          /\ req[r].pc = IF pc = "hydrate" THEN "evict" ELSE "unlist"
          /\ req' = [req EXCEPT ![r].pc = pc]
    BY <1>4 DEF Catalog!EvictAfterUpdate, Catalog!EvictAfterDelete, Catalog!At, Catalog!Goto
  <2>2. PICK n : n = [req[r] EXCEPT !.pc = pc]
    OBVIOUS
  <2>3. /\ n \in RequestRecord /\ n.pc = pc /\ n.post = req[r].post /\ n.item = req[r].item
        /\ req' = [req EXCEPT ![r] = n] /\ req'[r] = n
    BY <1>1, <2>1, <2>2 DEF RequestRecord
  <2>4. Onward(r, n)
    BY <1>1, <1>2, <2>1, <2>3 DEF Onward
  <2>5. \A p \in AuthorPosts : Follows(r, p) <=> Follows(r, p)'
    BY <2>1, <2>3 DEF Follows
  <2>6. ASSUME NEW p \in AuthorPosts, p \notin blurred', Follows(r, p)' PROVE FollowsRightly(r, p)'
    BY <1>2, <1>3, <2>1, <2>3, <2>5, <2>6 DEF FollowsRightly, Catalog!Live
  <2>7. QED
    BY <1>2, <2>4, <2>5, <2>6, OnwardKeeps
<1>5. CASE Catalog!Hydrate(r)
  <2>1. /\ req[r].pc = "hydrate" /\ req[r].post \in AuthorPosts
        /\ \/ req' = [req EXCEPT ![r].pc = "spawn", ![r].item.tags = posts[req[r].post].tags]
           \/ req' = [req EXCEPT ![r].pc = "spawn"] /\ req[r].post \in blurred'
    BY <1>1, <1>5 DEF Catalog!Hydrate, Catalog!At, Catalog!Goto, Catalog!TagsOf
  <2>2. PICK n : \/ /\ n = [req[r] EXCEPT !.pc = "spawn", !.item.tags = posts[req[r].post].tags]
                    /\ req' = [req EXCEPT ![r] = n]
                 \/ /\ n = [req[r] EXCEPT !.pc = "spawn"] /\ req[r].post \in blurred'
                    /\ req' = [req EXCEPT ![r] = n]
    BY <1>1, <2>1
  <2>3. posts[req[r].post].tags \in Nat
    BY <1>1, <2>1 DEF PostRow
  <2>4. /\ n \in RequestRecord /\ n.pc = "spawn" /\ n.post = req[r].post
        /\ n.item.text = req[r].item.text
        /\ req[r].post \in blurred' \/ n.item.tags = posts[req[r].post].tags
        /\ req'[r] = n
    <3>1. req[r].item \in Item /\ [req[r].item EXCEPT !.tags = posts[req[r].post].tags] \in Item
      BY <1>1, <2>3 DEF RequestRecord, Item
    <3>2. CASE n = [req[r] EXCEPT !.pc = "spawn"] /\ req[r].post \in blurred'
      BY <1>1, <2>2, <3>2 DEF RequestRecord
    <3>3. CASE n = [req[r] EXCEPT !.pc = "spawn", !.item.tags = posts[req[r].post].tags]
      <4>1. n.item = [req[r].item EXCEPT !.tags = posts[req[r].post].tags]
        BY <1>1, <3>3 DEF RequestRecord
      <4>2. n.item.text = req[r].item.text /\ n.item.tags = posts[req[r].post].tags
        BY <3>1, <4>1 DEF Item
      <4>3. n \in RequestRecord /\ n.pc = "spawn" /\ n.post = req[r].post
        BY <1>1, <3>1, <3>3, <4>1 DEF RequestRecord
      <4>4. QED
        BY <1>1, <2>2, <4>2, <4>3
    <3>4. QED
      BY <2>2, <3>2, <3>3
  <2>5. Onward(r, n)
    BY <1>1, <1>2, <2>1, <2>2, <2>4 DEF Onward
  <2>6. \A p \in AuthorPosts : Follows(r, p) <=> Follows(r, p)'
    BY <2>1, <2>4 DEF Follows
  <2>7. ASSUME NEW p \in AuthorPosts, p \notin blurred', Follows(r, p)' PROVE FollowsRightly(r, p)'
    <3>1. req[r].post = p /\ FollowsRightly(r, p)
      BY <1>3, <2>6, <2>7 DEF Follows
    <3>2. QED
      BY <1>2, <2>1, <2>4, <2>7, <3>1 DEF FollowsRightly, Catalog!Live
  <2>8. QED
    BY <1>2, <2>5, <2>6, <2>7, OnwardKeeps
<1>6. QED
  BY <1>4, <1>5

(* The request r commits the row of p, and goes on as n.                   *)
Commits(r, p, row, n) ==
  /\ row \in PostRow /\ n \in RequestRecord /\ n.post = p
  /\ req[r].pc \in {"idle", "update", "delete"} /\ n.pc \in {"evict", "spawn", "unlist"}
  /\ n.pc # "unlist" => row.state = "live" /\ n.item.text = row.version
  /\ n.pc = "spawn" => n.item.tags = row.tags
  /\ n.pc = "unlist" => row.state = "deleted"
  /\ posts' = [posts EXCEPT ![p] = row] /\ req' = [req EXCEPT ![r] = n]
  /\ changes' = changes + 1 /\ blurred' = Catalog!Blurred(p)
  /\ UNCHANGED <<catalog, ingests>>

LEMMA CommitKeeps ==
  ASSUME CatalogInv, NEW r \in Requests, NEW p \in AuthorPosts, NEW row, NEW n,
         Commits(r, p, row, n),
         announced' \in [AuthorPosts -> Catalog!Visibilities \cup {"nothing", "deleted"}],
         Catalog!VisibilityAnnounced'
  PROVE  CatalogInv'
<1>1. CatalogTyped
  BY DEF CatalogInv
<1>2. CatalogTyped'
  BY <1>1 DEF CatalogTyped, Commits
<1>3. /\ req'[r] = n /\ posts'[p] = row
      /\ \A q \in Requests \ {r} : req'[q] = req[q]
      /\ \A q \in AuthorPosts \ {p} : posts'[q] = posts[q]
  BY <1>1 DEF CatalogTyped, Commits
<1>4. ASSUME NEW q \in AuthorPosts \ {p}, q \notin blurred' PROVE PostFollowed(q)'
  <2>1. q \notin blurred
    BY <1>4 DEF Commits, Catalog!Blurred
  <2>2. PostFollowed(q)
    BY <2>1 DEF CatalogInv
  <2>3. \A s \in Requests : Follows(s, q)' <=> Follows(s, q)
    BY <1>3 DEF Follows, Commits
  <2>4. \A s \in Requests : Follows(s, q)' => FollowsRightly(s, q)'
    BY <1>3, <2>2, <2>3 DEF Follows, Commits, FollowsRightly, PostFollowed, Catalog!Live
  <2>5. Due(q)' = Due(q) /\ Catalog!Live(q)' = Catalog!Live(q)
    BY <1>3 DEF Due, Catalog!Live
  <2>6. Alone(q)' /\ (Settled(q)' <=> Settled(q))
    BY <2>2, <2>3 DEF PostFollowed, Alone, Settled, Commits
  <2>7. QED
    BY <2>2, <2>4, <2>5, <2>6 DEF PostFollowed, Commits
<1>5. ASSUME p \notin blurred' PROVE PostFollowed(p)'
  <2>1. Settled(p)
    BY <1>1, <1>5, SettledIs DEF Commits, Catalog!Blurred
  <2>2. /\ Follows(r, p)' /\ \A q \in Requests \ {r} : ~Follows(q, p)'
        /\ \A i \in ingests' : i.post # p
    BY <1>3, <2>1 DEF Settled, Follows, Commits
  <2>3. Alone(p)' /\ ~Settled(p)'
    BY <2>2 DEF Alone, Settled
  <2>4. FollowsRightly(r, p)'
    BY <1>3 DEF FollowsRightly, Commits, Catalog!Live
  <2>5. QED
    BY <2>2, <2>3, <2>4 DEF PostFollowed
<1>6. QED
  BY <1>2, <1>4, <1>5 DEF CatalogInv

LEMMA CreateKeeps ==
  ASSUME CatalogInv, NEW r \in Requests, Catalog!CreatePost(r)
  PROVE  CatalogInv'
<1>1. CatalogTyped
  BY DEF CatalogInv
<1>2. PICK p \in AuthorPosts, in \in Catalog!AcceptCreate :
        /\ Catalog!At(r, "idle") /\ posts[p].state = "none"
        /\ Catalog!Committed(p, Catalog!InsertedRow(in))
        /\ announced' = [announced EXCEPT ![p] = in.visibility]
        /\ req' = [req EXCEPT ![r] = [Catalog!Idle EXCEPT !.pc = "spawn", !.post = p,
             !.item = [text |-> changes + 1, tags |-> Catalog!Linked(in.tagged)]]]
        /\ UNCHANGED <<raced, catalog, ingests>>
  BY DEF Catalog!CreatePost
<1>3. PICK row : row = Catalog!InsertedRow(in)
  OBVIOUS
<1>4. PICK n : n = [Catalog!Idle EXCEPT !.pc = "spawn", !.post = p,
                      !.item = [text |-> changes + 1, tags |-> Catalog!Linked(in.tagged)]]
  OBVIOUS
<1>5. in.visibility \in Catalog!Visibilities /\ Catalog!Linked(in.tagged) \in Nat
        /\ changes + 1 \in Nat
  BY <1>1 DEF Catalog!AcceptCreate, Catalog!Linked, CatalogTyped
<1>6. /\ row \in PostRow /\ row.state = "live" /\ row.visibility = in.visibility
      /\ row.version = changes + 1 /\ row.tags = Catalog!Linked(in.tagged)
  BY <1>3, <1>5 DEF Catalog!InsertedRow, PostRow
<1>7. /\ n \in RequestRecord /\ n.post = p /\ n.pc = "spawn"
      /\ n.item.text = changes + 1 /\ n.item.tags = Catalog!Linked(in.tagged)
  BY <1>4, <1>5 DEF Catalog!Idle, RequestRecord, Catalog!NoItem, Item, Catalog!NoRow, PostRow,
                    Catalog!Visibilities
<1>8. Commits(r, p, row, n)
  BY <1>2, <1>3, <1>4, <1>6, <1>7 DEF Commits, Catalog!Committed, Catalog!At
<1>9. announced' \in [AuthorPosts -> Catalog!Visibilities \cup {"nothing", "deleted"}]
  BY <1>1, <1>2, <1>5 DEF CatalogTyped
<1>10. Catalog!VisibilityAnnounced'
  BY <1>1, <1>2, <1>5, <1>6, <1>8
     DEF Commits, CatalogInv, CatalogTyped, Catalog!VisibilityAnnounced, Catalog!Live
<1>11. QED
  BY <1>8, <1>9, <1>10, CommitKeeps

LEMMA UpdateKeeps ==
  ASSUME CatalogInv, NEW r \in Requests, Catalog!CommitUpdate(r)
  PROVE  CatalogInv'
<1>1. CatalogTyped /\ req[r] \in RequestRecord
  BY DEF CatalogInv, CatalogTyped
<1>2. PICK p : p = req[r].post
  OBVIOUS
<1>3. /\ p \in AuthorPosts /\ req[r].pc = "update" /\ Catalog!Live(p)
      /\ UNCHANGED <<catalog, ingests>>
      /\ req' = [req EXCEPT ![r].pc = "evict", ![r].item = [text |-> changes + 1, tags |-> 0]]
  BY <1>1, <1>2 DEF Catalog!CommitUpdate, Catalog!At, CatalogTyped
<1>4. PICK in \in Catalog!AcceptUpdate :
        /\ Catalog!Committed(p, Catalog!UpdatedRow(p, in))
        /\ Catalog!Announce(r, in.visibility)
  BY <1>2 DEF Catalog!CommitUpdate
<1>5. PICK row : row = Catalog!UpdatedRow(p, in)
  OBVIOUS
<1>6. PICK n : n = [req[r] EXCEPT !.pc = "evict", !.item = [text |-> changes + 1, tags |-> 0]]
  OBVIOUS
<1>7. in.visibility \in Catalog!Visibilities /\ Catalog!Linked(in.tagged) \in Nat
        /\ changes + 1 \in Nat
  BY <1>1 DEF Catalog!AcceptUpdate, Catalog!Linked, CatalogTyped
<1>8. posts[p] \in PostRow /\ posts[p].state = "live"
  BY <1>1, <1>3 DEF CatalogTyped, Catalog!Live
<1>9. /\ row \in PostRow /\ row.state = "live" /\ row.visibility = in.visibility
      /\ row.version = changes + 1
  BY <1>5, <1>7, <1>8 DEF Catalog!UpdatedRow, Catalog!ReplaceForPost, PostRow
<1>10. /\ n \in RequestRecord /\ n.post = p /\ n.pc = "evict" /\ n.item.text = changes + 1
       /\ req' = [req EXCEPT ![r] = n]
  BY <1>1, <1>2, <1>3, <1>6, <1>7 DEF RequestRecord, Item
<1>11. Commits(r, p, row, n)
  BY <1>3, <1>4, <1>5, <1>9, <1>10 DEF Commits, Catalog!Committed
<1>12. \/ /\ announced' = [announced EXCEPT ![p] = in.visibility] /\ raced' = raced \ {p}
       \/ /\ announced' = announced /\ req[r].seen.visibility = in.visibility
          /\ raced' = IF req[r].seen.visibility # posts[p].visibility THEN raced \cup {p} ELSE raced
  BY <1>2, <1>4 DEF Catalog!Announce
<1>13. announced' \in [AuthorPosts -> Catalog!Visibilities \cup {"nothing", "deleted"}]
  BY <1>1, <1>7, <1>12 DEF CatalogTyped
<1>14. Catalog!VisibilityAnnounced'
  <2>1. /\ posts'[p].state = "live" /\ posts'[p].visibility = in.visibility
        /\ \A q \in AuthorPosts \ {p} : posts'[q] = posts[q]
    BY <1>1, <1>3, <1>9, <1>11 DEF Commits, CatalogTyped
  <2>2. \A q \in AuthorPosts \ {p} : announced'[q] = announced[q] /\ (q \in raced <=> q \in raced')
    BY <1>1, <1>12 DEF CatalogTyped
  <2>3. p \notin raced' => announced'[p] = in.visibility
    BY <1>1, <1>3, <1>12 DEF CatalogInv, CatalogTyped, Catalog!VisibilityAnnounced
  <2>4. QED
    BY <2>1, <2>2, <2>3 DEF CatalogInv, Catalog!VisibilityAnnounced, Catalog!Live
<1>15. QED
  BY <1>3, <1>11, <1>13, <1>14, CommitKeeps

LEMMA DeleteKeeps ==
  ASSUME CatalogInv, NEW r \in Requests, Catalog!CommitDelete(r)
  PROVE  CatalogInv'
<1>1. CatalogTyped /\ req[r] \in RequestRecord
  BY DEF CatalogInv, CatalogTyped
<1>2. PICK p : p = req[r].post
  OBVIOUS
<1>3. /\ p \in AuthorPosts /\ req[r].pc = "delete"
      /\ Catalog!Committed(p, Catalog!DeletedRow(p))
      /\ announced' = [announced EXCEPT ![p] = "deleted"]
      /\ UNCHANGED <<raced, catalog, ingests>>
      /\ req' = [req EXCEPT ![r].pc = "unlist"]
  BY <1>1, <1>2 DEF Catalog!CommitDelete, Catalog!At, Catalog!Goto, CatalogTyped
<1>4. PICK row : row = Catalog!DeletedRow(p)
  OBVIOUS
<1>5. PICK n : n = [req[r] EXCEPT !.pc = "unlist"]
  OBVIOUS
<1>6. row \in PostRow /\ row.state = "deleted"
  BY <1>1, <1>3, <1>4 DEF Catalog!DeletedRow, PostRow, CatalogTyped
<1>7. n \in RequestRecord /\ n.post = p /\ n.pc = "unlist" /\ req' = [req EXCEPT ![r] = n]
  BY <1>1, <1>2, <1>3, <1>5 DEF RequestRecord
<1>8. Commits(r, p, row, n)
  BY <1>3, <1>4, <1>6, <1>7 DEF Commits, Catalog!Committed
<1>9. announced' \in [AuthorPosts -> Catalog!Visibilities \cup {"nothing", "deleted"}]
  BY <1>1, <1>3 DEF CatalogTyped
<1>10. Catalog!VisibilityAnnounced'
  BY <1>1, <1>3, <1>6, <1>8
     DEF Commits, CatalogInv, CatalogTyped, Catalog!VisibilityAnnounced, Catalog!Live
<1>11. QED
  BY <1>3, <1>8, <1>9, <1>10, CommitKeeps

LEMMA SpawnKeeps ==
  ASSUME CatalogInv, NEW r \in Requests, Catalog!Spawn(r)
  PROVE  CatalogInv'
<1>1. /\ CatalogTyped /\ req[r] \in RequestRecord /\ req[r].pc = "spawn"
      /\ req[r].post \in AuthorPosts
      /\ ingests' = ingests \cup {[post |-> req[r].post, item |-> req[r].item]}
      /\ req' = [req EXCEPT ![r] = Catalog!Idle]
      /\ UNCHANGED <<posts, announced, raced, changes, catalog, blurred>>
  BY DEF CatalogInv, CatalogTyped, Catalog!Spawn, Catalog!At, Catalog!mutated, Catalog!IndexText
<1>2. Catalog!Idle \in RequestRecord /\ Catalog!Idle.pc = "idle"
  BY DEF Catalog!NoRow, PostRow, Catalog!Visibilities, Catalog!NoItem, Item, Catalog!Idle,
         RequestRecord
<1>3. req'[r] = Catalog!Idle /\ \A q \in Requests \ {r} : req'[q] = req[q]
  BY <1>1 DEF CatalogTyped
<1>4. CatalogTyped'
  <2>1. req' \in [Requests -> RequestRecord]
    BY <1>1, <1>2 DEF CatalogTyped
  <2>2. ingests' \subseteq [post : AuthorPosts, item : Item]
    BY <1>1 DEF CatalogTyped, RequestRecord
  <2>3. \A q \in Requests : req'[q].pc # "idle" => req'[q].post \in AuthorPosts
    BY <1>1, <1>2, <1>3 DEF CatalogTyped
  <2>4. QED
    BY <1>1, <2>1, <2>2, <2>3 DEF CatalogTyped
<1>5. Catalog!VisibilityAnnounced'
  BY <1>1 DEF CatalogInv, Catalog!VisibilityAnnounced, Catalog!Live
<1>6. ASSUME NEW p \in AuthorPosts, p \notin blurred' PROVE PostFollowed(p)'
  <2>1. PostFollowed(p)
    BY <1>1, <1>6 DEF CatalogInv
  <2>2. /\ ~Follows(r, p)'
        /\ \A q \in Requests \ {r} : Follows(q, p)' <=> Follows(q, p)
    BY <1>2, <1>3 DEF Follows
  <2>3. Due(p)' = Due(p) /\ Catalog!Live(p)' = Catalog!Live(p)
    BY <1>1 DEF Due, Catalog!Live
  <2>4. \A q \in Requests : Follows(q, p)' => FollowsRightly(q, p)'
    BY <1>1, <1>3, <2>1, <2>2 DEF Follows, FollowsRightly, PostFollowed, Catalog!Live
  <2>5. CASE req[r].post = p
    <3>1. Follows(r, p) /\ FollowsRightly(r, p)
      BY <1>1, <2>1, <2>5 DEF Follows, PostFollowed
    <3>2. \A q \in Requests : ~Follows(q, p)'
      BY <2>1, <2>2, <3>1 DEF PostFollowed, Alone
    <3>3. \A i \in ingests : i.post # p
      BY <2>1, <3>1 DEF PostFollowed, Alone
    <3>4. Catalog!Live(p) /\ req[r].item = Due(p)
      <4>1. Catalog!Live(p) /\ req[r].item.text = posts[p].version
              /\ req[r].item.tags = posts[p].tags
        BY <1>1, <3>1 DEF FollowsRightly
      <4>2. req[r].item \in Item
        BY <1>1 DEF RequestRecord
      <4>3. QED
        BY <4>1, <4>2 DEF Due, Item
    <3>5. \A i \in ingests' : i.post = p => i = [post |-> req[r].post, item |-> req[r].item]
      BY <1>1, <3>3
    <3>6. [post |-> req[r].post, item |-> req[r].item] \in ingests'
      BY <1>1
    <3>7. Alone(p)' /\ ~Settled(p)'
      BY <2>5, <3>2, <3>5, <3>6 DEF Alone, Settled
    <3>8. QED
      BY <2>3, <3>2, <3>4, <3>5, <3>7 DEF PostFollowed
  <2>6. CASE req[r].post # p
    <3>1. \A i : i \in ingests' /\ i.post = p <=> i \in ingests /\ i.post = p
      BY <1>1, <2>6
    <3>2. ~Follows(r, p)
      BY <2>6 DEF Follows
    <3>3. Alone(p)' /\ (Settled(p)' <=> Settled(p))
      BY <2>1, <2>2, <3>1, <3>2 DEF PostFollowed, Alone, Settled
    <3>4. QED
      BY <1>1, <2>1, <2>3, <2>4, <3>1, <3>3 DEF PostFollowed
  <2>7. QED
    BY <2>5, <2>6
<1>7. QED
  BY <1>4, <1>5, <1>6 DEF CatalogInv

(* A call to Codohue about p that ends with less, and nothing else, on the *)
(* way to it: what was brought is due, or what came is not sure.           *)
LEMMA ToldKeeps ==
  ASSUME CatalogInv, NEW p \in AuthorPosts, NEW item \in Item, Catalog!Told(p, item),
         UNCHANGED <<posts, announced, raced, changes>>,
         CatalogTyped', ingests' \subseteq ingests,
         \A q \in Requests, o \in AuthorPosts : Follows(q, o)' => Follows(q, o) /\ req'[q] = req[q],
         \A o \in AuthorPosts \ {p} : Settled(o)' => Settled(o),
         p \notin blurred => item = Due(p) /\ Settled(p)'
  PROVE  CatalogInv'
<1>1. Catalog!VisibilityAnnounced'
  BY DEF CatalogInv, Catalog!VisibilityAnnounced, Catalog!Live
<1>2. ASSUME NEW o \in AuthorPosts, o \notin blurred' PROVE PostFollowed(o)'
  <2>1. o \notin blurred
    BY <1>2 DEF Catalog!Told
  <2>2. PostFollowed(o)
    BY <2>1 DEF CatalogInv
  <2>3. Due(o)' = Due(o) /\ Catalog!Live(o)' = Catalog!Live(o)
    BY DEF Due, Catalog!Live
  <2>4. Alone(o)'
    BY <2>2 DEF PostFollowed, Alone
  <2>5. \A q \in Requests : Follows(q, o)' => FollowsRightly(q, o)'
    BY <2>2 DEF PostFollowed, FollowsRightly, Catalog!Live
  <2>6. \A i \in ingests' : i.post = o => Catalog!Live(o) /\ i.item = Due(o)
    BY <2>2 DEF PostFollowed
  <2>7. Settled(o)' => catalog'[o] = Due(o)
    <3>1. CASE o = p
      <4>1. catalog' = [catalog EXCEPT ![p] = item]
        BY <1>2, <3>1 DEF Catalog!Told
      <4>2. QED
        BY <2>1, <3>1, <4>1 DEF CatalogInv, CatalogTyped
    <3>2. CASE o # p
      <4>1. catalog'[o] = catalog[o]
        BY <3>2 DEF Catalog!Told, CatalogInv, CatalogTyped
      <4>2. QED
        BY <2>2, <3>2, <4>1 DEF PostFollowed
    <3>3. QED
      BY <3>1, <3>2
  <2>8. QED
    BY <2>3, <2>4, <2>5, <2>6, <2>7 DEF PostFollowed
<1>3. QED
  BY <1>1, <1>2 DEF CatalogInv

LEMMA IngestKeeps ==
  ASSUME CatalogInv, Catalog!Ingest
  PROVE  CatalogInv'
<1>1. PICK i \in ingests : Catalog!Told(i.post, i.item) /\ ingests' = ingests \ {i}
  BY DEF Catalog!Ingest
<1>2. /\ UNCHANGED <<posts, announced, raced, changes, req>> /\ CatalogTyped
      /\ i.post \in AuthorPosts /\ i.item \in Item
  BY <1>1 DEF Catalog!Ingest, Catalog!mutated, CatalogInv, CatalogTyped
<1>3. CatalogTyped'
  <2>1. catalog' \in [AuthorPosts -> Item]
    BY <1>1, <1>2 DEF Catalog!Told, CatalogTyped
  <2>2. QED
    BY <1>1, <1>2, <2>1 DEF CatalogTyped
<1>4. \A q \in Requests, o \in AuthorPosts : Follows(q, o)' <=> Follows(q, o)
  BY <1>2 DEF Follows
<1>5. \A o \in AuthorPosts \ {i.post} : Settled(o)' => Settled(o)
  BY <1>1, <1>4 DEF Settled
<1>6. ASSUME i.post \notin blurred PROVE i.item = Due(i.post) /\ Settled(i.post)'
  <2>1. PostFollowed(i.post)
    BY <1>2, <1>6 DEF CatalogInv
  <2>2. QED
    BY <1>1, <1>2, <1>4, <2>1 DEF PostFollowed, Alone, Settled
<1>7. QED
  BY <1>1, <1>2, <1>3, <1>4, <1>5, <1>6, ToldKeeps

LEMMA RemoveKeeps ==
  ASSUME CatalogInv, NEW r \in Requests, Catalog!RemoveObject(r)
  PROVE  CatalogInv'
<1>1. PICK p : p = req[r].post
  OBVIOUS
<1>2. /\ CatalogTyped /\ req[r].pc = "remove" /\ p \in AuthorPosts
      /\ Catalog!Told(p, Catalog!NoItem)
      /\ req' = [req EXCEPT ![r] = Catalog!Idle]
      /\ UNCHANGED <<posts, announced, raced, changes, ingests>>
  BY <1>1 DEF CatalogInv, CatalogTyped, Catalog!RemoveObject, Catalog!At, Catalog!mutated
<1>3. /\ Catalog!Idle \in RequestRecord /\ Catalog!Idle.pc = "idle" /\ Catalog!NoItem \in Item
  BY DEF Catalog!NoRow, PostRow, Catalog!Visibilities, Catalog!NoItem, Item, Catalog!Idle,
         RequestRecord
<1>4. req'[r] = Catalog!Idle /\ \A q \in Requests \ {r} : req'[q] = req[q]
  BY <1>2 DEF CatalogTyped
<1>5. CatalogTyped'
  <2>1. catalog' \in [AuthorPosts -> Item] /\ req' \in [Requests -> RequestRecord]
    BY <1>2, <1>3 DEF Catalog!Told, CatalogTyped
  <2>2. \A q \in Requests : req'[q].pc # "idle" => req'[q].post \in AuthorPosts
    BY <1>2, <1>3, <1>4 DEF CatalogTyped
  <2>3. QED
    BY <1>2, <2>1, <2>2 DEF CatalogTyped
<1>6. \A q \in Requests, o \in AuthorPosts : Follows(q, o)' => Follows(q, o) /\ req'[q] = req[q]
  BY <1>3, <1>4 DEF Follows
<1>7. \A q \in Requests, o \in AuthorPosts \ {p} : Follows(q, o) => Follows(q, o)'
  BY <1>1, <1>3, <1>4 DEF Follows
<1>8. \A o \in AuthorPosts \ {p} : Settled(o)' => Settled(o)
  BY <1>2, <1>7 DEF Settled
<1>9. ASSUME p \notin blurred
      PROVE  Catalog!NoItem = Due(p) /\ Settled(p)'
  <2>1. PostFollowed(p) /\ Follows(r, p)
    BY <1>1, <1>2, <1>9 DEF CatalogInv, Follows
  <2>2. Catalog!NoItem = Due(p)
    BY <1>2, <2>1 DEF PostFollowed, FollowsRightly, Due
  <2>3. \A q \in Requests : ~Follows(q, p)'
    <3>1. ~Follows(r, p)'
      BY <1>3, <1>4 DEF Follows
    <3>2. ASSUME NEW q \in Requests, Follows(q, p)' PROVE FALSE
      BY <1>2, <1>6, <2>1, <3>1, <3>2 DEF PostFollowed, Alone
    <3>3. QED
      BY <3>2
  <2>4. \A i \in ingests' : i.post # p
    BY <1>2, <2>1 DEF PostFollowed, Alone
  <2>5. QED
    BY <2>2, <2>3, <2>4 DEF Settled
<1>10. QED
  BY <1>2, <1>3, <1>5, <1>6, <1>8, <1>9, ToldKeeps

(* What has to follow a change of a post follows it: the outbox hears its  *)
(* visibility, and Codohue's catalog its text, its tags and its end, for   *)
(* any posts, any number of requests at once and any calls that fail.      *)
THEOREM ChangesReachCatalog == MCSpec => []ChangesFollowed
<1>1. Catalog!SharedInit => CatalogInv
  BY CatalogInit
<1>2. CatalogInv /\ Catalog!Next => CatalogInv'
  BY ReadingKeeps, FollowingKeeps, CreateKeeps, UpdateKeeps, DeleteKeeps, SpawnKeeps,
     RemoveKeeps, IngestKeeps DEF Catalog!Next
<1>3. CatalogInv /\ UNCHANGED sharedVars => CatalogInv'
  BY DEF CatalogInv, CatalogTyped, sharedVars, Catalog!VisibilityAnnounced, Catalog!Live,
         PostFollowed, Alone, Settled, Follows, FollowsRightly, Due
<1>4. CatalogInv => Catalog!ChangesFollowed
  BY SettledIs DEF CatalogInv, Catalog!ChangesFollowed, Catalog!CatalogFollows, PostFollowed, Due
<1>5. MCInit => (part = "catalog" => CatalogInv)
  BY <1>1 DEF MCInit
<1>6. (part = "catalog" => CatalogInv) /\ [MCNext]_all => (part = "catalog" => CatalogInv)'
  BY <1>2, <1>3 DEF MCNext, all, Scrolling
<1>7. (part = "catalog" => CatalogInv) => ChangesFollowed
  BY <1>4 DEF ChangesFollowed
<1>8. QED
  BY <1>5, <1>6, <1>7, PTL DEF MCSpec

-----------------------------------------------------------------------------
(* The lists all viewers share.                                            *)
Entries == [post : AuthorPosts, version : Nat]
SharedList == [entries : SUBSET Entries, mark : Viewers \cup {NoMark}]
ViewRecord ==
  [pc : {"new", "wait", "query", "cache", "mark", "answer", "done"},
   at : Servers \cup {CHOOSE s \in Servers : TRUE}, object : Viewers]

AuthorTyped ==
  /\ posts \in [AuthorPosts -> PostRow]
  /\ req \in [ListRequests -> RequestRecord]
  /\ \A r \in ListRequests : req[r].pc # "idle" => req[r].post \in AuthorPosts
  /\ changes \in Nat

ListsTyped ==
  /\ AuthorTyped
  /\ trending \in [hit : BOOLEAN, entries : SUBSET Entries]
  /\ flight \in [Servers -> [pc : {"idle", "started", "read"}, crossed : BOOLEAN]]
  /\ held \in [Servers \cup Viewers -> SharedList]
  /\ page \in [hit : BOOLEAN, list : SharedList]
  /\ view \in [Viewers -> ViewRecord]
  /\ answers \in [Viewers -> SUBSET (Viewers \cup {NoMark})]

(* A viewer fills marks into a list of its own, and what is cached or      *)
(* about to be, or a flight's, carries none.                               *)
MarksKept ==
  /\ \A s \in Servers : held[s].mark = NoMark
  /\ page.list.mark = NoMark
  /\ \A v \in Viewers :
       /\ view[v].object = v
       /\ held[v].mark \in {v, NoMark}
       /\ view[v].pc = "cache" => held[v].mark = NoMark
       /\ answers[v] \subseteq {v, NoMark}

(* What a flight read that no commit has crossed is still so.              *)
FlightsCurrent ==
  \A s \in Servers : flight[s].pc = "read" /\ ~flight[s].crossed =>
    \A e \in held[s].entries : ~Lists!Stale(e)

TrendingKept ==
  /\ trending.entries # {} => trending.hit
  /\ FlightsCurrent
  /\ Lists!TrendingCurrent

ListsInv == ListsTyped /\ MarksKept /\ TrendingKept

LEMMA ListsInit == Lists!SharedInit => ListsInv
<1> SUFFICES ASSUME Lists!SharedInit PROVE ListsInv
  OBVIOUS
<1>1. /\ posts = [p \in AuthorPosts |-> Lists!NoRow] /\ trending = Lists!Miss
      /\ req = [r \in ListRequests |-> Lists!Idle] /\ changes = 0
      /\ flight = [s \in Servers |-> Lists!NoFlight] /\ page = Lists!Empty
      /\ held = [o \in Servers \cup Viewers |-> Lists!Blank]
      /\ view = [v \in Viewers |-> [pc |-> "new", at |-> CHOOSE s \in Servers : TRUE,
                                    object |-> v]]
      /\ answers = [v \in Viewers |-> {}]
  BY DEF Lists!SharedInit, Lists!Init
<1>2. /\ Lists!NoRow \in PostRow /\ Lists!Idle \in RequestRecord /\ Lists!Idle.pc = "idle"
      /\ Lists!Blank \in SharedList /\ Lists!Blank.mark = NoMark
  BY DEF Lists!NoRow, PostRow, Catalog!Visibilities, Lists!NoItem, Item, Lists!Idle,
         RequestRecord, Catalog!Idle, Lists!Blank, SharedList
<1>3. AuthorTyped
  BY <1>1, <1>2 DEF AuthorTyped
<1>4. trending \in [hit : BOOLEAN, entries : SUBSET Entries] /\ trending.entries = {}
  BY <1>1 DEF Lists!Miss
<1>5. page \in [hit : BOOLEAN, list : SharedList] /\ page.list.mark = NoMark
  BY <1>1, <1>2 DEF Lists!Empty
<1>6. flight \in [Servers -> [pc : {"idle", "started", "read"}, crossed : BOOLEAN]]
        /\ \A s \in Servers : flight[s].pc = "idle"
  BY <1>1 DEF Lists!NoFlight
<1>7. view \in [Viewers -> ViewRecord]
        /\ \A v \in Viewers : view[v].object = v /\ view[v].pc = "new"
  BY <1>1 DEF ViewRecord
<1>8. ListsTyped
  BY <1>1, <1>2, <1>3, <1>4, <1>5, <1>6, <1>7 DEF ListsTyped
<1>9. MarksKept
  BY <1>1, <1>2, <1>5, <1>7 DEF MarksKept
<1>10. TrendingKept
  BY <1>4, <1>6 DEF TrendingKept, FlightsCurrent, Lists!TrendingCurrent
<1>11. QED
  BY <1>8, <1>9, <1>10 DEF ListsInv

-----------------------------------------------------------------------------
(* What a step of the author does to the posts and the cached list: most   *)
(* change nothing but who evicts; a commit leaves its request evicting, or *)
(* is of a post that was in no list; and who stops evicting has evicted.   *)
Quiet == UNCHANGED <<posts, changes, trending, kept>>

CommitsOne ==
  /\ changes' = changes + 1 /\ UNCHANGED <<trending, kept>>
  /\ \E p \in AuthorPosts, row \in PostRow :
       /\ posts' = [posts EXCEPT ![p] = row]
       /\ posts[p].state = "none" \/ Lists!Evicting(p)'

Evicts ==
  /\ UNCHANGED <<posts, changes>>
  /\ \/ trending' = Lists!Miss /\ kept' = FALSE
     \/ kept' = (kept \/ trending.hit) /\ UNCHANGED trending

LEMMA AuthorStep ==
  ASSUME AuthorTyped, Lists!Next
  PROVE  /\ AuthorTyped'
         /\ Evicts \/ /\ Quiet \/ CommitsOne
                      /\ \A p \in AuthorPosts : Lists!Evicting(p) => Lists!Evicting(p)'
<1>1. /\ Lists!NoRow \in PostRow /\ Lists!NoItem \in Item
      /\ Lists!Idle \in RequestRecord /\ Lists!Idle.pc = "idle"
  BY DEF Lists!NoRow, PostRow, Catalog!Visibilities, Lists!NoItem, Item, Lists!Idle,
         RequestRecord, Catalog!Idle
<1>2. ASSUME NEW r \in ListRequests, NEW n \in RequestRecord, req' = [req EXCEPT ![r] = n],
             n.pc # "idle" => n.post \in AuthorPosts,
             UNCHANGED <<posts, changes>>
      PROVE  AuthorTyped'
  BY <1>2 DEF AuthorTyped
<1>3. ASSUME NEW r \in ListRequests, NEW n \in RequestRecord, req' = [req EXCEPT ![r] = n],
             req[r].pc \notin {"evict", "unlist"}
      PROVE  \A p \in AuthorPosts : Lists!Evicting(p) => Lists!Evicting(p)'
  BY <1>3 DEF AuthorTyped, Lists!Evicting
<1>4. ASSUME NEW r \in ListRequests, Lists!UpdatePost(r) \/ Lists!DeletePost(r)
      PROVE  /\ AuthorTyped' /\ Quiet
             /\ \A p \in AuthorPosts : Lists!Evicting(p) => Lists!Evicting(p)'
  <2>1. PICK pc \in {"update", "delete"}, p \in AuthorPosts :
          /\ req[r].pc = "idle"
          /\ req' = [req EXCEPT ![r] =
               [Lists!Idle EXCEPT !.pc = pc, !.post = p, !.seen = Lists!GetPostByID(p)]]
    BY <1>4 DEF Lists!UpdatePost, Lists!DeletePost, Lists!ReadFirst, Lists!At
  <2> DEFINE n == [Lists!Idle EXCEPT !.pc = pc, !.post = p, !.seen = Lists!GetPostByID(p)]
  <2>2. Lists!GetPostByID(p) \in PostRow
    BY <1>1 DEF Lists!GetPostByID, AuthorTyped
  <2>3. n \in RequestRecord /\ n.pc = pc /\ n.post = p
    BY <1>1, <2>2 DEF RequestRecord
  <2>4. Quiet
    BY <1>4 DEF Quiet, Lists!UpdatePost, Lists!DeletePost, Lists!ReadFirst, Lists!mutated,
                Lists!listed
  <2>5. QED
    BY <1>2, <1>3, <2>1, <2>3, <2>4 DEF Quiet
<1>5. ASSUME NEW r \in ListRequests, Lists!Refused(r) \/ Lists!Spawn(r) \/ Lists!RemoveObject(r)
      PROVE  /\ AuthorTyped' /\ Quiet
             /\ \A p \in AuthorPosts : Lists!Evicting(p) => Lists!Evicting(p)'
  <2>1. /\ req' = [req EXCEPT ![r] = Lists!Idle] /\ Quiet
        /\ req[r].pc \notin {"evict", "unlist"}
    BY <1>5 DEF Quiet, Lists!Refused, Lists!Spawn, Lists!RemoveObject, Lists!mutated,
                Lists!listed, Lists!At
  <2>2. QED
    BY <1>1, <1>2, <1>3, <2>1 DEF Quiet
<1>6. ASSUME NEW r \in ListRequests, Lists!Hydrate(r)
      PROVE  /\ AuthorTyped' /\ Quiet
             /\ \A p \in AuthorPosts : Lists!Evicting(p) => Lists!Evicting(p)'
  <2>1. /\ Quiet /\ req[r].pc = "hydrate" /\ req[r] \in RequestRecord
        /\ req[r].post \in AuthorPosts
    BY <1>6 DEF Quiet, Lists!Hydrate, Lists!mutated, Lists!listed, Lists!At, AuthorTyped
  <2>2. posts[req[r].post].tags \in Nat
    BY <2>1 DEF AuthorTyped, PostRow
  <2>3. \E n \in RequestRecord : /\ req' = [req EXCEPT ![r] = n] /\ n.post = req[r].post
    <3>1. CASE req' = [req EXCEPT ![r].pc = "spawn"]
      <4>1. PICK n : n = [req[r] EXCEPT !.pc = "spawn"]
        OBVIOUS
      <4>2. n \in RequestRecord /\ n.post = req[r].post /\ req' = [req EXCEPT ![r] = n]
        BY <2>1, <3>1, <4>1 DEF RequestRecord, AuthorTyped
      <4>3. QED
        BY <4>2
    <3>2. CASE req' = [req EXCEPT ![r].pc = "spawn", ![r].item.tags = posts[req[r].post].tags]
      <4>1. PICK n : n = [req[r] EXCEPT !.pc = "spawn", !.item.tags = posts[req[r].post].tags]
        OBVIOUS
      <4>2. req[r].item \in Item /\ [req[r].item EXCEPT !.tags = posts[req[r].post].tags] \in Item
        BY <2>1, <2>2 DEF RequestRecord, Item
      <4>3. n.item = [req[r].item EXCEPT !.tags = posts[req[r].post].tags]
        BY <2>1, <4>1 DEF RequestRecord
      <4>4. n \in RequestRecord /\ n.post = req[r].post
        BY <2>1, <4>1, <4>2, <4>3 DEF RequestRecord
      <4>5. req' = [req EXCEPT ![r] = n]
        BY <3>2, <4>1 DEF AuthorTyped
      <4>6. QED
        BY <4>4, <4>5
    <3>3. QED
      BY <1>6, <3>1, <3>2 DEF Lists!Hydrate, Lists!Goto, Lists!TagsOf
  <2>4. QED
    BY <1>2, <1>3, <2>1, <2>3 DEF Quiet
<1>7. ASSUME NEW r \in ListRequests, Lists!EvictAfterUpdate(r) \/ Lists!EvictAfterDelete(r)
      PROVE  AuthorTyped' /\ Evicts
  <2>1. PICK pc \in {"hydrate", "remove"} : req' = [req EXCEPT ![r].pc = pc]
    BY <1>7 DEF Lists!EvictAfterUpdate, Lists!EvictAfterDelete, Lists!Goto
  <2>2. PICK n : n = [req[r] EXCEPT !.pc = pc]
    OBVIOUS
  <2>3. req[r] \in RequestRecord /\ req[r].post \in AuthorPosts
    BY <1>7 DEF AuthorTyped, Lists!EvictAfterUpdate, Lists!EvictAfterDelete, Lists!At
  <2>4. n \in RequestRecord /\ n.post = req[r].post /\ req' = [req EXCEPT ![r] = n]
    BY <2>1, <2>2, <2>3 DEF RequestRecord, AuthorTyped
  <2>5. Evicts
    BY <1>7 DEF Evicts, Lists!EvictAfterUpdate, Lists!EvictAfterDelete,
                Lists!InvalidateTrending, Lists!mutated
  <2>6. QED
    BY <1>2, <2>3, <2>4, <2>5 DEF Evicts
<1>8. ASSUME Lists!Ingest
      PROVE  /\ AuthorTyped' /\ Quiet
             /\ \A p \in AuthorPosts : Lists!Evicting(p) => Lists!Evicting(p)'
  <2>1. UNCHANGED <<posts, changes, trending, kept, req>>
    BY <1>8 DEF Lists!Ingest, Lists!mutated, Lists!listed
  <2>2. QED
    BY <2>1 DEF AuthorTyped, Quiet, Lists!Evicting
<1>9. ASSUME NEW r \in ListRequests, NEW p \in AuthorPosts, NEW row \in PostRow,
             NEW n \in RequestRecord,
             changes' = changes + 1, UNCHANGED <<trending, kept>>,
             posts' = [posts EXCEPT ![p] = row], req' = [req EXCEPT ![r] = n],
             n.post = p, req[r].pc \notin {"evict", "unlist"},
             posts[p].state = "none" \/ n.pc \in {"evict", "unlist"}
      PROVE  /\ AuthorTyped' /\ CommitsOne
             /\ \A q \in AuthorPosts : Lists!Evicting(q) => Lists!Evicting(q)'
  <2>1. AuthorTyped'
    BY <1>9 DEF AuthorTyped
  <2>2. posts[p].state = "none" \/ Lists!Evicting(p)'
    BY <1>9 DEF AuthorTyped, Lists!Evicting
  <2>3. QED
    BY <1>3, <1>9, <2>1, <2>2 DEF CommitsOne
<1>10. ASSUME NEW r \in ListRequests, Lists!CreatePost(r)
       PROVE  /\ AuthorTyped' /\ CommitsOne
              /\ \A q \in AuthorPosts : Lists!Evicting(q) => Lists!Evicting(q)'
  <2>1. PICK p \in AuthorPosts, in \in Lists!AcceptCreate :
          /\ Lists!At(r, "idle") /\ posts[p].state = "none"
          /\ Lists!Committed(p, Lists!InsertedRow(in))
          /\ req' = [req EXCEPT ![r] = [Lists!Idle EXCEPT !.pc = "spawn", !.post = p,
               !.item = [text |-> changes + 1, tags |-> Lists!Linked(in.tagged)]]]
          /\ UNCHANGED <<trending, kept>>
    BY <1>10 DEF Lists!CreatePost, Lists!listed
  <2>2. PICK row : row = Lists!InsertedRow(in)
    OBVIOUS
  <2>3. PICK n : n = [Lists!Idle EXCEPT !.pc = "spawn", !.post = p,
                        !.item = [text |-> changes + 1, tags |-> Lists!Linked(in.tagged)]]
    OBVIOUS
  <2>4. in.visibility \in Catalog!Visibilities /\ Lists!Linked(in.tagged) \in Nat
          /\ changes + 1 \in Nat
    BY DEF Lists!AcceptCreate, Lists!Linked, AuthorTyped, Catalog!Visibilities,
           Lists!Visibilities
  <2>5. row \in PostRow /\ n \in RequestRecord /\ n.post = p
    BY <1>1, <2>2, <2>3, <2>4 DEF Lists!InsertedRow, PostRow, RequestRecord, Item
  <2>6. QED
    BY <1>9, <2>1, <2>2, <2>3, <2>5 DEF Lists!Committed, Lists!At
<1>11. ASSUME NEW r \in ListRequests, Lists!CommitUpdate(r)
       PROVE  /\ AuthorTyped' /\ CommitsOne
              /\ \A q \in AuthorPosts : Lists!Evicting(q) => Lists!Evicting(q)'
  <2>1. PICK p : p = req[r].post
    OBVIOUS
  <2>2. /\ p \in AuthorPosts /\ req[r].pc = "update" /\ req[r] \in RequestRecord
        /\ UNCHANGED <<trending, kept>>
        /\ req' = [req EXCEPT ![r].pc = "evict", ![r].item = [text |-> changes + 1, tags |-> 0]]
    BY <1>11, <2>1 DEF Lists!CommitUpdate, Lists!At, AuthorTyped, Lists!listed
  <2>3. PICK in \in Lists!AcceptUpdate : Lists!Committed(p, Lists!UpdatedRow(p, in))
    BY <1>11, <2>1 DEF Lists!CommitUpdate
  <2>4. PICK row : row = Lists!UpdatedRow(p, in)
    OBVIOUS
  <2>5. PICK n : n = [req[r] EXCEPT !.pc = "evict", !.item = [text |-> changes + 1, tags |-> 0]]
    OBVIOUS
  <2>6. in.visibility \in Catalog!Visibilities /\ Lists!Linked(in.tagged) \in Nat
          /\ changes + 1 \in Nat /\ posts[p] \in PostRow
    BY <2>2 DEF Lists!AcceptUpdate, Lists!Linked, AuthorTyped, Catalog!Visibilities,
           Lists!Visibilities
  <2>7. row \in PostRow
    BY <2>4, <2>6 DEF Lists!UpdatedRow, Lists!ReplaceForPost, PostRow
  <2>8. n \in RequestRecord /\ n.post = p /\ n.pc = "evict" /\ req' = [req EXCEPT ![r] = n]
    BY <2>1, <2>2, <2>5, <2>6 DEF RequestRecord, Item, AuthorTyped
  <2>9. QED
    BY <1>9, <2>2, <2>3, <2>4, <2>7, <2>8 DEF Lists!Committed
<1>12. ASSUME NEW r \in ListRequests, Lists!CommitDelete(r)
       PROVE  /\ AuthorTyped' /\ CommitsOne
              /\ \A q \in AuthorPosts : Lists!Evicting(q) => Lists!Evicting(q)'
  <2>1. PICK p : p = req[r].post
    OBVIOUS
  <2>2. /\ p \in AuthorPosts /\ req[r].pc = "delete" /\ req[r] \in RequestRecord
        /\ UNCHANGED <<trending, kept>> /\ Lists!Committed(p, Lists!DeletedRow(p))
        /\ req' = [req EXCEPT ![r].pc = "unlist"]
    BY <1>12, <2>1 DEF Lists!CommitDelete, Lists!At, Lists!Goto, AuthorTyped, Lists!listed
  <2>3. PICK row : row = Lists!DeletedRow(p)
    OBVIOUS
  <2>4. PICK n : n = [req[r] EXCEPT !.pc = "unlist"]
    OBVIOUS
  <2>5. row \in PostRow
    BY <2>2, <2>3 DEF Lists!DeletedRow, PostRow, AuthorTyped
  <2>6. n \in RequestRecord /\ n.post = p /\ n.pc = "unlist" /\ req' = [req EXCEPT ![r] = n]
    BY <2>1, <2>2, <2>4 DEF RequestRecord, AuthorTyped
  <2>7. QED
    BY <1>9, <2>2, <2>3, <2>5, <2>6 DEF Lists!Committed
<1>13. QED
  BY <1>4, <1>5, <1>6, <1>7, <1>8, <1>10, <1>11, <1>12 DEF Lists!Next

(* An entry grows stale by a commit whose request will evict it.           *)
LEMMA StaleLater ==
  ASSUME AuthorTyped, CommitsOne, NEW e \in Entries, Lists!Stale(e)'
  PROVE  Lists!Stale(e) \/ Lists!Evicting(e.post)'
<1>1. PICK p \in AuthorPosts, row \in PostRow :
        posts' = [posts EXCEPT ![p] = row] /\ (posts[p].state = "none" \/ Lists!Evicting(p)')
  BY DEF CommitsOne
<1>2. CASE e.post # p
  <2>1. e.post \in AuthorPosts /\ posts'[e.post] = posts[e.post]
    BY <1>1, <1>2 DEF Entries, AuthorTyped
  <2>2. QED
    BY <2>1 DEF Lists!Stale, Lists!Public, Lists!Live
<1>3. CASE e.post = p /\ posts[p].state = "none"
  BY <1>3 DEF Lists!Stale, Lists!Public, Lists!Live
<1>4. QED
  BY <1>1, <1>2, <1>3

LEMMA StaleSame == UNCHANGED posts => \A e : Lists!Stale(e)' <=> Lists!Stale(e)
BY DEF Lists!Stale, Lists!Public, Lists!Live

(* A change of a post crosses the flights that have read.                  *)
LEMMA MutateKeeps ==
  ASSUME ListsInv, Lists!Mutate
  PROVE  ListsInv'
<1>1. /\ ListsTyped /\ AuthorTyped /\ Lists!Next
      /\ flight' = [s \in Servers |->
           IF changes' # changes /\ flight[s].pc = "read"
           THEN [flight[s] EXCEPT !.crossed = TRUE] ELSE flight[s]]
      /\ UNCHANGED <<page, held, view, answers>>
  BY DEF ListsInv, ListsTyped, Lists!Mutate
<1>2. AuthorTyped'
        /\ (Evicts \/ /\ Quiet \/ CommitsOne
                      /\ \A p \in AuthorPosts : Lists!Evicting(p) => Lists!Evicting(p)')
  BY <1>1, AuthorStep
<1>3. Lists!Miss \in [hit : BOOLEAN, entries : SUBSET Entries] /\ Lists!Miss.entries = {}
  BY DEF Lists!Miss
<1>4. flight' \in [Servers -> [pc : {"idle", "started", "read"}, crossed : BOOLEAN]]
  BY <1>1 DEF ListsTyped
<1>5. trending' \in [hit : BOOLEAN, entries : SUBSET Entries]
  BY <1>1, <1>2, <1>3 DEF ListsTyped, Evicts, Quiet, CommitsOne
<1>6. ListsTyped'
  BY <1>1, <1>2, <1>4, <1>5 DEF ListsTyped
<1>7. MarksKept'
  BY <1>1 DEF ListsInv, MarksKept
<1>8. FlightsCurrent'
  <2>1. CASE CommitsOne
    <3>1. changes' # changes
      BY <1>1, <2>1 DEF CommitsOne, AuthorTyped
    <3>2. \A s \in Servers : flight'[s].pc = "read" => flight'[s].crossed
      BY <1>1, <3>1 DEF ListsTyped
    <3>3. QED
      BY <3>2 DEF FlightsCurrent
  <2>2. CASE Quiet \/ Evicts
    <3>1. changes' = changes /\ UNCHANGED posts
      BY <2>2 DEF Quiet, Evicts
    <3>2. \A s \in Servers : flight'[s] = flight[s]
      BY <1>1, <3>1
    <3>3. QED
      BY <1>1, <3>1, <3>2, StaleSame DEF ListsInv, TrendingKept, FlightsCurrent
  <2>3. QED
    BY <1>2, <2>1, <2>2
<1>9. trending'.entries # {} => trending'.hit
  BY <1>2, <1>3 DEF ListsInv, TrendingKept, Evicts, Quiet, CommitsOne
<1>10. Lists!TrendingCurrent'
  <2>1. CASE Evicts
    <3>1. CASE trending' = Lists!Miss
      BY <1>3, <3>1 DEF Lists!TrendingCurrent
    <3>2. CASE kept' = (kept \/ trending.hit) /\ UNCHANGED trending
      BY <3>2 DEF ListsInv, TrendingKept, Lists!TrendingCurrent
    <3>3. QED
      BY <2>1, <3>1, <3>2 DEF Evicts
  <2>2. CASE Quiet /\ \A p \in AuthorPosts : Lists!Evicting(p) => Lists!Evicting(p)'
    <3>1. \A e \in trending.entries : e.post \in AuthorPosts
      BY <1>1 DEF ListsTyped, Entries
    <3>2. QED
      BY <2>2, <3>1, StaleSame DEF Quiet, ListsInv, TrendingKept, Lists!TrendingCurrent
  <2>3. CASE CommitsOne /\ \A p \in AuthorPosts : Lists!Evicting(p) => Lists!Evicting(p)'
    <3>1. \A e \in trending.entries : e \in Entries /\ e.post \in AuthorPosts
      BY <1>1 DEF ListsTyped, Entries
    <3>2. UNCHANGED <<trending, kept>>
      BY <2>3 DEF CommitsOne
    <3>3. ASSUME NEW e \in trending'.entries, Lists!Stale(e)' PROVE kept' \/ Lists!Evicting(e.post)'
      <4>1. Lists!Stale(e) \/ Lists!Evicting(e.post)'
        BY <1>1, <2>3, <3>1, <3>2, <3>3, StaleLater
      <4>2. Lists!Stale(e) => kept \/ Lists!Evicting(e.post)
        BY <3>2, <3>3 DEF ListsInv, TrendingKept, Lists!TrendingCurrent
      <4>3. QED
        BY <2>3, <3>1, <3>2, <3>3, <4>1, <4>2
    <3>4. QED
      BY <3>3 DEF Lists!TrendingCurrent
  <2>4. QED
    BY <1>2, <2>1, <2>2, <2>3
<1>11. QED
  BY <1>6, <1>7, <1>8, <1>9, <1>10 DEF ListsInv, TrendingKept

(* The steps of viewers, flights and the clock leave the author alone.     *)
AuthorStays == UNCHANGED <<posts, req, changes>>

LEMMA AuthorSame ==
  AuthorStays => /\ AuthorTyped => AuthorTyped'
                 /\ \A e : Lists!Stale(e)' <=> Lists!Stale(e)
                 /\ \A p : Lists!Evicting(p)' <=> Lists!Evicting(p)
BY DEF AuthorStays, AuthorTyped, Lists!Stale, Lists!Public, Lists!Live, Lists!Evicting

(* Those that leave the cached list and the flights alone, too.            *)
LEMMA TrendingSame ==
  ASSUME ListsInv, AuthorStays, UNCHANGED <<trending, kept>>,
         \A s \in Servers : held'[s].entries = held[s].entries
                              /\ (flight'[s].pc = "read" => flight'[s] = flight[s])
  PROVE  TrendingKept'
<1>1. /\ trending.entries # {} => trending.hit
      /\ FlightsCurrent /\ Lists!TrendingCurrent
  BY DEF ListsInv, TrendingKept
<1>2. FlightsCurrent'
  BY <1>1, AuthorSame DEF FlightsCurrent
<1>3. Lists!TrendingCurrent'
  BY <1>1, AuthorSame DEF Lists!TrendingCurrent
<1>4. QED
  BY <1>1, <1>2, <1>3 DEF TrendingKept

(* A viewer that goes on keeps its list.                                   *)
LEMMA ViewGoes ==
  ASSUME ListsTyped, NEW v \in Viewers,
         NEW pc \in {"new", "wait", "query", "cache", "mark", "answer", "done"},
         Lists!ViewGoto(v, pc)
  PROVE  /\ view' \in [Viewers -> ViewRecord]
         /\ view'[v].pc = pc /\ \A w \in Viewers \ {v} : view'[w] = view[w]
         /\ \A w \in Viewers : view'[w].object = view[w].object
<1>1. PICK n : n = [view[v] EXCEPT !.pc = pc]
  OBVIOUS
<1>2. view[v] \in ViewRecord
  BY DEF ListsTyped
<1>3. n \in ViewRecord /\ n.pc = pc /\ n.object = view[v].object
  BY <1>1, <1>2 DEF ViewRecord
<1>4. view' = [view EXCEPT ![v] = n]
  BY <1>1 DEF Lists!ViewGoto, ListsTyped
<1>5. QED
  BY <1>3, <1>4 DEF ListsTyped

LEMMA ReadersKeep ==
  ASSUME ListsInv, NEW v \in Viewers,
         \/ Lists!ReadTrending(v) \/ Lists!ReadPage(v) \/ Lists!QueryPage(v)
  PROVE  ListsInv'
<1>1. ListsTyped /\ MarksKept /\ TrendingKept
  BY DEF ListsInv
<1>2. /\ AuthorStays /\ UNCHANGED <<trending, kept, flight, page, answers>>
  BY DEF AuthorStays, Lists!ReadTrending, Lists!ReadPage, Lists!QueryPage, Lists!vars,
         Lists!mutated, Lists!listed
<1>3. PICK list \in SharedList :
        list.mark = NoMark /\ held' = [held EXCEPT ![v] = list]
  <2>1. CASE Lists!ReadTrending(v)
    <3>1. [entries |-> trending.entries, mark |-> NoMark] \in SharedList
      BY <1>1 DEF ListsTyped, SharedList
    <3>2. QED
      BY <2>1, <3>1 DEF Lists!ReadTrending
  <2>2. CASE Lists!ReadPage(v)
    BY <1>1, <2>2 DEF ListsTyped, MarksKept, Lists!ReadPage
  <2>3. CASE Lists!QueryPage(v)
    <3>1. \A p \in AuthorPosts : Lists!Entry(p) \in Entries
      BY <1>1 DEF ListsTyped, AuthorTyped, PostRow, Lists!Entry, Entries
    <3>2. {Lists!Entry(p) : p \in Lists!PostsByHashtag} \subseteq Entries
      BY <3>1 DEF Lists!PostsByHashtag, Lists!Public
    <3>3. [entries |-> {Lists!Entry(p) : p \in Lists!PostsByHashtag}, mark |-> NoMark]
            \in SharedList
      BY <3>2 DEF SharedList
    <3>4. QED
      BY <2>3, <3>3 DEF Lists!QueryPage
  <2>4. QED
    BY <2>1, <2>2, <2>3
<1>4. PICK pc \in {"mark", "cache"} : Lists!ViewGoto(v, pc)
  BY DEF Lists!ReadTrending, Lists!ReadPage, Lists!QueryPage
<1>5. /\ view' \in [Viewers -> ViewRecord]
      /\ view'[v].pc = pc /\ \A w \in Viewers \ {v} : view'[w] = view[w]
      /\ \A w \in Viewers : view'[w].object = view[w].object
  BY <1>1, <1>4, ViewGoes
<1>6. held' \in [Servers \cup Viewers -> SharedList]
        /\ held'[v] = list /\ \A o \in (Servers \cup Viewers) \ {v} : held'[o] = held[o]
  BY <1>1, <1>3 DEF ListsTyped
<1>7. ListsTyped'
  BY <1>1, <1>2, <1>5, <1>6, AuthorSame DEF ListsTyped
<1>8. MarksKept'
  BY <1>1, <1>2, <1>3, <1>5, <1>6, HoldersApart DEF MarksKept
<1>9. TrendingKept'
  BY <1>2, <1>6, HoldersApart, TrendingSame
<1>10. QED
  BY <1>7, <1>8, <1>9 DEF ListsInv

LEMMA JoinKeeps ==
  ASSUME ListsInv, NEW v \in Viewers, Lists!JoinFlight(v)
  PROVE  ListsInv'
<1>1. ListsTyped /\ MarksKept /\ TrendingKept
  BY DEF ListsInv
<1>2. /\ AuthorStays /\ UNCHANGED <<trending, kept, page, held, answers>>
  BY DEF AuthorStays, Lists!JoinFlight, Lists!mutated, Lists!listed
<1>3. PICK s \in Servers :
        /\ view' = [view EXCEPT ![v].pc = "wait", ![v].at = s]
        /\ flight' = IF flight[s].pc = "idle"
                     THEN [flight EXCEPT ![s].pc = "started"] ELSE flight
  BY DEF Lists!JoinFlight
<1>4. PICK n : n = [view[v] EXCEPT !.pc = "wait", !.at = s]
  OBVIOUS
<1>5. view[v] \in ViewRecord
  BY <1>1 DEF ListsTyped
<1>6. n \in ViewRecord /\ n.pc = "wait" /\ n.object = view[v].object
  BY <1>4, <1>5 DEF ViewRecord
<1>7. view' = [view EXCEPT ![v] = n]
  BY <1>1, <1>3, <1>4 DEF ListsTyped
<1>8. /\ flight' \in [Servers -> [pc : {"idle", "started", "read"}, crossed : BOOLEAN]]
      /\ \A t \in Servers : flight'[t].pc = "read" => flight'[t] = flight[t]
  BY <1>1, <1>3 DEF ListsTyped
<1>9. ListsTyped'
  BY <1>1, <1>2, <1>6, <1>7, <1>8, AuthorSame DEF ListsTyped
<1>10. MarksKept'
  BY <1>1, <1>2, <1>6, <1>7 DEF MarksKept, ListsTyped
<1>11. TrendingKept'
  BY <1>2, <1>8, TrendingSame
<1>12. QED
  BY <1>9, <1>10, <1>11 DEF ListsInv

LEMMA CacheKeeps ==
  ASSUME ListsInv, NEW v \in Viewers, Lists!CachePage(v)
  PROVE  ListsInv'
<1>1. ListsTyped /\ MarksKept /\ TrendingKept
  BY DEF ListsInv
<1>2. /\ AuthorStays /\ UNCHANGED <<trending, kept, flight, held, answers>>
  BY DEF AuthorStays, Lists!CachePage, Lists!mutated, Lists!listed
<1>3. /\ view' \in [Viewers -> ViewRecord]
      /\ view'[v].pc = "mark" /\ \A w \in Viewers \ {v} : view'[w] = view[w]
      /\ \A w \in Viewers : view'[w].object = view[w].object
  BY <1>1, ViewGoes DEF Lists!CachePage
<1>4. page' \in [hit : BOOLEAN, list : SharedList] /\ page'.list.mark = NoMark
  <2>1. CASE page' = [hit |-> TRUE, list |-> held[v]]
    BY <1>1, <2>1 DEF ListsTyped, MarksKept, Lists!CachePage
  <2>2. CASE page' = page
    BY <1>1, <2>2 DEF ListsTyped, MarksKept
  <2>3. QED
    BY <2>1, <2>2 DEF Lists!CachePage, Lists!PageShared
<1>5. ListsTyped'
  BY <1>1, <1>2, <1>3, <1>4, AuthorSame DEF ListsTyped
<1>6. MarksKept'
  BY <1>1, <1>2, <1>3, <1>4 DEF MarksKept
<1>7. TrendingKept'
  BY <1>2, TrendingSame
<1>8. QED
  BY <1>5, <1>6, <1>7 DEF ListsInv

LEMMA MarkKeeps ==
  ASSUME ListsInv, NEW v \in Viewers, Lists!MarkOwn(v)
  PROVE  ListsInv'
<1>1. ListsTyped /\ MarksKept /\ TrendingKept
  BY DEF ListsInv
<1>2. /\ AuthorStays /\ UNCHANGED <<trending, kept, flight, page, answers>>
  BY DEF AuthorStays, Lists!MarkOwn, Lists!mutated, Lists!listed
<1>3. /\ view' \in [Viewers -> ViewRecord]
      /\ view'[v].pc = "answer" /\ \A w \in Viewers \ {v} : view'[w] = view[w]
      /\ \A w \in Viewers : view'[w].object = view[w].object
  BY <1>1, ViewGoes DEF Lists!MarkOwn
<1>4. view[v].object = v /\ view[v].pc = "mark"
  BY <1>1 DEF MarksKept, Lists!MarkOwn
<1>5. PICK list : list = [held[v] EXCEPT !.mark = v]
  OBVIOUS
<1>6. list \in SharedList /\ list.mark = v
  BY <1>1, <1>5 DEF ListsTyped, SharedList
<1>7. held' = [held EXCEPT ![v] = list] \/ held' = held
  BY <1>1, <1>4, <1>5 DEF Lists!MarkOwn, Lists!Marked, ListsTyped
<1>8. /\ held' \in [Servers \cup Viewers -> SharedList]
      /\ held'[v] \in {list, held[v]} /\ \A o \in (Servers \cup Viewers) \ {v} : held'[o] = held[o]
  BY <1>1, <1>6, <1>7 DEF ListsTyped
<1>9. ListsTyped'
  BY <1>1, <1>2, <1>3, <1>8, AuthorSame DEF ListsTyped
<1>10. MarksKept'
  BY <1>1, <1>2, <1>3, <1>6, <1>8, HoldersApart DEF MarksKept
<1>11. TrendingKept'
  BY <1>2, <1>8, HoldersApart, TrendingSame
<1>12. QED
  BY <1>9, <1>10, <1>11 DEF ListsInv

LEMMA AnswerKeeps ==
  ASSUME ListsInv, NEW v \in Viewers, Lists!Answer(v)
  PROVE  ListsInv'
<1>1. ListsTyped /\ MarksKept /\ TrendingKept
  BY DEF ListsInv
<1>2. /\ AuthorStays /\ UNCHANGED <<trending, kept, flight, page, held>>
  BY DEF AuthorStays, Lists!Answer, Lists!vars, Lists!mutated, Lists!listed
<1>3. /\ view' \in [Viewers -> ViewRecord]
      /\ view'[v].pc = "done" /\ \A w \in Viewers \ {v} : view'[w] = view[w]
      /\ \A w \in Viewers : view'[w].object = view[w].object
  BY <1>1, ViewGoes DEF Lists!Answer
<1>4. answers' = [answers EXCEPT ![v] = {held[v].mark}] /\ held[v].mark \in {v, NoMark}
  BY <1>1 DEF Lists!Answer, MarksKept
<1>5. ListsTyped'
  BY <1>1, <1>2, <1>3, <1>4, AuthorSame DEF ListsTyped
<1>6. MarksKept'
  BY <1>1, <1>2, <1>3, <1>4 DEF MarksKept, ListsTyped
<1>7. TrendingKept'
  BY <1>2, TrendingSame
<1>8. QED
  BY <1>5, <1>6, <1>7 DEF ListsInv

LEMMA RebuildKeeps ==
  ASSUME ListsInv, NEW s \in Servers, Lists!Rebuild(s)
  PROVE  ListsInv'
<1>1. ListsTyped /\ MarksKept /\ TrendingKept
  BY DEF ListsInv
<1>2. /\ AuthorStays /\ UNCHANGED <<trending, kept, page, view, answers>>
      /\ flight' = [flight EXCEPT ![s] = [pc |-> "read", crossed |-> FALSE]]
  BY DEF AuthorStays, Lists!Rebuild, Lists!vars, Lists!mutated, Lists!listed
<1>3. PICK ps \in SUBSET Lists!Public :
        held' = [held EXCEPT ![s] = [entries |-> {Lists!Entry(p) : p \in ps}, mark |-> NoMark]]
  BY DEF Lists!Rebuild, Lists!FilterPublicPosts, Lists!GetPostsByIDs, Lists!GetTrendingPosts
<1>4. PICK list : list = [entries |-> {Lists!Entry(p) : p \in ps}, mark |-> NoMark]
  OBVIOUS
<1>5. \A p \in AuthorPosts : Lists!Entry(p) \in Entries
  BY <1>1 DEF ListsTyped, AuthorTyped, PostRow, Lists!Entry, Entries
<1>6. {Lists!Entry(p) : p \in ps} \subseteq Entries
  BY <1>5 DEF Lists!Public
<1>7. list \in SharedList /\ list.mark = NoMark /\ list.entries = {Lists!Entry(p) : p \in ps}
  BY <1>4, <1>6 DEF SharedList
<1>8. \A e \in list.entries : ~Lists!Stale(e)
  BY <1>7 DEF Lists!Stale, Lists!Entry
<1>9. held' \in [Servers \cup Viewers -> SharedList]
        /\ held'[s] = list /\ \A o \in (Servers \cup Viewers) \ {s} : held'[o] = held[o]
  BY <1>1, <1>3, <1>4, <1>7 DEF ListsTyped
<1>10. ListsTyped'
  BY <1>1, <1>2, <1>9, AuthorSame DEF ListsTyped
<1>11. MarksKept'
  BY <1>1, <1>2, <1>7, <1>9, HoldersApart DEF MarksKept
<1>12. TrendingKept'
  <2>1. ASSUME NEW t \in Servers, flight'[t].pc = "read" /\ ~flight'[t].crossed,
               NEW e \in held'[t].entries
        PROVE  ~Lists!Stale(e)'
    <3>1. CASE t = s
      BY <1>2, <1>8, <1>9, <2>1, <3>1, AuthorSame
    <3>2. CASE t # s
      <4>1. flight'[t] = flight[t] /\ held'[t] = held[t]
        BY <1>1, <1>2, <1>9, <3>2 DEF ListsTyped
      <4>2. QED
        BY <1>1, <1>2, <2>1, <4>1, AuthorSame DEF TrendingKept, FlightsCurrent
    <3>3. QED
      BY <3>1, <3>2
  <2>2. FlightsCurrent'
    BY <2>1 DEF FlightsCurrent
  <2>3. QED
    BY <1>1, <1>2, <2>2, AuthorSame DEF TrendingKept, Lists!TrendingCurrent
<1>13. QED
  BY <1>10, <1>11, <1>12 DEF ListsInv

LEMMA FillKeeps ==
  ASSUME ListsInv, NEW s \in Servers, Lists!FillTrending(s)
  PROVE  ListsInv'
<1>1. ListsTyped /\ MarksKept /\ TrendingKept
  BY DEF ListsInv
<1>2. /\ AuthorStays /\ UNCHANGED <<page, answers>> /\ flight[s].pc = "read"
      /\ flight' = [flight EXCEPT ![s] = Lists!NoFlight]
      /\ held' = [o \in DOMAIN held |-> IF o \in Lists!Waiting(s) THEN held[s] ELSE held[o]]
      /\ view' = [v \in Viewers |->
           IF v \in Lists!Waiting(s) THEN [view[v] EXCEPT !.pc = "mark", !.object = v]
           ELSE view[v]]
  BY DEF AuthorStays, Lists!FillTrending, Lists!mutated, Lists!Land, Lists!Copy
<1>3. Lists!Waiting(s) \subseteq Viewers
  BY DEF Lists!Waiting
<1>4. /\ held' \in [Servers \cup Viewers -> SharedList]
      /\ \A t \in Servers : held'[t] = held[t]
      /\ \A v \in Viewers : held'[v] \in {held[s], held[v]}
  BY <1>1, <1>2, <1>3, HoldersApart DEF ListsTyped
<1>5. /\ view' \in [Viewers -> ViewRecord]
      /\ \A v \in Viewers : view'[v].object = v
      /\ \A v \in Viewers : view'[v].pc = "cache" => view'[v] = view[v] /\ held'[v] = held[v]
  <2>1. ASSUME NEW v \in Viewers
        PROVE  /\ view'[v] \in ViewRecord /\ view'[v].object = v
               /\ view'[v].pc = "cache" => view'[v] = view[v] /\ held'[v] = held[v]
    <3>1. view[v] \in ViewRecord /\ view[v].object = v
      BY <1>1 DEF ListsTyped, MarksKept
    <3>2. CASE v \in Lists!Waiting(s)
      <4>1. view'[v] = [view[v] EXCEPT !.pc = "mark", !.object = v]
        BY <1>2, <3>2
      <4>2. view'[v] \in ViewRecord /\ view'[v].object = v /\ view'[v].pc = "mark"
        BY <3>1, <4>1 DEF ViewRecord
      <4>3. QED
        BY <4>2
    <3>3. CASE v \notin Lists!Waiting(s)
      BY <1>1, <1>2, <3>1, <3>3 DEF ListsTyped
    <3>4. QED
      BY <3>2, <3>3
  <2>2. QED
    BY <1>2, <2>1
<1>6. \/ /\ trending' = [hit |-> held[s].entries # {}, entries |-> held[s].entries]
         /\ kept' = (flight[s].crossed /\ held[s].entries # {})
      \/ UNCHANGED <<trending, kept>>
  BY DEF Lists!FillTrending, Lists!SetTrending, Lists!listed
<1>7. held[s] \in SharedList /\ held[s].mark = NoMark /\ flight[s].crossed \in BOOLEAN
  BY <1>1 DEF ListsTyped, MarksKept
<1>8. trending' \in [hit : BOOLEAN, entries : SUBSET Entries]
  <2>1. CASE UNCHANGED <<trending, kept>>
    BY <1>1, <2>1 DEF ListsTyped
  <2>2. CASE trending' = [hit |-> held[s].entries # {}, entries |-> held[s].entries]
    <3>1. held[s].entries \in SUBSET Entries
      BY <1>7 DEF SharedList
    <3>2. QED
      BY <2>2, <3>1
  <2>3. QED
    BY <1>6, <2>1, <2>2
<1>9. flight' \in [Servers -> [pc : {"idle", "started", "read"}, crossed : BOOLEAN]]
        /\ \A t \in Servers : flight'[t].pc = "read" => flight'[t] = flight[t]
  BY <1>1, <1>2 DEF ListsTyped, Lists!NoFlight
<1>10. ListsTyped'
  BY <1>1, <1>2, <1>4, <1>5, <1>8, <1>9, AuthorSame DEF ListsTyped
<1>11. MarksKept'
  BY <1>1, <1>2, <1>4, <1>5, <1>7 DEF MarksKept
<1>12. TrendingKept'
  <2>1. FlightsCurrent'
    BY <1>1, <1>2, <1>4, <1>9, AuthorSame DEF TrendingKept, FlightsCurrent
  <2>2. CASE UNCHANGED <<trending, kept>>
    BY <1>1, <1>2, <2>1, <2>2, AuthorSame DEF TrendingKept, Lists!TrendingCurrent
  <2>3. CASE /\ trending' = [hit |-> held[s].entries # {}, entries |-> held[s].entries]
             /\ kept' = (flight[s].crossed /\ held[s].entries # {})
    <3>1. ~flight[s].crossed => \A e \in held[s].entries : ~Lists!Stale(e)
      BY <1>1, <1>2 DEF TrendingKept, FlightsCurrent
    <3>2. Lists!TrendingCurrent'
      BY <1>2, <1>7, <2>3, <3>1, AuthorSame DEF Lists!TrendingCurrent
    <3>3. QED
      BY <2>1, <2>3, <3>2 DEF TrendingKept
  <2>4. QED
    BY <1>6, <2>2, <2>3
<1>13. QED
  BY <1>10, <1>11, <1>12 DEF ListsInv

LEMMA FailKeeps ==
  ASSUME ListsInv, NEW s \in Servers, Lists!FlightFails(s)
  PROVE  ListsInv'
<1>1. ListsTyped /\ MarksKept /\ TrendingKept
  BY DEF ListsInv
<1>2. /\ AuthorStays /\ UNCHANGED <<trending, kept, page, held, answers>>
      /\ flight' = [flight EXCEPT ![s] = Lists!NoFlight]
      /\ view' = [v \in Viewers |->
           IF v \in Lists!Waiting(s) THEN [view[v] EXCEPT !.pc = "done"] ELSE view[v]]
  BY DEF AuthorStays, Lists!FlightFails, Lists!mutated, Lists!listed
<1>3. \A v \in Viewers : /\ view'[v] \in ViewRecord /\ view'[v].object = v
                         /\ view'[v].pc = "cache" => view[v].pc = "cache"
  <2>1. ASSUME NEW v \in Viewers
        PROVE  /\ view'[v] \in ViewRecord /\ view'[v].object = v
               /\ view'[v].pc = "cache" => view[v].pc = "cache"
    <3>1. view[v] \in ViewRecord /\ view[v].object = v
      BY <1>1 DEF ListsTyped, MarksKept
    <3>2. view'[v] = [view[v] EXCEPT !.pc = "done"] \/ view'[v] = view[v]
      BY <1>2
    <3>3. QED
      BY <3>1, <3>2 DEF ViewRecord
  <2>2. QED
    BY <2>1
<1>4. flight' \in [Servers -> [pc : {"idle", "started", "read"}, crossed : BOOLEAN]]
        /\ \A t \in Servers : flight'[t].pc = "read" => flight'[t] = flight[t]
  BY <1>1, <1>2 DEF ListsTyped, Lists!NoFlight
<1>5. view' \in [Viewers -> ViewRecord]
  BY <1>2, <1>3
<1>6. ListsTyped'
  BY <1>1, <1>2, <1>4, <1>5, AuthorSame DEF ListsTyped
<1>7. MarksKept'
  BY <1>1, <1>2, <1>3 DEF MarksKept
<1>8. TrendingKept'
  BY <1>2, <1>4, TrendingSame
<1>9. QED
  BY <1>6, <1>7, <1>8 DEF ListsInv

LEMMA ExpireKeeps ==
  ASSUME ListsInv, Lists!Expire
  PROVE  ListsInv'
<1>1. ListsTyped /\ MarksKept /\ TrendingKept
  BY DEF ListsInv
<1>2. AuthorStays /\ UNCHANGED <<flight, held, view, answers>>
  BY DEF AuthorStays, Lists!Expire, Lists!mutated
<1>3. /\ Lists!Miss \in [hit : BOOLEAN, entries : SUBSET Entries] /\ Lists!Miss.entries = {}
      /\ Lists!Empty \in [hit : BOOLEAN, list : SharedList] /\ Lists!Empty.list.mark = NoMark
  BY DEF Lists!Miss, Lists!Empty, Lists!Blank, SharedList
<1>4. \/ trending' = Lists!Miss /\ page' = page
      \/ page' = Lists!Empty /\ UNCHANGED <<trending, kept>>
  BY DEF Lists!Expire, Lists!listed
<1>5. ListsTyped'
  BY <1>1, <1>2, <1>3, <1>4, AuthorSame DEF ListsTyped
<1>6. MarksKept'
  BY <1>1, <1>2, <1>3, <1>4 DEF MarksKept
<1>7. FlightsCurrent'
  BY <1>1, <1>2, AuthorSame DEF TrendingKept, FlightsCurrent
<1>8. TrendingKept'
  BY <1>1, <1>2, <1>3, <1>4, <1>7, AuthorSame DEF TrendingKept, Lists!TrendingCurrent
<1>9. QED
  BY <1>5, <1>6, <1>8 DEF ListsInv

(* A list made for everybody shows nobody another viewer's likes, and the  *)
(* cached trending list holds no post that was deleted, hidden or edited   *)
(* since, but until its eviction, or by a flight that was crossed or an    *)
(* eviction that failed (copyPosts, FieldsShared, invalidateTrending), for *)
(* any posts, viewers and servers.                                         *)
THEOREM SharedListsTrue == MCSpec => []ListsTrue
<1>1. ListsInv /\ Lists!SharedNext => ListsInv'
  BY MutateKeeps, ReadersKeep, JoinKeeps, CacheKeeps, MarkKeeps, AnswerKeeps, RebuildKeeps,
     FillKeeps, FailKeeps, ExpireKeeps DEF Lists!SharedNext
<1>2. ListsInv /\ UNCHANGED sharedVars => ListsInv'
  BY DEF ListsInv, ListsTyped, AuthorTyped, MarksKept, TrendingKept, FlightsCurrent, sharedVars,
         Lists!TrendingCurrent, Lists!Stale, Lists!Public, Lists!Live, Lists!Evicting
<1>3. ListsInv => Lists!MarksOwn /\ Lists!TrendingCurrent
  BY DEF ListsInv, MarksKept, TrendingKept, Lists!MarksOwn
<1>4. MCInit => (part = "lists" => ListsInv)
  BY ListsInit DEF MCInit
<1>5. (part = "lists" => ListsInv) /\ [MCNext]_all => (part = "lists" => ListsInv)'
  BY <1>1, <1>2 DEF MCNext, all, Scrolling
<1>6. (part = "lists" => ListsInv) => ListsTrue
  BY <1>3 DEF ListsTrue
<1>7. QED
  BY <1>4, <1>5, <1>6, PTL DEF MCSpec

-----------------------------------------------------------------------------
(* Sets of numbers, and what is best in them.                              *)

(* A set of numbers has a lowest one, a finite one a highest one.          *)
LEMMA HasLowest ==
  ASSUME NEW S, S \subseteq Nat, S # {}
  PROVE  \E a \in S : \A b \in S : a <= b
<1>1. PICK a \in S : \A b \in S : ~(<<b, a>> \in OpToRel(<, Nat))
  BY NatLessThanWellFounded, WFMin, Zenon
<1>2. \A b \in S : ~(b < a)
  BY <1>1, Zenon DEF OpToRel
<1>3. QED
  BY <1>2

\* The one with the fewest above it has none above it.
LEMMA HasHighest ==
  ASSUME NEW S, IsFiniteSet(S), S # {}, NEW rank \in [S -> Nat]
  PROVE  \E a \in S : \A b \in S : rank[b] <= rank[a]
<1> DEFINE Above(x) == {y \in S : rank[y] > rank[x]}
           Counts == {Cardinality(Above(x)) : x \in S}
<1>1. \A x \in S : IsFiniteSet(Above(x)) /\ Cardinality(Above(x)) \in Nat
  BY FS_Subset, FS_CardinalityType
<1>2. Counts \subseteq Nat /\ Counts # {}
  BY <1>1
<1>3. PICK n \in Counts : \A m \in Counts : n <= m
  <2> HIDE DEF Counts
  <2>1. QED
    BY <1>2, HasLowest
<1>4. PICK a \in S : n = Cardinality(Above(a))
  BY <1>3
<1>5. \A b \in S : rank[b] <= rank[a]
  <2> SUFFICES ASSUME NEW b \in S, rank[b] > rank[a] PROVE FALSE
    OBVIOUS
  <2>1. Above(b) \subseteq Above(a) /\ b \in Above(a) /\ b \notin Above(b)
    OBVIOUS
  <2>2. Cardinality(Above(b)) <= Cardinality(Above(a)) /\ Cardinality(Above(b)) # Cardinality(Above(a))
    <3> HIDE DEF Above
    <3>1. QED
      BY <1>1, <2>1, FS_Subset
  <2>3. Cardinality(Above(b)) \in Counts
    OBVIOUS
  <2>4. QED
    <3> HIDE DEF Above, Counts
    <3>1. QED
      BY <1>1, <1>3, <1>4, <2>2, <2>3
<1>6. QED
  BY <1>5

(* The n best of a set: nothing outside is better than one of them, and    *)
(* fewer than n are all there is.                                          *)
Best(S, rank, n) == {p \in S : Cardinality({q \in S : rank[q] > rank[p]}) < n}

LEMMA BestOf ==
  ASSUME NEW S, IsFiniteSet(S), NEW rank \in [S -> Nat], NEW n \in Nat,
         NEW T, T = Best(S, rank, n)
  PROVE  /\ T \subseteq S /\ IsFiniteSet(T)
         /\ \A p \in T : \A q \in S : rank[p] <= rank[q] => q \in T
         /\ Cardinality(S) <= n => T = S
         /\ Cardinality(T) < n => T = S
<1> DEFINE Above(x) == {y \in S : rank[y] > rank[x]}
<1>1. \A x \in S : IsFiniteSet(Above(x)) /\ Cardinality(Above(x)) \in Nat
  BY FS_Subset, FS_CardinalityType
<1>2. T \subseteq S
  BY DEF Best
<1>3. IsFiniteSet(T) /\ Cardinality(T) \in Nat /\ Cardinality(S) \in Nat
  BY <1>2, FS_Subset, FS_CardinalityType
<1>4. \A x \in S : x \in T <=> Cardinality(Above(x)) < n
  BY DEF Best
<1>5. ASSUME NEW p \in T, NEW q \in S, rank[p] <= rank[q] PROVE q \in T
  <2>1. Above(q) \subseteq Above(p)
    BY <1>2, <1>5
  <2>2. Cardinality(Above(q)) <= Cardinality(Above(p))
    <3>1. p \in S
      BY <1>2
    <3> HIDE DEF Above
    <3>2. QED
      BY <1>1, <2>1, <3>1, FS_Subset
  <2>3. QED
    <3> HIDE DEF Above
    <3>1. p \in S
      BY <1>2
    <3>2. QED
      BY <1>1, <1>4, <2>2, <3>1
<1>6. ASSUME Cardinality(S) <= n, NEW x \in S PROVE x \in T
  <2>1. Above(x) \subseteq S /\ x \notin Above(x)
    OBVIOUS
  <2>2. Cardinality(Above(x)) <= Cardinality(S) /\ Cardinality(Above(x)) # Cardinality(S)
    <3> HIDE DEF Above
    <3>1. QED
      BY <2>1, FS_Subset
  <2>3. QED
    <3> HIDE DEF Above
    <3>1. QED
      BY <1>1, <1>3, <1>4, <1>6, <2>2
<1>7. ASSUME Cardinality(T) < n, S \ T # {} PROVE FALSE
  <2> DEFINE out == [x \in S \ T |-> rank[x]]
  <2>1. PICK x \in S \ T : \A y \in S \ T : out[y] <= out[x]
    <3>1. IsFiniteSet(S \ T) /\ out \in [S \ T -> Nat]
      BY FS_Difference
    <3> HIDE DEF out
    <3>2. QED
      BY <1>7, <3>1, HasHighest
  <2>2. Above(x) \subseteq T
    BY <2>1
  <2>3. Cardinality(Above(x)) <= Cardinality(T)
    <3> HIDE DEF Above
    <3>1. QED
      BY <1>3, <2>2, FS_Subset
  <2>4. QED
    <3> HIDE DEF Above
    <3>1. QED
      BY <1>1, <1>3, <1>4, <1>7, <2>1, <2>3
<1>8. QED
  BY <1>2, <1>3, <1>5, <1>6, <1>7

LEMMA NewestIs ==
  ASSUME NEW S, S \subseteq Nat, IsFiniteSet(S), NEW n \in Nat
  PROVE  /\ Newest(S, n) \subseteq S /\ IsFiniteSet(Newest(S, n))
         /\ \A p \in Newest(S, n) : \A q \in S : p <= q => q \in Newest(S, n)
         /\ Cardinality(S) <= n => Newest(S, n) = S
         /\ Cardinality(Newest(S, n)) < n => Newest(S, n) = S
<1> DEFINE rank == [p \in S |-> p]
<1>1. rank \in [S -> Nat] /\ \A p \in S : rank[p] = p
  OBVIOUS
<1>2. Newest(S, n) = Best(S, rank, n)
  <2>1. \A p \in S : {q \in S : rank[q] > rank[p]} = {q \in S : q > p}
    BY <1>1
  <2> HIDE DEF rank
  <2>2. QED
    BY <2>1 DEF Newest, Best
<1>3. /\ Newest(S, n) \subseteq S /\ IsFiniteSet(Newest(S, n))
      /\ \A p \in Newest(S, n) : \A q \in S : rank[p] <= rank[q] => q \in Newest(S, n)
      /\ Cardinality(S) <= n => Newest(S, n) = S
      /\ Cardinality(Newest(S, n)) < n => Newest(S, n) = S
  <2> HIDE DEF rank
  <2>1. QED
    BY <1>1, <1>2, BestOf
<1>4. QED
  <2> HIDE DEF rank
  <2>1. QED
    BY <1>1, <1>3

(* Top is above every post.                                                *)
LEMMA TopAbove == Top \in Nat \ {0} /\ \A p \in Posts : p < Top
<1> DEFINE rank == [p \in Posts |-> p]
<1>1. rank \in [Posts -> Nat]
  BY PostsAssumption
<1>2. PICK p \in Posts : \A q \in Posts : rank[q] <= rank[p]
  <2> HIDE DEF rank
  <2>1. QED
    BY <1>1, PostsAssumption, HasHighest
<1>3. \A q \in Posts : q <= p
  BY <1>2
<1>4. QED
  <2> DEFINE m == CHOOSE x \in Posts : \A q \in Posts : q <= x
  <2>1. m \in Posts /\ \A q \in Posts : q <= m
    BY <1>3
  <2>2. Top = 1 + m
    BY DEF Top
  <2> HIDE DEF m
  <2>3. m \in Nat /\ Posts \subseteq Nat
    BY <2>1, PostsAssumption
  <2>4. QED
    BY <2>1, <2>2, <2>3
-----------------------------------------------------------------------------
(* The scroll.                                                             *)

AtMixed == cursor.at \in {"start", "mixed"}

\* What the scroll meets.
WorldTyped ==
  /\ following \subseteq Posts /\ own \subseteq following /\ public \subseteq Posts
  /\ likes \in [Posts -> 0 .. MaxLikes \cup {Cold}]
  /\ recs \in Seq(Posts \cup {Junk}) /\ total \in Nat /\ Len(recs) <= total
  /\ rebuilds \in Nat
  /\ \A i, j \in DOMAIN recs : recs[i] = recs[j] => i = j \/ recs[i] = Junk

CursorTyped ==
  /\ cursor.at \in {"start", "mixed", "discover", "end"}
  /\ cursor.rec \in 0 .. Len(recs) /\ cursor.recSeen \subseteq 0 .. Len(recs) - 1
  /\ cursor.trend \in Nat \cup {NoPosition} /\ cursor.trendSeen \subseteq Posts
  /\ cursor.fol \in 1 .. Top /\ cursor.disc \in 1 .. Top
  /\ cursor.discSeen \subseteq Posts
  /\ Shown \subseteq Posts

\* What the cursor carries as served was served.
SeenServed ==
  /\ AtMixed \/ cursor.at = "discover" => cursor.discSeen \subseteq Shown
  /\ AtMixed =>
       /\ cursor.trendSeen \subseteq Shown
       /\ \A o \in cursor.recSeen : recs[o + 1] \in Shown

\* What discover could hand back is carried, or a cap has dropped it.
DiscoverCarried ==
  /\ AtMixed =>
       \A p \in Shown : p < cursor.fol => p \in cursor.discSeen \cup dropped
  /\ cursor.at = "discover" =>
       \A p \in Shown : p < cursor.disc => p \in cursor.discSeen \cup dropped

\* The following position is the lowest post the following source served.
FollowedDown ==
  AtMixed =>
    /\ \A p \in From(served, "following") : cursor.fol <= p
    /\ cursor.fol = Top \/ cursor.fol \in From(served, "following")

\* What recommendations and trending served, their positions and lists tell.
RecAccounted ==
  AtMixed /\ "recommender" \notin failed =>
    \A o \in 0 .. Len(recs) - 1 :
      recs[o + 1] \in From(served, "recommendation") => o < cursor.rec \/ o \in cursor.recSeen
TrendAccounted ==
  AtMixed /\ rebuilds = 0 =>
    \A p \in From(served, "trending") \ dropped :
      /\ p \in Hot
      /\ p \in cursor.trendSeen \/ (cursor.trend # NoPosition /\ cursor.trend <= Key(p))

\* Neither position has moved over what nobody was shown, and a scroll without a
\* trending position has no trending list.
RecStepped ==
  AtMixed =>
    \A o \in 0 .. cursor.rec - 1 : recs[o + 1] \in public \ own => recs[o + 1] \in Shown
TrendStepped ==
  AtMixed /\ rebuilds = 0 =>
    /\ cursor.trend # NoPosition => \A p \in Hot : cursor.trend <= Key(p) => p \in Shown
    /\ cursor.at = "mixed" /\ failed = {} /\ cursor.trend = NoPosition => Hot = {}

\* Discover has shown all between the hand-off and its position.
DiscoverStepped ==
  cursor.at = "discover" =>
    \A p \in public : cursor.disc <= p /\ p < Boundary => p \in Shown

\* Discover starts with the hand-off and goes down.
DiscoverDown ==
  /\ AtMixed => From(served, "discover") = {}
  /\ cursor.at = "discover" => \A p \in From(served, "discover") : cursor.disc <= p

\* The sources of the mixed path were used up when it was left.
SourcesLeft ==
  cursor.at \in {"discover", "end"} /\ failed = {} =>
    /\ \A p \in following : p < Boundary => p \in Shown
    /\ \A o \in DOMAIN recs : recs[o] \in public \ own => recs[o] \in Shown \cup missed
    /\ rebuilds = 0 => Hot \ own \subseteq Shown \cup missed
PublicServed == cursor.at = "end" => \A p \in public : p < Boundary => p \in Shown

ScrollInv ==
  /\ WorldTyped /\ CursorTyped /\ SeenServed /\ DiscoverCarried /\ FollowedDown
  /\ RecAccounted /\ TrendAccounted /\ RecStepped /\ TrendStepped
  /\ DiscoverStepped /\ DiscoverDown /\ SourcesLeft /\ PublicServed
  /\ ChargedOnce /\ DiscoverFresh

-----------------------------------------------------------------------------
(* Trending posts by their keys.                                           *)

\* A post ranks below the sentinel.
LEMMA KeyIs ==
  ASSUME NEW l \in 0 .. MaxLikes, NEW p \in Posts
  PROVE  l * Top + p \in Nat /\ l * Top + p < Sentinel
<1>1. Top \in Nat /\ p \in Nat /\ p < Top /\ MaxLikes \in Nat
  BY TopAbove, PostsAssumption, BoundsAssumption
<1>2. PICK d \in Nat : MaxLikes = l + d
  <2>1. MaxLikes - l \in Nat /\ MaxLikes = l + (MaxLikes - l)
    BY <1>1
  <2>2. QED
    BY <2>1
<1>3. \A a, b, t \in Nat : (a + b + 1) * t = a * t + b * t + t /\ a * t \in Nat /\ b * t \in Nat
  OBVIOUS
<1>4. Sentinel = l * Top + d * Top + Top /\ l * Top \in Nat /\ d * Top \in Nat
  BY <1>1, <1>2, <1>3 DEF Sentinel
<1>5. QED
  BY <1>1, <1>4

LEMMA HotIs ==
  ASSUME WorldTyped
  PROVE  /\ Hot \subseteq Posts /\ IsFiniteSet(Hot)
         /\ \A p \in Hot : Key(p) \in Nat /\ Key(p) < Sentinel
         /\ Sentinel \in Nat
<1>1. Hot \subseteq Posts /\ IsFiniteSet(Hot)
  BY PostsAssumption, FS_Subset DEF Hot
<1>2. ASSUME NEW p \in Hot PROVE Key(p) \in Nat /\ Key(p) < Sentinel
  <2>1. p \in Posts /\ likes[p] \in 0 .. MaxLikes
    BY DEF Hot, WorldTyped
  <2>2. QED
    BY <2>1, KeyIs DEF Key
<1>3. Sentinel \in Nat
  <2>1. MaxLikes + 1 \in Nat /\ Top \in Nat
    BY TopAbove, BoundsAssumption
  <2>2. \A a, b \in Nat : a * b \in Nat
    OBVIOUS
  <2>3. QED
    BY <2>1, <2>2 DEF Sentinel
<1>4. QED
  BY <1>1, <1>2, <1>3

LEMMA HottestIs ==
  ASSUME WorldTyped, NEW S, S \subseteq Hot, NEW n \in Nat
  PROVE  /\ Hottest(S, n) \subseteq S
         /\ \A p \in Hottest(S, n) : \A q \in S : Key(p) <= Key(q) => q \in Hottest(S, n)
         /\ Cardinality(S) <= n => Hottest(S, n) = S
         /\ Cardinality(Hottest(S, n)) < n => Hottest(S, n) = S
<1> DEFINE rank == [p \in S |-> Key(p)]
<1>1. rank \in [S -> Nat] /\ IsFiniteSet(S) /\ \A p \in S : rank[p] = Key(p)
  BY HotIs, FS_Subset
<1>2. Hottest(S, n) = Best(S, rank, n)
  <2>1. \A p \in S : {q \in S : rank[q] > rank[p]} = {q \in S : Key(q) > Key(p)}
    BY <1>1
  <2> HIDE DEF rank
  <2>2. QED
    BY <2>1 DEF Hottest, Best
<1>3. /\ Hottest(S, n) \subseteq S
      /\ \A p \in Hottest(S, n) : \A q \in S : rank[p] <= rank[q] => q \in Hottest(S, n)
      /\ Cardinality(S) <= n => Hottest(S, n) = S
      /\ Cardinality(Hottest(S, n)) < n => Hottest(S, n) = S
  <2> HIDE DEF rank
  <2>1. QED
    BY <1>1, <1>2, BestOf
<1>4. QED
  <2> HIDE DEF rank
  <2>1. QED
    BY <1>1, <1>3

-----------------------------------------------------------------------------
(* What a request collects.                                                *)

FollowedRight(got) ==
  /\ got.followed \subseteq following /\ IsFiniteSet(got.followed)
  /\ \A p \in got.followed : p < cursor.fol
  /\ Cardinality(got.followed) < FollowingLimit =>
       \A p \in following : p < cursor.fol => p \in got.followed

RecsRight(got, bad) ==
  /\ got.recEnd \in cursor.rec .. Len(recs) /\ got.recEnd <= cursor.rec + PageSize
  /\ {"recommender", "load"} \cap bad = {} /\ got.recEnd = cursor.rec => got.recEnd = Len(recs)
  /\ {"recommender", "load"} \cap bad # {} => got.recEnd = cursor.rec
  /\ \A o : o \in got.loaded <=>
              /\ o \in cursor.rec .. got.recEnd - 1
              /\ o \notin cursor.recSeen /\ recs[o + 1] \in public
  /\ \A p : p \in got.recommended <=> \E o \in got.loaded : recs[o + 1] = p
  /\ got.recTotal = IF "recommender" \in bad THEN 0 ELSE total

TrendRight(got, bad) ==
  /\ got.window \subseteq BelowTrend
  /\ \A p \in got.window : \A q \in BelowTrend : Key(p) <= Key(q) => q \in got.window
  /\ TrendingAsked /\ "trending" \notin bad =>
       /\ ~got.truncated => got.window = BelowTrend
       /\ got.window = {} => BelowTrend = {}
  /\ got.trendingFailed <=> TrendingAsked /\ "trending" \in bad
  /\ ~TrendingAsked => got.window = {}

Gathered(got, bad) ==
  /\ FollowedRight(got) /\ RecsRight(got, bad) /\ TrendRight(got, bad)
  /\ got.sourceFailed <=> \/ {"recommender", "load"} \cap bad # {}
                          \/ TrendingAsked /\ "trending" \in bad

LEMMA FollowedGathered ==
  ASSUME WorldTyped, CursorTyped, NEW got, got.followed = Followed
  PROVE  FollowedRight(got)
<1> DEFINE S == {p \in following : p < cursor.fol}
<1>1. S \subseteq Posts /\ S \subseteq Nat /\ IsFiniteSet(S)
  BY PostsAssumption, FS_Subset DEF WorldTyped
<1>2. FollowingLimit \in Nat
  BY SizesAssumption DEF FollowingLimit
<1>3. got.followed = Newest(S, FollowingLimit)
  BY DEF Followed
<1>4. /\ got.followed \subseteq S /\ IsFiniteSet(got.followed)
      /\ Cardinality(got.followed) < FollowingLimit => got.followed = S
  <2> HIDE DEF S
  <2>1. /\ Newest(S, FollowingLimit) \subseteq S /\ IsFiniteSet(Newest(S, FollowingLimit))
        /\ Cardinality(Newest(S, FollowingLimit)) < FollowingLimit => Newest(S, FollowingLimit) = S
    BY <1>1, <1>2, NewestIs
  <2>2. QED
    BY <1>3, <2>1
<1>5. QED
  BY <1>4 DEF FollowedRight

LEMMA RecsGathered ==
  ASSUME WorldTyped, CursorTyped, NEW bad, NEW got,
         got.recEnd = WindowEnd(bad), got.loaded = Loaded(bad),
         got.recommended = {recs[o + 1] : o \in Loaded(bad)},
         got.recTotal = IF "recommender" \in bad THEN 0 ELSE total
  PROVE  RecsRight(got, bad)
<1>1. cursor.rec \in Nat /\ Len(recs) \in Nat /\ cursor.rec <= Len(recs) /\ PageSize \in Nat \ {0}
  BY SizesAssumption DEF CursorTyped, WorldTyped
<1>2. got.recEnd = IF {"recommender", "load"} \cap bad # {} THEN cursor.rec
                   ELSE IF cursor.rec + PageSize <= Len(recs) THEN cursor.rec + PageSize
                   ELSE Len(recs)
  BY DEF WindowEnd, Smaller
<1>3. /\ got.recEnd \in cursor.rec .. Len(recs) /\ got.recEnd <= cursor.rec + PageSize
      /\ {"recommender", "load"} \cap bad = {} /\ got.recEnd = cursor.rec => got.recEnd = Len(recs)
      /\ {"recommender", "load"} \cap bad # {} => got.recEnd = cursor.rec
  BY <1>1, <1>2
<1>4. \A o : o \in got.loaded <=>
              /\ o \in cursor.rec .. got.recEnd - 1
              /\ o \notin cursor.recSeen /\ recs[o + 1] \in public
  BY DEF Loaded
<1>5. \A p : p \in got.recommended <=> \E o \in got.loaded : recs[o + 1] = p
  OBVIOUS
<1>6. QED
  BY <1>3, <1>4, <1>5 DEF RecsRight

LEMMA TrendGathered ==
  ASSUME WorldTyped, CursorTyped, NEW bad, NEW got,
         got.window = IF TrendingAsked /\ "trending" \notin bad
                        THEN Hottest(BelowTrend, TrendingLimit) ELSE {},
         got.truncated <=> /\ TrendingAsked /\ "trending" \notin bad
                           /\ Cardinality(BelowTrend) > TrendingLimit,
         got.trendingFailed <=> TrendingAsked /\ "trending" \in bad
  PROVE  TrendRight(got, bad)
<1>1. BelowTrend \subseteq Hot /\ IsFiniteSet(BelowTrend) /\ Cardinality(BelowTrend) \in Nat
  BY HotIs, FS_Subset, FS_CardinalityType DEF BelowTrend
<1>2. TrendingLimit \in Nat \ {0}
  <2>1. Cardinality(cursor.trendSeen) \in Nat
    BY PostsAssumption, FS_Subset, FS_CardinalityType DEF CursorTyped
  <2>2. QED
    BY <2>1, SizesAssumption DEF TrendingLimit
<1>3. /\ Hottest(BelowTrend, TrendingLimit) \subseteq BelowTrend
      /\ \A p \in Hottest(BelowTrend, TrendingLimit) : \A q \in BelowTrend :
           Key(p) <= Key(q) => q \in Hottest(BelowTrend, TrendingLimit)
      /\ Cardinality(BelowTrend) <= TrendingLimit =>
           Hottest(BelowTrend, TrendingLimit) = BelowTrend
      /\ Cardinality(Hottest(BelowTrend, TrendingLimit)) < TrendingLimit =>
           Hottest(BelowTrend, TrendingLimit) = BelowTrend
  BY <1>1, <1>2, HottestIs
<1>4. CASE TrendingAsked /\ "trending" \notin bad
  <2>1. /\ got.window = Hottest(BelowTrend, TrendingLimit)
        /\ got.truncated <=> Cardinality(BelowTrend) > TrendingLimit
        /\ ~got.trendingFailed
    BY <1>4
  <2>2. ~got.truncated => got.window = BelowTrend
    BY <1>1, <1>2, <1>3, <2>1
  <2>3. got.window = {} => BelowTrend = {}
    BY <1>2, <1>3, <2>1, FS_EmptySet
  <2>4. QED
    BY <1>3, <1>4, <2>1, <2>2, <2>3 DEF TrendRight
<1>5. CASE ~(TrendingAsked /\ "trending" \notin bad)
  BY <1>5 DEF TrendRight
<1>6. QED
  BY <1>4, <1>5

LEMMA AllGathered ==
  ASSUME WorldTyped, CursorTyped, NEW bad, NEW got, got = Collect(bad)
  PROVE  Gathered(got, bad)
<1>1. /\ got.followed = Followed
      /\ got.recEnd = WindowEnd(bad) /\ got.loaded = Loaded(bad)
      /\ got.recommended = {recs[o + 1] : o \in Loaded(bad)}
      /\ got.recTotal = IF "recommender" \in bad THEN 0 ELSE total
  BY DEF Collect
<1>2. /\ got.window = IF TrendingAsked /\ "trending" \notin bad
                         THEN Hottest(BelowTrend, TrendingLimit) ELSE {}
      /\ got.truncated <=> /\ TrendingAsked /\ "trending" \notin bad
                           /\ Cardinality(BelowTrend) > TrendingLimit
      /\ got.trendingFailed <=> TrendingAsked /\ "trending" \in bad
  BY DEF Collect
<1>3. got.sourceFailed <=> \/ {"recommender", "load"} \cap bad # {}
                           \/ TrendingAsked /\ "trending" \in bad
  BY DEF Collect
<1>4. QED
  BY <1>1, <1>2, <1>3, FollowedGathered, RecsGathered, TrendGathered DEF Gathered

-----------------------------------------------------------------------------
(* Where each source goes on after a page.                                 *)

\* What is known of a page and of the cursor it ends with.
Paged(got, bad, shown, next) ==
  /\ Gathered(got, bad)
  /\ shown \subseteq Candidates(got)
  /\ Cardinality(shown) = Smaller(PageSize, Cardinality(Candidates(got)))
  /\ next.at = "mixed" /\ next.disc = Top
  /\ next.rec = NextRec(got, shown) /\ next.recSeen = NextRecSeen(got, shown)
  /\ next.trend = NextTrend(got, Consumed(got, shown))
  /\ next.trendSeen = IF next.trend = NoPosition THEN {}
                      ELSE TrendKept(got, Ragged(got, shown))
  /\ next.fol = NextFollowing(got, shown)
  /\ next.discSeen \subseteq ReachableByDiscover(shown, next.fol)
  /\ Cardinality(next.discSeen) <= MaxDiscoverSeen

LEMMA PageIs ==
  ASSUME NEW got, NEW bad, Gathered(got, bad),
         NEW shown \in Ranked(Candidates(got)), NEW next \in NextCursor(got, shown)
  PROVE  Paged(got, bad, shown, next)
<1>1. /\ shown \subseteq Candidates(got)
      /\ Cardinality(shown) = Smaller(PageSize, Cardinality(Candidates(got)))
  BY DEF Ranked
<1>2. PICK carried \in CarryDiscoverSeen(shown, NextFollowing(got, shown)) :
        next = [at |-> "mixed",
                rec |-> NextRec(got, shown), recSeen |-> NextRecSeen(got, shown),
                trend |-> NextTrend(got, Consumed(got, shown)),
                trendSeen |-> IF NextTrend(got, Consumed(got, shown)) = NoPosition THEN {}
                              ELSE TrendKept(got, Ragged(got, shown)),
                fol |-> NextFollowing(got, shown), disc |-> Top, discSeen |-> carried]
  BY DEF NextCursor
<1>3. /\ carried \subseteq ReachableByDiscover(shown, NextFollowing(got, shown))
      /\ Cardinality(carried)
           = Smaller(Cardinality(ReachableByDiscover(shown, NextFollowing(got, shown))),
                     MaxDiscoverSeen)
  BY DEF CarryDiscoverSeen
<1>4. Cardinality(carried) <= MaxDiscoverSeen
  BY <1>3, BoundsAssumption DEF Smaller
<1>5. QED
  BY <1>1, <1>2, <1>3, <1>4 DEF Paged

RecMoved(got, bad, shown, next) ==
  /\ next.rec \in cursor.rec .. got.recEnd /\ next.rec = RecFrontier(got, shown)
  /\ \A o \in cursor.rec .. next.rec - 1 :
       o \in got.loaded /\ recs[o + 1] \in Candidates(got) => recs[o + 1] \in shown
  /\ \/ next.rec = got.recEnd
     \/ next.rec \in got.loaded /\ recs[next.rec + 1] \in Candidates(got) \ shown
  /\ RecSpent(got, shown) /\ "recommender" \notin bad => next.rec = Len(recs)
  /\ \A o \in next.recSeen :
       o \in cursor.recSeen \/ (o \in got.loaded /\ recs[o + 1] \in shown)
  /\ "recommender" \notin bad =>
       \A o \in 0 .. Len(recs) - 1 :
         o \in cursor.recSeen \/ (o \in got.loaded /\ recs[o + 1] \in shown)
           => o < next.rec \/ o \in next.recSeen

LEMMA RecMoves ==
  ASSUME WorldTyped, CursorTyped, NEW got, NEW bad, NEW shown, NEW next,
         Paged(got, bad, shown, next)
  PROVE  RecMoved(got, bad, shown, next)
<1> DEFINE owed == {o \in ValidOffsets(got) : recs[o + 1] \notin shown}
           F == RecFrontier(got, shown)
<1>1. RecsRight(got, bad) /\ shown \subseteq Candidates(got)
  BY DEF Paged, Gathered
<1>2. cursor.rec \in Nat /\ got.recEnd \in Nat /\ cursor.rec <= got.recEnd /\ Len(recs) \in Nat
        /\ got.recEnd <= Len(recs) /\ total \in Nat /\ Len(recs) <= total
  BY <1>1 DEF RecsRight, CursorTyped, WorldTyped
<1>3. \A o \in got.loaded : o \in cursor.rec .. got.recEnd - 1 /\ o \in Nat
  BY <1>1, <1>2 DEF RecsRight
<1>4. \A o : o \in owed <=> o \in got.loaded /\ recs[o + 1] \in Candidates(got) \ shown
  BY DEF ValidOffsets
<1>5. /\ F \in owed \cup {got.recEnd} /\ \A i \in owed : F <= i
  <2>1. owed \cup {got.recEnd} \subseteq Nat /\ owed \cup {got.recEnd} # {}
    BY <1>2, <1>3, <1>4
  <2>2. PICK m \in owed \cup {got.recEnd} : \A i \in owed \cup {got.recEnd} : m <= i
    <3> HIDE DEF owed
    <3>1. QED
      BY <2>1, HasLowest
  <2>3. \E o \in owed \cup {got.recEnd} : \A i \in owed : o <= i
    BY <2>2
  <2>4. F = CHOOSE o \in owed \cup {got.recEnd} : \A i \in owed : o <= i
    BY DEF RecFrontier
  <2>5. QED
    <3> HIDE DEF owed, F
    <3>1. QED
      BY <2>3, <2>4
<1>6. F \in cursor.rec .. got.recEnd
  <2> HIDE DEF owed, F
  <2>1. QED
    BY <1>2, <1>3, <1>4, <1>5
<1>7. RecSpent(got, shown) <=> F >= got.recTotal
  BY DEF RecSpent
<1>8. "recommender" \notin bad /\ RecSpent(got, shown) => F = Len(recs) /\ F = got.recEnd
  <2>1. "recommender" \notin bad => got.recTotal = total
    BY <1>1 DEF RecsRight
  <2>2. QED
    <3> HIDE DEF F
    <3>1. QED
      BY <1>2, <1>6, <1>7, <2>1
<1>9. next.rec = F
  <2>1. next.rec = IF RecSpent(got, shown) THEN got.recEnd ELSE F
    BY DEF Paged, NextRec
  <2>2. CASE "recommender" \in bad
    <3>1. got.recEnd = cursor.rec
      BY <1>1, <2>2 DEF RecsRight
    <3> HIDE DEF F
    <3>2. QED
      BY <1>2, <1>6, <2>1, <3>1
  <2>3. CASE "recommender" \notin bad
    <3> HIDE DEF F
    <3>1. QED
      BY <1>8, <2>1, <2>3
  <2>4. QED
    BY <2>2, <2>3
<1>10. \A o \in cursor.rec .. F - 1 :
         o \in got.loaded /\ recs[o + 1] \in Candidates(got) => recs[o + 1] \in shown
  <2> HIDE DEF owed, F
  <2>1. QED
    BY <1>2, <1>4, <1>5, <1>6
<1>11. F = got.recEnd \/ (F \in got.loaded /\ recs[F + 1] \in Candidates(got) \ shown)
  <2> HIDE DEF owed, F
  <2>1. QED
    BY <1>4, <1>5
<1> DEFINE offsets == cursor.recSeen \cup {o \in ValidOffsets(got) : recs[o + 1] \in shown}
<1>12. next.recSeen = IF RecSpent(got, shown) THEN {} ELSE {o \in offsets : o >= F}
  BY DEF Paged, NextRecSeen
<1>13. \A o : o \in offsets <=>
         o \in cursor.recSeen \/ (o \in got.loaded /\ recs[o + 1] \in shown)
  BY <1>1 DEF ValidOffsets
<1>14. \A o \in next.recSeen :
         o \in cursor.recSeen \/ (o \in got.loaded /\ recs[o + 1] \in shown)
  <2> HIDE DEF offsets, F
  <2>1. QED
    BY <1>12, <1>13
<1>15. ASSUME "recommender" \notin bad, NEW o \in 0 .. Len(recs) - 1, o \in offsets
       PROVE  o < F \/ o \in next.recSeen
  <2> HIDE DEF offsets, F
  <2>1. QED
    BY <1>2, <1>6, <1>8, <1>12, <1>15
<1>16. QED
  <2> HIDE DEF offsets, owed, F
  <2>1. RecFrontier(got, shown) = F
    BY DEF F
  <2>2. QED
    BY <1>6, <1>8, <1>9, <1>10, <1>11, <1>13, <1>14, <1>15, <2>1 DEF RecMoved

TrendMoved(got, shown, next) ==
  /\ next.trend \in Nat \cup {NoPosition}
  /\ cursor.trend # NoPosition => next.trend # NoPosition /\ next.trend <= cursor.trend
  /\ next.trend # NoPosition =>
       \A p \in BelowTrend : next.trend <= Key(p) => p \in Consumed(got, shown)
  /\ \A p \in Consumed(got, shown) : next.trend # NoPosition /\ next.trend <= Key(p)
  /\ next.trend = NoPosition =>
       cursor.trend = NoPosition /\ got.window = {} /\ ~got.trendingFailed

LEMMA TrendMoves ==
  ASSUME WorldTyped, CursorTyped, NEW got, NEW bad, NEW shown, NEW next,
         Paged(got, bad, shown, next)
  PROVE  TrendMoved(got, shown, next)
<1> DEFINE C == Consumed(got, shown)
<1>1. /\ got.window \subseteq BelowTrend
      /\ \A p \in got.window : \A q \in BelowTrend : Key(p) <= Key(q) => q \in got.window
  BY DEF Paged, Gathered, TrendRight
<1>2. BelowTrend \subseteq Hot /\ \A p \in BelowTrend : cursor.trend = NoPosition \/ Key(p) < cursor.trend
  BY DEF BelowTrend
<1>3. /\ \A p \in Hot : Key(p) \in Nat /\ Key(p) < Sentinel
      /\ Sentinel \in Nat /\ NoPosition \notin Nat /\ cursor.trend \in Nat \cup {NoPosition}
  BY HotIs DEF CursorTyped, NoPosition
<1>4. C \subseteq got.window
  BY DEF Consumed
<1>5. next.trend =
        IF C # {} THEN CHOOSE k \in {Key(p) : p \in C} : \A p \in C : k <= Key(p)
        ELSE IF cursor.trend # NoPosition THEN cursor.trend
        ELSE IF got.window # {} \/ got.trendingFailed THEN Sentinel
        ELSE NoPosition
  BY DEF Paged, NextTrend
<1>6. CASE C # {}
  <2> DEFINE K == {Key(p) : p \in C}
  <2>1. K \subseteq Nat /\ K # {}
    <3>1. \A p \in C : Key(p) \in Nat
      BY <1>1, <1>2, <1>3, <1>4
    <3> HIDE DEF C
    <3>2. QED
      BY <1>6, <3>1
  <2>2. PICK k \in K : \A j \in K : k <= j
    <3> HIDE DEF K
    <3>1. QED
      BY <2>1, HasLowest
  <2>3. next.trend \in K /\ \A p \in C : next.trend <= Key(p)
    <3>1. \A p \in C : k <= Key(p)
      BY <2>2
    <3>2. next.trend = CHOOSE n \in K : \A p \in C : n <= Key(p)
      BY <1>5, <1>6
    <3> HIDE DEF K, C
    <3>3. QED
      BY <3>1, <3>2
  <2>4. PICK c \in C : next.trend = Key(c)
    BY <2>3
  <2>5. c \in got.window /\ c \in BelowTrend /\ c \in Hot /\ Key(c) \in Nat
    BY <1>1, <1>2, <1>3, <1>4
  <2>6. ASSUME NEW p \in BelowTrend, Key(c) <= Key(p) PROVE p \in C
    <3>1. p \in got.window /\ Key(p) \in Nat
      BY <1>1, <1>2, <1>3, <2>5, <2>6
    <3>2. \A q \in got.window : Key(q) >= Key(p) => Key(q) >= Key(c)
      BY <1>1, <1>2, <1>3, <2>5, <2>6, <3>1
    <3>3. \A q \in got.window : Key(q) >= Key(c) => q \in TrendServed(got, shown)
      BY DEF Consumed
    <3>4. QED
      BY <3>1, <3>2, <3>3 DEF Consumed
  <2>7. next.trend # NoPosition /\ next.trend \in Nat
    BY <1>3, <2>4, <2>5
  <2>8. cursor.trend # NoPosition => next.trend <= cursor.trend
    BY <1>2, <1>3, <2>4, <2>5
  <2>9. QED
    <3> HIDE DEF C, K
    <3>1. QED
      BY <2>3, <2>4, <2>6, <2>7, <2>8 DEF TrendMoved, C
<1>7. CASE C = {} /\ cursor.trend # NoPosition
  <2>1. next.trend = cursor.trend /\ cursor.trend \in Nat
    BY <1>3, <1>5, <1>7
  <2>2. \A p \in BelowTrend : ~(next.trend <= Key(p))
    BY <1>2, <1>3, <1>7, <2>1
  <2>3. QED
    BY <1>7, <2>1, <2>2 DEF TrendMoved
<1>8. CASE C = {} /\ cursor.trend = NoPosition /\ (got.window # {} \/ got.trendingFailed)
  <2>1. next.trend = Sentinel
    BY <1>5, <1>8
  <2>2. \A p \in BelowTrend : ~(next.trend <= Key(p))
    BY <1>2, <1>3, <2>1
  <2>3. QED
    BY <1>3, <1>8, <2>1, <2>2 DEF TrendMoved
<1>9. CASE C = {} /\ cursor.trend = NoPosition /\ got.window = {} /\ ~got.trendingFailed
  <2>1. next.trend = NoPosition
    BY <1>5, <1>9
  <2>2. QED
    BY <1>9, <2>1 DEF TrendMoved
<1>10. QED
  BY <1>6, <1>7, <1>8, <1>9

FolMoved(got, shown, next) ==
  /\ next.fol \in 1 .. Top /\ next.fol <= cursor.fol
  /\ \A p \in shown \cap got.followed : next.fol <= p
  /\ next.fol = cursor.fol \/ next.fol \in shown \cap got.followed

LEMMA FolMoves ==
  ASSUME WorldTyped, CursorTyped, NEW got, NEW bad, NEW shown, NEW next,
         Paged(got, bad, shown, next)
  PROVE  FolMoved(got, shown, next)
<1> DEFINE S == shown \cap got.followed
<1>1. S \subseteq Posts /\ \A p \in S : p < cursor.fol
  BY DEF Paged, Gathered, FollowedRight, WorldTyped
<1>2. next.fol = IF S = {} THEN cursor.fol ELSE CHOOSE p \in S : \A q \in S : p <= q
  BY DEF Paged, NextFollowing
<1>3. cursor.fol \in 1 .. Top /\ Top \in Nat /\ S \subseteq Nat \ {0}
  BY <1>1, TopAbove, PostsAssumption DEF CursorTyped
<1>4. CASE S = {}
  BY <1>2, <1>3, <1>4 DEF FolMoved
<1>5. CASE S # {}
  <2>1. S \subseteq Nat
    BY <1>3
  <2>2. \E p \in S : \A q \in S : p <= q
    <3> HIDE DEF S
    <3>1. QED
      BY <1>5, <2>1, HasLowest
  <2>3. next.fol \in S /\ \A q \in S : next.fol <= q
    <3> HIDE DEF S
    <3>1. QED
      BY <1>2, <1>5, <2>2
  <2>4. next.fol \in 1 .. Top /\ next.fol <= cursor.fol
    <3>1. next.fol < cursor.fol /\ next.fol \in Nat \ {0}
      <4> HIDE DEF S
      <4>1. QED
        BY <1>1, <1>3, <2>3
    <3>2. QED
      BY <1>3, <3>1
  <2>5. QED
    BY <2>3, <2>4 DEF FolMoved
<1>6. QED
  BY <1>4, <1>5

\* What the client has received after a page.
LEMMA ServedIs ==
  ASSUME NEW items, Serve(items)
  PROVE  /\ served' = served \cup items
         /\ \A r \in again' \ again : \E i \in items, s \in served :
              /\ i.post = s.post /\ r.post = i.post
              /\ r.first = s.source /\ r.then = i.source
BY DEF Serve

\* Every post of a page is charged to a source that offered it.
LEMMA ItemsAre ==
  ASSUME NEW got, NEW shown, shown \subseteq Candidates(got)
  PROVE  /\ \A i \in Items(got, shown) :
              \/ i.source = "following" /\ i.post \in shown \cap got.followed
              \/ i.source = "recommendation" /\ i.post \in shown \cap got.recommended
              \/ i.source = "trending" /\ i.post \in shown \cap Fresh(got)
         /\ \A p \in shown \cap got.followed : \E i \in Items(got, shown) : i.post = p /\ i.source = "following"
         /\ \A p \in shown \cap got.recommended :
              \E i \in Items(got, shown) : i.post = p /\ i.source = "recommendation"
         /\ \A p \in shown \cap Fresh(got) : \E i \in Items(got, shown) : i.post = p /\ i.source = "trending"
         /\ \A p \in shown : \E i \in Items(got, shown) : i.post = p
<1>1. shown \subseteq got.followed \cup got.recommended \cup Fresh(got)
  BY DEF Candidates
<1>2. \A i \in Items(got, shown) :
              \/ i.source = "following" /\ i.post \in shown \cap got.followed
              \/ i.source = "recommendation" /\ i.post \in shown \cap got.recommended
              \/ i.source = "trending" /\ i.post \in shown \cap Fresh(got)
  BY DEF Items
<1>3. \A p \in shown \cap got.followed : \E i \in Items(got, shown) : i.post = p /\ i.source = "following"
  <2>1. \A p \in shown \cap got.followed : [post |-> p, source |-> "following"] \in Items(got, shown)
    BY DEF Items
  <2>2. QED
    BY <2>1
<1>4. \A p \in shown \cap got.recommended :
        \E i \in Items(got, shown) : i.post = p /\ i.source = "recommendation"
  <2>1. \A p \in shown \cap got.recommended : [post |-> p, source |-> "recommendation"] \in Items(got, shown)
    BY DEF Items
  <2>2. QED
    BY <2>1
<1>5. \A p \in shown \cap Fresh(got) : \E i \in Items(got, shown) : i.post = p /\ i.source = "trending"
  <2>1. \A p \in shown \cap Fresh(got) : [post |-> p, source |-> "trending"] \in Items(got, shown)
    BY DEF Items
  <2>2. QED
    BY <2>1
<1>6. QED
  BY <1>1, <1>2, <1>3, <1>4, <1>5

ServedMore(got, shown) ==
  /\ Shown' = Shown \cup shown
  /\ From(served', "following") = From(served, "following") \cup (shown \cap got.followed)
  /\ From(served', "recommendation") =
       From(served, "recommendation") \cup (shown \cap got.recommended)
  /\ From(served', "trending") = From(served, "trending") \cup (shown \cap Fresh(got))
  /\ From(served', "discover") = From(served, "discover")
  /\ \A r \in again' \ again : r.then # "discover"
  /\ \A r \in again' \ again : r.first = r.then =>
       \/ r.then = "following" /\ r.post \in From(served, "following") \cap got.followed
       \/ /\ r.then = "recommendation"
          /\ r.post \in From(served, "recommendation") \cap got.recommended
       \/ r.then = "trending" /\ r.post \in From(served, "trending") \cap Fresh(got)

LEMMA PageServes ==
  ASSUME NEW got, NEW shown, shown \subseteq Candidates(got), Serve(Items(got, shown))
  PROVE  ServedMore(got, shown)
<1> DEFINE items == Items(got, shown)
<1>1. /\ served' = served \cup items
      /\ \A r \in again' \ again : \E i \in items, s \in served :
           /\ i.post = s.post /\ r.post = i.post
           /\ r.first = s.source /\ r.then = i.source
  BY ServedIs
<1>2. /\ \A i \in items :
           \/ i.source = "following" /\ i.post \in shown \cap got.followed
           \/ i.source = "recommendation" /\ i.post \in shown \cap got.recommended
           \/ i.source = "trending" /\ i.post \in shown \cap Fresh(got)
      /\ \A p \in shown \cap got.followed : \E i \in items : i.post = p /\ i.source = "following"
      /\ \A p \in shown \cap got.recommended :
           \E i \in items : i.post = p /\ i.source = "recommendation"
      /\ \A p \in shown \cap Fresh(got) : \E i \in items : i.post = p /\ i.source = "trending"
      /\ \A p \in shown : \E i \in items : i.post = p
  BY ItemsAre
<1> HIDE DEF items
<1>3. Shown' = Shown \cup shown
  <2>1. Shown' = {i.post : i \in served'}
    BY DEF Shown
  <2>2. QED
    BY <1>1, <1>2, <2>1 DEF Shown
<1>4. \A s : \A p : p \in From(served', s) <=> \E i \in served' : i.source = s /\ i.post = p
  BY DEF From
<1>5. \A s : \A p : p \in From(served, s) <=> \E i \in served : i.source = s /\ i.post = p
  BY DEF From
<1>6. From(served', "following") = From(served, "following") \cup (shown \cap got.followed)
  <2>1. ASSUME NEW p \in From(served', "following")
        PROVE  p \in From(served, "following") \cup (shown \cap got.followed)
    <3>1. PICK i \in served' : i.source = "following" /\ i.post = p
      BY <1>4, <2>1
    <3>2. QED
      BY <1>1, <1>2, <1>5, <3>1
  <2>2. ASSUME NEW p \in From(served, "following") \cup (shown \cap got.followed)
        PROVE  p \in From(served', "following")
    <3>1. \E i \in served' : i.source = "following" /\ i.post = p
      BY <1>1, <1>2, <1>5, <2>2
    <3>2. QED
      BY <1>4, <3>1
  <2>3. QED
    BY <2>1, <2>2
<1>7. From(served', "recommendation") =
        From(served, "recommendation") \cup (shown \cap got.recommended)
  <2>1. ASSUME NEW p \in From(served', "recommendation")
        PROVE  p \in From(served, "recommendation") \cup (shown \cap got.recommended)
    <3>1. PICK i \in served' : i.source = "recommendation" /\ i.post = p
      BY <1>4, <2>1
    <3>2. QED
      BY <1>1, <1>2, <1>5, <3>1
  <2>2. ASSUME NEW p \in From(served, "recommendation") \cup (shown \cap got.recommended)
        PROVE  p \in From(served', "recommendation")
    <3>1. \E i \in served' : i.source = "recommendation" /\ i.post = p
      BY <1>1, <1>2, <1>5, <2>2
    <3>2. QED
      BY <1>4, <3>1
  <2>3. QED
    BY <2>1, <2>2
<1>8. From(served', "trending") = From(served, "trending") \cup (shown \cap Fresh(got))
  <2>1. ASSUME NEW p \in From(served', "trending")
        PROVE  p \in From(served, "trending") \cup (shown \cap Fresh(got))
    <3>1. PICK i \in served' : i.source = "trending" /\ i.post = p
      BY <1>4, <2>1
    <3>2. QED
      BY <1>1, <1>2, <1>5, <3>1
  <2>2. ASSUME NEW p \in From(served, "trending") \cup (shown \cap Fresh(got))
        PROVE  p \in From(served', "trending")
    <3>1. \E i \in served' : i.source = "trending" /\ i.post = p
      BY <1>1, <1>2, <1>5, <2>2
    <3>2. QED
      BY <1>4, <3>1
  <2>3. QED
    BY <2>1, <2>2
<1>11. From(served', "discover") = From(served, "discover")
  <2>1. \A i \in items : i.source # "discover"
    BY <1>2
  <2>2. {x \in served' : x.source = "discover"} = {x \in served : x.source = "discover"}
    BY <1>1, <2>1
  <2>3. QED
    BY <2>2 DEF From
<1>9. ASSUME NEW r \in again' \ again
      PROVE  /\ r.then # "discover"
             /\ r.first = r.then =>
                  \/ r.then = "following" /\ r.post \in From(served, "following") \cap got.followed
                  \/ /\ r.then = "recommendation"
                     /\ r.post \in From(served, "recommendation") \cap got.recommended
                  \/ r.then = "trending" /\ r.post \in From(served, "trending") \cap Fresh(got)
  <2>1. PICK i \in items, s \in served :
          /\ i.post = s.post /\ r.post = i.post
          /\ r.first = s.source /\ r.then = i.source
    BY <1>1
  <2>2. \/ i.source = "following" /\ i.post \in shown \cap got.followed
        \/ i.source = "recommendation" /\ i.post \in shown \cap got.recommended
        \/ i.source = "trending" /\ i.post \in shown \cap Fresh(got)
    BY <1>2
  <2>3. r.first = r.then => r.post \in From(served, r.then)
    BY <1>5, <2>1
  <2>4. QED
    BY <2>1, <2>2, <2>3
<1>10. QED
  BY <1>3, <1>6, <1>7, <1>8, <1>9, <1>11 DEF ServedMore

\* The boundary is where the following source stopped.
LEMMA LowestOf ==
  ASSUME NEW F, F \subseteq Posts, NEW f, \A p \in F : f <= p, f = Top \/ f \in F
  PROVE  f = IF F = {} THEN Top ELSE CHOOSE p \in F : \A q \in F : p <= q
<1>1. CASE F = {}
  BY <1>1
<1>2. CASE F # {}
  <2>1. PICK p \in F : TRUE
    BY <1>2
  <2>2. p < Top /\ p \in Nat /\ Top \in Nat /\ f <= p
    BY <2>1, TopAbove, PostsAssumption
  <2>3. f \in F
    BY <2>2
  <2>4. \A x \in F : (\A q \in F : x <= q) => x = f
    BY <2>3, PostsAssumption
  <2>5. (CHOOSE x \in F : \A q \in F : x <= q) \in F
          /\ \A q \in F : (CHOOSE x \in F : \A y \in F : x <= y) <= q
    BY <2>3
  <2>6. QED
    BY <1>2, <2>4, <2>5
<1>3. QED
  BY <1>1, <1>2

LEMMA BoundaryIs ==
  ASSUME CursorTyped, AtMixed, FollowedDown PROVE Boundary = cursor.fol
<1>1. From(served, "following") \subseteq Posts
  BY DEF From, Shown, CursorTyped
<1>2. QED
  BY <1>1, LowestOf DEF FollowedDown, Boundary

-----------------------------------------------------------------------------
(* A page of discover.                                                     *)

DiscoverWent(position, seen, shown) ==
  /\ shown \subseteq public /\ \A p \in shown : p < position /\ p \notin seen
  /\ Shown' = Shown \cup shown
  /\ From(served', "following") = From(served, "following")
  /\ From(served', "discover") = From(served, "discover") \cup shown
  /\ \A r \in again' \ again :
       /\ r.then = "discover" /\ r.post \in Shown \cap shown
       /\ r.first = "discover" => r.post \in From(served, "discover")
  /\ \/ cursor' = NoCursor /\ \A p \in public : p < position => p \in shown \cup seen
     \/ \E last \in 1 .. Top : \E rest \in SUBSET seen :
          /\ cursor' = Discover(last, rest) /\ last < position
          /\ \A p \in shown : last <= p
          /\ \A p \in public : last <= p /\ p < position => p \in shown \cup seen
          /\ \A p \in seen : p < last => p \in rest

LEMMA DiscoverGoes ==
  ASSUME WorldTyped, NEW position \in 1 .. Top, NEW seen, seen \subseteq Posts,
         DiscoverPage(position, seen)
  PROVE  \E shown \in SUBSET Posts : DiscoverWent(position, seen, shown)
<1> DEFINE below == {p \in public : p < position}
           limit == PageSize + 1 + Cardinality(seen)
           rows == DiscoverRows(position, limit)
           unseen == rows \ seen
           shown == Newest(unseen, PageSize)
           last == CHOOSE p \in shown : \A q \in shown : p <= q
           items == {[post |-> p, source |-> "discover"] : p \in shown}
<1>1. /\ Serve(items)
      /\ cursor' = IF Cardinality(unseen) > PageSize
                     THEN Discover(last, seen \ Passed(rows, seen, shown)) ELSE NoCursor
  BY DEF DiscoverPage
<1>2. PageSize \in Nat \ {0} /\ Cardinality(seen) \in Nat /\ IsFiniteSet(seen) /\ limit \in Nat
  <2>1. IsFiniteSet(seen) /\ Cardinality(seen) \in Nat
    BY PostsAssumption, FS_Subset, FS_CardinalityType
  <2>2. QED
    BY <2>1, SizesAssumption
<1>3. below \subseteq Posts /\ below \subseteq Nat /\ IsFiniteSet(below)
  BY PostsAssumption, FS_Subset DEF WorldTyped
<1>4. /\ rows \subseteq below /\ IsFiniteSet(rows)
      /\ \A p \in rows : \A q \in below : p <= q => q \in rows
      /\ Cardinality(rows) < limit => rows = below
  <2>1. rows = Newest(below, limit)
    BY DEF DiscoverRows
  <2> HIDE DEF below, rows, limit
  <2>2. /\ Newest(below, limit) \subseteq below /\ IsFiniteSet(Newest(below, limit))
        /\ \A p \in Newest(below, limit) : \A q \in below : p <= q => q \in Newest(below, limit)
        /\ Cardinality(Newest(below, limit)) < limit => Newest(below, limit) = below
    BY <1>2, <1>3, NewestIs
  <2>3. QED
    BY <2>1, <2>2
<1>5. unseen \subseteq rows /\ IsFiniteSet(unseen) /\ unseen \subseteq Nat
        /\ Cardinality(unseen) \in Nat /\ Cardinality(rows) \in Nat
        /\ Cardinality(rows) <= Cardinality(unseen) + Cardinality(seen)
  <2> HIDE DEF below, rows, limit
  <2>1. IsFiniteSet(unseen) /\ Cardinality(unseen) = Cardinality(rows) - Cardinality(rows \cap seen)
    BY <1>4, FS_Difference
  <2>2. Cardinality(rows \cap seen) <= Cardinality(seen) /\ Cardinality(rows \cap seen) \in Nat
    <3>1. IsFiniteSet(rows \cap seen) /\ rows \cap seen \subseteq seen
      BY <1>4, FS_Intersection
    <3>2. QED
      BY <1>2, <3>1, FS_Subset, FS_CardinalityType
  <2>3. Cardinality(unseen) \in Nat /\ Cardinality(rows) \in Nat
    BY <1>4, <2>1, FS_CardinalityType
  <2>4. unseen \subseteq rows /\ unseen \subseteq Nat
    BY <1>3, <1>4
  <2>5. QED
    <3> HIDE DEF unseen
    <3>1. QED
      BY <1>2, <2>1, <2>2, <2>3, <2>4
<1>6. /\ shown \subseteq unseen /\ IsFiniteSet(shown)
      /\ \A p \in shown : \A q \in unseen : p <= q => q \in shown
      /\ Cardinality(unseen) <= PageSize => shown = unseen
      /\ Cardinality(shown) < PageSize => shown = unseen
  <2> HIDE DEF unseen
  <2>1. QED
    BY <1>2, <1>5, NewestIs
<1>7. shown \subseteq public /\ shown \subseteq Posts /\ \A p \in shown : p < position /\ p \notin seen
  BY <1>3, <1>4, <1>6
<1>8. /\ Shown' = Shown \cup shown
      /\ From(served', "following") = From(served, "following")
      /\ From(served', "discover") = From(served, "discover") \cup shown
      /\ \A r \in again' \ again :
           /\ r.then = "discover" /\ r.post \in Shown \cap shown
           /\ r.first = "discover" => r.post \in From(served, "discover")
  <2> HIDE DEF shown
  <2>1. \A i \in items : i.source = "discover" /\ i.post \in shown
    OBVIOUS
  <2>2. \A p \in shown : \E i \in items : i.post = p
    <3>1. \A p \in shown : [post |-> p, source |-> "discover"] \in items
      OBVIOUS
    <3>2. QED
      BY <3>1
  <2> HIDE DEF items
  <2>3. /\ served' = served \cup items
        /\ \A r \in again' \ again : \E i \in items, s \in served :
             /\ i.post = s.post /\ r.post = i.post
             /\ r.first = s.source /\ r.then = i.source
    BY <1>1, ServedIs
  <2>4. Shown' = Shown \cup shown
    <3>1. Shown' = {i.post : i \in served'}
      BY DEF Shown
    <3>2. QED
      BY <2>1, <2>2, <2>3, <3>1 DEF Shown
  <2>5. From(served', "following") = From(served, "following")
    <3>1. {x \in served' : x.source = "following"} = {x \in served : x.source = "following"}
      BY <2>1, <2>3
    <3>2. QED
      BY <3>1 DEF From
  <2>6. \A r \in again' \ again :
          /\ r.then = "discover" /\ r.post \in Shown \cap shown
          /\ r.first = "discover" => r.post \in From(served, "discover")
    BY <2>1, <2>3 DEF Shown, From
  <2>7. From(served', "discover") = From(served, "discover") \cup shown
    <3>1. \A p : p \in From(served', "discover") <=> \E i \in served' : i.source = "discover" /\ i.post = p
      BY DEF From
    <3>2. \A p : p \in From(served, "discover") <=> \E i \in served : i.source = "discover" /\ i.post = p
      BY DEF From
    <3>3. \A p \in From(served', "discover") : p \in From(served, "discover") \cup shown
      BY <2>1, <2>3, <3>1, <3>2
    <3>4. \A p \in From(served, "discover") \cup shown : p \in From(served', "discover")
      BY <2>1, <2>2, <2>3, <3>1, <3>2
    <3>5. QED
      BY <3>3, <3>4
  <2>8. QED
    BY <2>4, <2>5, <2>6, <2>7
<1>9. CASE Cardinality(unseen) <= PageSize
  <2>1. cursor' = NoCursor
    <3> HIDE DEF unseen
    <3>1. ~(Cardinality(unseen) > PageSize)
      BY <1>2, <1>5, <1>9
    <3>2. QED
      BY <1>1, <3>1
  <2>2. shown = unseen
    BY <1>6, <1>9
  <2>3. rows = below
    <3> HIDE DEF rows, below, unseen
    <3>1. Cardinality(rows) < limit
      BY <1>2, <1>5, <1>9
    <3>2. QED
      BY <1>4, <3>1
  <2>4. \A p \in public : p < position => p \in shown \cup seen
    BY <2>2, <2>3
  <2>5. QED
    <3> HIDE DEF shown
    <3>1. QED
      BY <1>7, <1>8, <2>1, <2>4 DEF DiscoverWent
<1>10. CASE Cardinality(unseen) > PageSize
  <2> DEFINE rest == seen \ Passed(rows, seen, shown)
  <2>1. shown # {}
    <3>1. ASSUME shown = {} PROVE FALSE
      <4>1. Cardinality(shown) = 0
        BY <3>1, FS_EmptySet
      <4>2. unseen = {}
        <5> HIDE DEF shown, unseen
        <5>1. QED
          BY <1>2, <1>6, <3>1, <4>1
      <4>3. Cardinality(unseen) = 0
        BY <4>2, FS_EmptySet
      <4>4. QED
        <5> HIDE DEF unseen
        <5>1. QED
          BY <1>2, <1>10, <4>3
    <3>2. QED
      BY <3>1
  <2>2. last \in shown /\ \A q \in shown : last <= q
    <3>1. shown \subseteq Nat
      BY <1>5, <1>6
    <3>2. \E p \in shown : \A q \in shown : p <= q
      <4> HIDE DEF shown
      <4>1. QED
        BY <2>1, <3>1, HasLowest
    <3> HIDE DEF shown
    <3>3. QED
      BY <3>2
  <2>3. last \in 1 .. Top /\ last < position
    <3>1. last \in Posts /\ last < position
      <4> HIDE DEF last, shown
      <4>1. QED
        BY <1>7, <2>2
    <3> HIDE DEF last
    <3>2. QED
      BY <3>1, TopAbove, PostsAssumption
  <2>4. cursor' = Discover(last, rest)
    BY <1>1, <1>10
  <2>5. ASSUME NEW p \in public, last <= p, p < position PROVE p \in shown \cup seen
    <3>1. last \in rows /\ last \in unseen
      <4> HIDE DEF last, shown, rows
      <4>1. QED
        BY <1>6, <2>2
    <3>2. p \in below
      BY <2>5
    <3>3. p \in rows
      <4> HIDE DEF last, rows, below
      <4>1. QED
        BY <1>4, <2>5, <3>1, <3>2
    <3>4. p \in seen \/ p \in unseen
      BY <3>3
    <3>5. QED
      <4> HIDE DEF last, unseen, shown
      <4>1. QED
        BY <1>6, <2>2, <2>5, <3>4
  <2>6. ASSUME NEW p \in seen, p < last PROVE p \in rest
    <3>1. SUFFICES p \notin Passed(rows, seen, shown)
      OBVIOUS
    <3> DEFINE higher == {q \in rows \ seen : q > p}
    <3>2. shown \subseteq higher
      <4>1. \A q \in shown : q \in unseen /\ q \in Nat /\ last <= q
        BY <1>5, <1>6, <2>2
      <4>2. last \in Nat /\ p \in Nat
        BY <2>3, PostsAssumption, TopAbove
      <4> HIDE DEF shown, last
      <4>3. \A q \in shown : q > p
        BY <2>6, <4>1, <4>2
      <4>4. QED
        BY <4>1, <4>3
    <3>3. IsFiniteSet(higher) /\ Cardinality(higher) \in Nat /\ Cardinality(shown) <= Cardinality(higher)
            /\ Cardinality(shown) \in Nat
      <4>1. higher \subseteq unseen
        OBVIOUS
      <4> HIDE DEF shown, higher, unseen
      <4>2. QED
        BY <1>5, <1>6, <3>2, <4>1, FS_Subset, FS_CardinalityType
    <3>4. ~(Cardinality(higher) < Cardinality(shown))
      <4> HIDE DEF shown, higher
      <4>1. QED
        BY <3>3
    <3>5. QED
      BY <3>4 DEF Passed
  <2>7. rest \in SUBSET seen
    OBVIOUS
  <2>8. QED
    <3> HIDE DEF shown, last, rest
    <3>1. QED
      BY <1>7, <1>8, <2>2, <2>3, <2>4, <2>5, <2>6, <2>7 DEF DiscoverWent
<1>11. QED
  <2> HIDE DEF unseen
  <2>1. Cardinality(unseen) <= PageSize \/ Cardinality(unseen) > PageSize
    BY <1>2, <1>5
  <2>2. QED
    BY <1>9, <1>10, <2>1

-----------------------------------------------------------------------------
(* A mixed page.                                                           *)

WorldSame == UNCHANGED <<following, own, public, likes, recs, total, rebuilds>>

MixStep(got, bad, shown, next) ==
  /\ AtMixed /\ Validate(cursor) /\ WorldSame
  /\ missed' = missed /\ failed' = failed \cup bad
  /\ shown # {} /\ shown \subseteq Posts
  /\ Paged(got, bad, shown, next)
  /\ RecMoved(got, bad, shown, next)
  /\ TrendMoved(got, shown, next)
  /\ FolMoved(got, shown, next)
  /\ ServedMore(got, shown)
  /\ dropped' = dropped \cup Dropped(got, shown, next)
  /\ \/ cursor' = next
     \/ /\ cursor' = NoCursor
        /\ \/ ~HasContinuation(next)
           \/ SourcesDry(got, shown) /\ ~DiscoverHasMore(next.fol, next.discSeen, bad)

LEMMA CandidatesArePosts ==
  ASSUME WorldTyped, NEW got, NEW bad, Gathered(got, bad)
  PROVE  Candidates(got) \subseteq Posts /\ got.window \subseteq Posts
<1>1. got.followed \subseteq Posts
  BY DEF Gathered, FollowedRight, WorldTyped
<1>2. got.recommended \subseteq Posts
  BY DEF Gathered, RecsRight, WorldTyped
<1>3. got.window \subseteq Posts
  BY DEF Gathered, TrendRight, BelowTrend, Hot
<1>4. QED
  BY <1>1, <1>2, <1>3 DEF Candidates, Fresh

LEMMA MixIs ==
  ASSUME WorldTyped, CursorTyped, AtMixed, Validate(cursor), WorldSame,
         NEW bad, failed' = failed \cup bad, NEW got, got = Collect(bad), Mix(got, bad)
  PROVE  \E shown, next : MixStep(got, bad, shown, next)
<1>1. PICK shown \in Ranked(Candidates(got)) :
        /\ shown # {}
        /\ Serve(Items(got, shown))
        /\ \E next \in NextCursor(got, shown) :
             /\ dropped' = dropped \cup Dropped(got, shown, next)
             /\ IF \/ ~HasContinuation(next)
                   \/ /\ SourcesDry(got, shown)
                      /\ ~DiscoverHasMore(next.fol, next.discSeen, bad)
                  THEN cursor' = NoCursor
                  ELSE cursor' = next
        /\ UNCHANGED missed
  BY DEF Mix
<1>2. PICK next \in NextCursor(got, shown) :
        /\ dropped' = dropped \cup Dropped(got, shown, next)
        /\ IF \/ ~HasContinuation(next)
              \/ /\ SourcesDry(got, shown)
                 /\ ~DiscoverHasMore(next.fol, next.discSeen, bad)
             THEN cursor' = NoCursor
             ELSE cursor' = next
  BY <1>1
<1>3. Gathered(got, bad)
  BY AllGathered
<1>4. Paged(got, bad, shown, next)
  BY <1>3, PageIs
<1>5. RecMoved(got, bad, shown, next) /\ TrendMoved(got, shown, next) /\ FolMoved(got, shown, next)
  BY <1>4, RecMoves, TrendMoves, FolMoves
<1>6. shown \subseteq Candidates(got)
  BY <1>4 DEF Paged
<1>7. ServedMore(got, shown)
  BY <1>1, <1>6, PageServes
<1>8. shown \subseteq Posts
  BY <1>3, <1>6, CandidatesArePosts
<1>9. \/ cursor' = next
      \/ /\ cursor' = NoCursor
         /\ \/ ~HasContinuation(next)
            \/ SourcesDry(got, shown) /\ ~DiscoverHasMore(next.fol, next.discSeen, bad)
  BY <1>2
<1>10. QED
  BY <1>1, <1>2, <1>4, <1>5, <1>7, <1>8, <1>9 DEF MixStep

\* What the trending list carries was served.
LEMMA CarriedServed ==
  ASSUME NEW got, NEW bad, NEW shown, NEW next, Paged(got, bad, shown, next)
  PROVE  /\ next.trendSeen \subseteq cursor.trendSeen \cup (shown \cap got.window)
         /\ next.discSeen \subseteq cursor.discSeen \cup shown
<1>1. next.trendSeen \subseteq Ragged(got, shown)
  BY DEF Paged, TrendKept
<1>2. Ragged(got, shown) \subseteq cursor.trendSeen \cup (shown \cap got.window)
  BY DEF Ragged, TrendServed
<1>3. next.discSeen \subseteq cursor.discSeen \cup shown
  BY DEF Paged, ReachableByDiscover
<1>4. QED
  BY <1>1, <1>2, <1>3

LEMMA MixTyped ==
  ASSUME WorldTyped, CursorTyped, NEW got, NEW bad, NEW shown, NEW next,
         MixStep(got, bad, shown, next)
  PROVE  CursorTyped'
<1>1. Shown' \subseteq Posts
  BY DEF MixStep, ServedMore, CursorTyped
<1>2. CASE cursor' = NoCursor
  <2>1. /\ cursor'.at = "end" /\ cursor'.rec = 0 /\ cursor'.recSeen = {}
        /\ cursor'.trend = NoPosition /\ cursor'.trendSeen = {}
        /\ cursor'.fol = Top /\ cursor'.disc = Top /\ cursor'.discSeen = {}
    BY <1>2 DEF NoCursor, FirstPage
  <2>2. Top \in 1 .. Top /\ recs' = recs /\ Len(recs) \in Nat
    BY TopAbove DEF MixStep, WorldSame, WorldTyped
  <2>3. QED
    BY <1>1, <2>1, <2>2 DEF CursorTyped
<1>3. CASE cursor' = next
  <2>1. /\ next.rec \in 0 .. Len(recs) /\ next.recSeen \subseteq 0 .. Len(recs) - 1
    <3>1. /\ next.rec \in cursor.rec .. got.recEnd
          /\ \A o \in next.recSeen :
               o \in cursor.recSeen \/ (o \in got.loaded /\ recs[o + 1] \in shown)
      BY DEF MixStep, RecMoved
    <3>2. /\ got.recEnd \in cursor.rec .. Len(recs)
          /\ \A o \in got.loaded : o \in cursor.rec .. got.recEnd - 1
      BY DEF MixStep, Paged, Gathered, RecsRight
    <3>3. cursor.rec \in 0 .. Len(recs) /\ cursor.recSeen \subseteq 0 .. Len(recs) - 1 /\ Len(recs) \in Nat
      BY DEF CursorTyped, WorldTyped
    <3>4. QED
      BY <3>1, <3>2, <3>3
  <2>2. next.trend \in Nat \cup {NoPosition}
    BY DEF MixStep, TrendMoved
  <2>3. next.trendSeen \subseteq Posts /\ next.discSeen \subseteq Posts
    BY CarriedServed DEF MixStep, CursorTyped
  <2>4. next.fol \in 1 .. Top /\ next.disc \in 1 .. Top /\ next.at = "mixed"
    BY TopAbove DEF MixStep, FolMoved, Paged
  <2>5. recs' = recs
    BY DEF MixStep, WorldSame
  <2>6. QED
    BY <1>1, <1>3, <2>1, <2>2, <2>3, <2>4, <2>5 DEF CursorTyped
<1>4. QED
  BY <1>2, <1>3 DEF MixStep

\* What the next cursor carries, and how far its following position is.
LEMMA NextCarries ==
  ASSUME WorldTyped, CursorTyped, SeenServed, DiscoverCarried, FollowedDown,
         NEW got, NEW bad, NEW shown, NEW next, MixStep(got, bad, shown, next)
  PROVE  /\ next.discSeen \subseteq Shown' /\ next.trendSeen \subseteq Shown'
         /\ \A o \in next.recSeen : recs[o + 1] \in Shown'
         /\ \A p \in Shown' : p < next.fol => p \in next.discSeen \cup dropped'
         /\ \A p \in From(served', "following") : next.fol <= p
         /\ next.fol = Top \/ next.fol \in From(served', "following")
<1>1. /\ Shown' = Shown \cup shown /\ AtMixed
      /\ From(served', "following") = From(served, "following") \cup (shown \cap got.followed)
  BY DEF MixStep, ServedMore
<1>2. /\ cursor.discSeen \subseteq Shown /\ cursor.trendSeen \subseteq Shown
      /\ \A o \in cursor.recSeen : recs[o + 1] \in Shown
  BY <1>1 DEF SeenServed
<1>3. /\ next.trendSeen \subseteq cursor.trendSeen \cup (shown \cap got.window)
      /\ next.discSeen \subseteq cursor.discSeen \cup shown
  BY CarriedServed DEF MixStep
<1>4. \A o \in next.recSeen : recs[o + 1] \in Shown'
  BY <1>1, <1>2 DEF MixStep, RecMoved
<1>5. /\ next.fol \in 1 .. Top /\ next.fol <= cursor.fol /\ cursor.fol \in 1 .. Top
      /\ \A p \in shown \cap got.followed : next.fol <= p
      /\ next.fol = cursor.fol \/ next.fol \in shown \cap got.followed
  BY DEF MixStep, FolMoved, CursorTyped
<1>6. Top \in Nat /\ Shown' \subseteq Nat /\ From(served, "following") \subseteq Nat
  <2>1. Shown' \subseteq Posts /\ From(served, "following") \subseteq Shown
    BY <1>1 DEF MixStep, CursorTyped, Shown, From
  <2>2. QED
    BY <1>1, <2>1, TopAbove, PostsAssumption
<1>7. ASSUME NEW p \in Shown', p < next.fol PROVE p \in next.discSeen \cup dropped'
  <2>1. p < cursor.fol
    BY <1>5, <1>6, <1>7
  <2>2. p \in cursor.discSeen \cup dropped \cup shown
    BY <1>1, <2>1 DEF DiscoverCarried
  <2>3. p \in dropped \/ p \in ReachableByDiscover(shown, next.fol)
    BY <1>7, <2>2 DEF ReachableByDiscover
  <2>4. QED
    BY <2>3 DEF MixStep, Dropped
<1>8. \A p \in From(served', "following") : next.fol <= p
  <2>1. \A p \in From(served, "following") : cursor.fol <= p
    BY <1>1 DEF FollowedDown
  <2>2. QED
    BY <1>1, <1>5, <1>6, <2>1
<1>9. next.fol = Top \/ next.fol \in From(served', "following")
  BY <1>1, <1>5 DEF FollowedDown
<1>10. QED
  BY <1>1, <1>2, <1>3, <1>4, <1>7, <1>8, <1>9

\* A recommendation is at one place of the provider's list.
LEMMA OnePlace ==
  ASSUME WorldTyped, NEW i \in 0 .. Len(recs) - 1, NEW j \in 0 .. Len(recs) - 1,
         recs[i + 1] = recs[j + 1], recs[i + 1] \in public
  PROVE  i = j
<1>1. recs[i + 1] # Junk
  BY PostsAssumption DEF WorldTyped, Junk
<1>2. Len(recs) \in Nat /\ DOMAIN recs = 1 .. Len(recs)
  BY DEF WorldTyped
<1>3. i + 1 \in DOMAIN recs /\ j + 1 \in DOMAIN recs
  BY <1>2
<1>4. i + 1 = j + 1
  BY <1>1, <1>3 DEF WorldTyped
<1>5. QED
  BY <1>4

LEMMA NextRecommends ==
  ASSUME WorldTyped, CursorTyped, SeenServed, RecAccounted, RecStepped,
         NEW got, NEW bad, NEW shown, NEW next, MixStep(got, bad, shown, next)
  PROVE  /\ "recommender" \notin failed' =>
              \A o \in 0 .. Len(recs) - 1 :
                recs[o + 1] \in From(served', "recommendation")
                  => o < next.rec \/ o \in next.recSeen
         /\ \A o \in 0 .. next.rec - 1 : recs[o + 1] \in public \ own => recs[o + 1] \in Shown'
         /\ From(served, "recommendation") \cap got.recommended # {} => "recommender" \in failed
<1>1. /\ Shown' = Shown \cup shown /\ AtMixed /\ failed' = failed \cup bad
      /\ From(served', "recommendation") =
           From(served, "recommendation") \cup (shown \cap got.recommended)
  BY DEF MixStep, ServedMore
<1>2. /\ got.recEnd \in cursor.rec .. Len(recs) /\ cursor.rec \in 0 .. Len(recs) /\ Len(recs) \in Nat
      /\ \A o : o \in got.loaded <=>
                  /\ o \in cursor.rec .. got.recEnd - 1
                  /\ o \notin cursor.recSeen /\ recs[o + 1] \in public
      /\ \A p : p \in got.recommended <=> \E o \in got.loaded : recs[o + 1] = p
  BY DEF MixStep, Paged, Gathered, RecsRight, CursorTyped, WorldTyped
<1>3. RecMoved(got, bad, shown, next)
  BY DEF MixStep
<1>4. next.rec \in cursor.rec .. got.recEnd
  BY <1>3 DEF RecMoved
<1>5. ASSUME "recommender" \notin failed', NEW o \in 0 .. Len(recs) - 1,
             recs[o + 1] \in From(served', "recommendation")
      PROVE  o < next.rec \/ o \in next.recSeen
  <2>1. "recommender" \notin failed /\ "recommender" \notin bad
    BY <1>1, <1>5
  <2>2. CASE recs[o + 1] \in From(served, "recommendation")
    <3>1. o < cursor.rec \/ o \in cursor.recSeen
      BY <1>1, <2>1, <2>2 DEF RecAccounted
    <3>2. o < cursor.rec => o < next.rec
      BY <1>2, <1>4
    <3>3. o \in cursor.recSeen => o < next.rec \/ o \in next.recSeen
      BY <1>3, <2>1 DEF RecMoved
    <3>4. QED
      BY <3>1, <3>2, <3>3
  <2>3. CASE recs[o + 1] \in shown \cap got.recommended
    <3>1. PICK i \in got.loaded : recs[i + 1] = recs[o + 1]
      BY <1>2, <2>3
    <3>2. i \in 0 .. Len(recs) - 1 /\ recs[i + 1] \in public
      BY <1>2
    <3>3. i = o
      BY <3>1, <3>2, OnePlace
    <3>4. QED
      BY <1>3, <2>1, <2>3, <3>3 DEF RecMoved
  <2>4. QED
    BY <1>1, <1>5, <2>2, <2>3
<1>6. ASSUME NEW o \in 0 .. next.rec - 1, recs[o + 1] \in public \ own PROVE recs[o + 1] \in Shown'
  <2>1. CASE o < cursor.rec
    <3>1. o \in 0 .. cursor.rec - 1
      BY <1>2, <1>4, <2>1
    <3>2. QED
      BY <1>1, <1>6, <3>1 DEF RecStepped
  <2>2. CASE ~(o < cursor.rec)
    <3>1. o \in cursor.rec .. next.rec - 1 /\ o \in cursor.rec .. got.recEnd - 1
      BY <1>2, <1>4, <2>2
    <3>2. CASE o \in cursor.recSeen
      BY <1>1, <3>2 DEF SeenServed
    <3>3. CASE o \notin cursor.recSeen
      <4>1. o \in got.loaded /\ recs[o + 1] \in got.recommended
        BY <1>2, <1>6, <3>1, <3>3
      <4>2. recs[o + 1] \in Candidates(got)
        BY <1>6, <4>1 DEF Candidates
      <4>3. recs[o + 1] \in shown
        BY <1>3, <3>1, <4>1, <4>2 DEF RecMoved
      <4>4. QED
        BY <1>1, <4>3
    <3>4. QED
      BY <3>2, <3>3
  <2>3. QED
    BY <2>1, <2>2
<1>7. ASSUME NEW p \in From(served, "recommendation") \cap got.recommended, "recommender" \notin failed
      PROVE  FALSE
  <2>1. PICK o \in got.loaded : recs[o + 1] = p
    BY <1>2
  <2>2. o \in 0 .. Len(recs) - 1 /\ ~(o < cursor.rec) /\ o \notin cursor.recSeen
    BY <1>2
  <2>3. QED
    BY <1>1, <1>7, <2>1, <2>2 DEF RecAccounted
<1>8. QED
  BY <1>5, <1>6, <1>7

LEMMA NextTrends ==
  ASSUME WorldTyped, CursorTyped, SeenServed, TrendAccounted, TrendStepped, rebuilds = 0,
         NEW got, NEW bad, NEW shown, NEW next, MixStep(got, bad, shown, next)
  PROVE  /\ \A p \in From(served', "trending") \ dropped' :
              /\ p \in Hot
              /\ p \in next.trendSeen \/ (next.trend # NoPosition /\ next.trend <= Key(p))
         /\ next.trend # NoPosition => \A p \in Hot : next.trend <= Key(p) => p \in Shown'
         /\ failed' = {} /\ next.trend = NoPosition => Hot = {}
         /\ From(served, "trending") \cap Fresh(got) \subseteq dropped
         /\ Consumed(got, shown) \subseteq Shown'
<1>1. /\ Shown' = Shown \cup shown /\ AtMixed /\ Validate(cursor) /\ failed' = failed \cup bad
      /\ From(served', "trending") = From(served, "trending") \cup (shown \cap Fresh(got))
      /\ dropped' = dropped \cup Dropped(got, shown, next)
  BY DEF MixStep, ServedMore
<1>2. TrendRight(got, bad) /\ TrendMoved(got, shown, next)
  BY DEF MixStep, Paged, Gathered
<1>3. got.window \subseteq BelowTrend /\ BelowTrend \subseteq Hot
  BY <1>2 DEF TrendRight, BelowTrend
<1>4. /\ \A p \in Hot : Key(p) \in Nat
      /\ cursor.trend \in Nat \cup {NoPosition} /\ next.trend \in Nat \cup {NoPosition}
  BY <1>2, HotIs DEF CursorTyped, TrendMoved
<1>5. ASSUME NEW p \in TrendServed(got, shown), p \notin dropped', next.trend # NoPosition,
             p \in got.window \/ got.truncated \/ got.trendingFailed
      PROVE  p \in next.trendSeen \/ next.trend <= Key(p)
  <2>1. CASE p \in Consumed(got, shown)
    BY <1>2, <2>1 DEF TrendMoved
  <2>2. CASE p \notin Consumed(got, shown)
    <3>1. p \in Ragged(got, shown)
      BY <1>5, <2>2 DEF Ragged
    <3>2. p \in TrendKept(got, Ragged(got, shown))
      BY <1>1, <1>5, <3>1 DEF Dropped
    <3>3. QED
      BY <1>5, <3>2 DEF MixStep, Paged
  <2>3. QED
    BY <2>1, <2>2
<1>6. \A p \in Hot : p \in BelowTrend \/ (cursor.trend # NoPosition /\ cursor.trend <= Key(p))
  <2> SUFFICES ASSUME NEW p \in Hot, p \notin BelowTrend
               PROVE  cursor.trend # NoPosition /\ cursor.trend <= Key(p)
    OBVIOUS
  <2>1. cursor.trend # NoPosition /\ ~(Key(p) < cursor.trend)
    BY DEF BelowTrend, Hot
  <2>2. QED
    BY <1>4, <2>1
<1>7. \A p \in Hot : cursor.trend # NoPosition /\ cursor.trend <= Key(p) =>
                       next.trend # NoPosition /\ next.trend <= Key(p)
  <2> SUFFICES ASSUME NEW p \in Hot, cursor.trend # NoPosition, cursor.trend <= Key(p)
               PROVE  next.trend # NoPosition /\ next.trend <= Key(p)
    OBVIOUS
  <2>1. next.trend # NoPosition /\ next.trend <= cursor.trend
    BY <1>2 DEF TrendMoved
  <2>2. QED
    BY <1>4, <2>1
<1>8. ASSUME NEW p \in From(served', "trending") \ dropped'
      PROVE  /\ p \in Hot
             /\ p \in next.trendSeen \/ (next.trend # NoPosition /\ next.trend <= Key(p))
  <2>1. p \notin dropped
    BY <1>1, <1>8
  <2>2. CASE p \in shown \cap Fresh(got)
    <3>1. p \in got.window /\ p \in TrendServed(got, shown) /\ p \in Hot
      BY <1>3, <2>2 DEF Fresh, TrendServed
    <3>2. next.trend # NoPosition
      BY <1>2, <3>1 DEF TrendMoved
    <3>3. QED
      BY <1>5, <1>8, <3>1, <3>2
  <2>3. CASE p \in From(served, "trending")
    <3>1. /\ p \in Hot
          /\ p \in cursor.trendSeen \/ (cursor.trend # NoPosition /\ cursor.trend <= Key(p))
      BY <1>1, <2>1, <2>3 DEF TrendAccounted
    <3>2. CASE cursor.trend # NoPosition /\ cursor.trend <= Key(p)
      BY <1>7, <3>1, <3>2
    <3>3. CASE p \in cursor.trendSeen
      <4>1. cursor.trend # NoPosition /\ TrendingAsked /\ next.trend # NoPosition
        BY <1>1, <1>2, <3>3 DEF Validate, TrendingAsked, TrendMoved
      <4>2. CASE p \in got.window \/ got.truncated \/ got.trendingFailed
        <5>1. p \in TrendServed(got, shown)
          BY <3>3 DEF TrendServed
        <5>2. QED
          BY <1>5, <1>8, <3>1, <4>1, <4>2, <5>1
      <4>3. CASE ~(p \in got.window \/ got.truncated \/ got.trendingFailed)
        <5>1. "trending" \notin bad
          BY <1>2, <4>1, <4>3 DEF TrendRight
        <5>2. got.window = BelowTrend
          BY <1>2, <4>1, <4>3, <5>1 DEF TrendRight
        <5>3. QED
          BY <1>6, <1>7, <3>1, <4>3, <5>2
      <4>4. QED
        BY <4>2, <4>3
    <3>4. QED
      BY <3>1, <3>2, <3>3
  <2>4. QED
    BY <1>1, <1>8, <2>2, <2>3
<1>9. Consumed(got, shown) \subseteq Shown'
  <2>1. Consumed(got, shown) \subseteq TrendServed(got, shown)
    <3> SUFFICES ASSUME NEW p \in Consumed(got, shown) PROVE p \in TrendServed(got, shown)
      OBVIOUS
    <3>1. p \in got.window /\ \A q \in got.window : Key(q) >= Key(p) => q \in TrendServed(got, shown)
      BY DEF Consumed
    <3>2. Key(p) \in Nat
      BY <1>3, <1>4, <3>1
    <3>3. QED
      BY <3>1, <3>2
  <2>2. TrendServed(got, shown) \subseteq Shown'
    BY <1>1 DEF TrendServed, SeenServed
  <2>3. QED
    BY <2>1, <2>2
<1>10. ASSUME next.trend # NoPosition, NEW p \in Hot, next.trend <= Key(p) PROVE p \in Shown'
  <2>1. CASE p \in BelowTrend
    BY <1>2, <1>9, <1>10, <2>1 DEF TrendMoved
  <2>2. CASE cursor.trend # NoPosition /\ cursor.trend <= Key(p)
    BY <1>1, <2>2 DEF TrendStepped
  <2>3. QED
    BY <1>6, <2>1, <2>2
<1>11. ASSUME failed' = {}, next.trend = NoPosition PROVE Hot = {}
  <2>1. cursor.trend = NoPosition /\ got.window = {} /\ failed = {} /\ bad = {}
    BY <1>1, <1>2, <1>11 DEF TrendMoved
  <2>2. CASE cursor.at = "mixed"
    BY <1>1, <2>1, <2>2 DEF TrendStepped
  <2>3. CASE cursor.at = "start"
    <3>1. BelowTrend = {}
      BY <1>2, <2>1, <2>3 DEF TrendRight, TrendingAsked
    <3>2. QED
      BY <2>1, <3>1 DEF BelowTrend
  <2>4. QED
    BY <1>1, <2>2, <2>3 DEF AtMixed
<1>12. ASSUME NEW p \in From(served, "trending") \cap Fresh(got) PROVE p \in dropped
  <2>1. p \in BelowTrend /\ p \notin cursor.trendSeen /\ p \in Hot
    BY <1>3 DEF Fresh
  <2>2. cursor.trend # NoPosition => ~(cursor.trend <= Key(p))
    <3>1. cursor.trend # NoPosition => Key(p) < cursor.trend
      BY <2>1 DEF BelowTrend
    <3>2. QED
      BY <1>4, <2>1, <3>1
  <2>3. QED
    BY <1>1, <2>1, <2>2 DEF TrendAccounted
<1>13. QED
  BY <1>8, <1>9, <1>10, <1>11, <1>12

\* A page always leaves a position behind.  If neither following nor trending
\* has one, it shows recommendations only; if the frontier stays at 0, the first
\* of them was outranked, so the page is full, and the rest of the window is too
\* few to fill it.
LEMMA PageContinues ==
  ASSUME WorldTyped, CursorTyped,
         NEW got, NEW bad, NEW shown, NEW next, MixStep(got, bad, shown, next)
  PROVE  HasContinuation(next)
<1> SUFFICES ASSUME ~HasContinuation(next) PROVE FALSE
  OBVIOUS
<1>1. /\ got.recEnd \in cursor.rec .. Len(recs) /\ got.recEnd <= cursor.rec + PageSize
      /\ \A o : o \in got.loaded <=>
                  /\ o \in cursor.rec .. got.recEnd - 1
                  /\ o \notin cursor.recSeen /\ recs[o + 1] \in public
      /\ \A p : p \in got.recommended <=> \E o \in got.loaded : recs[o + 1] = p
      /\ cursor.rec \in 0 .. Len(recs) /\ Len(recs) \in Nat
  BY DEF MixStep, Paged, Gathered, RecsRight, CursorTyped, WorldTyped
<1>2. next.rec \in cursor.rec .. got.recEnd /\ next.rec = 0 /\ cursor.rec = 0
  <2>1. next.rec \in cursor.rec .. got.recEnd
    BY DEF MixStep, RecMoved
  <2>2. ~(next.rec > 0)
    BY DEF HasContinuation
  <2>3. QED
    BY <1>1, <2>1, <2>2
<1>3. shown \cap got.followed = {}
  <2> SUFFICES ASSUME NEW p \in shown \cap got.followed PROVE FALSE
    OBVIOUS
  <2>1. next.fol <= p /\ next.fol = Top /\ p \in Posts
    BY DEF MixStep, FolMoved, HasContinuation
  <2>2. QED
    BY <2>1, TopAbove, PostsAssumption
<1>4. got.window = {}
  BY DEF MixStep, TrendMoved, HasContinuation
<1>5. shown \subseteq got.recommended /\ shown \subseteq Candidates(got) /\ shown # {}
  BY <1>3, <1>4 DEF MixStep, Paged, Candidates, Fresh
<1>6. PICK o \in got.loaded : recs[o + 1] \in shown
  BY <1>1, <1>5
<1>7. recs[next.rec + 1] \in Candidates(got) \ shown
  <2>1. next.rec # got.recEnd
    BY <1>1, <1>2, <1>6
  <2>2. QED
    BY <2>1 DEF MixStep, RecMoved
<1> DEFINE offsets == 1 .. got.recEnd - 1
           posts_of == {recs[i + 1] : i \in offsets}
           place == [i \in offsets |-> recs[i + 1]]
<1>8. shown \subseteq posts_of
  <2> SUFFICES ASSUME NEW p \in shown PROVE p \in posts_of
    OBVIOUS
  <2>1. PICK i \in got.loaded : recs[i + 1] = p
    BY <1>1, <1>5
  <2>2. i \in 0 .. got.recEnd - 1 /\ i # 0
    BY <1>1, <1>2, <1>7, <2>1
  <2>3. i \in offsets
    BY <1>1, <2>2
  <2>4. QED
    BY <2>1, <2>3
<1>9. IsFiniteSet(offsets) /\ Cardinality(offsets) = got.recEnd - 1 /\ got.recEnd \in Nat
        /\ got.recEnd <= PageSize /\ got.recEnd >= 1
  <2>1. got.recEnd \in Nat /\ got.recEnd <= PageSize /\ got.recEnd >= 1
    BY <1>1, <1>2, <1>6, SizesAssumption
  <2>2. /\ IsFiniteSet(offsets)
        /\ Cardinality(offsets) = IF 1 > got.recEnd - 1 THEN 0 ELSE got.recEnd - 1 - 1 + 1
    <3>1. got.recEnd - 1 \in Int
      BY <2>1
    <3>2. \A b \in Int : /\ IsFiniteSet(1 .. b)
                         /\ Cardinality(1 .. b) = IF 1 > b THEN 0 ELSE b - 1 + 1
      BY FS_Interval
    <3>3. QED
      BY <3>1, <3>2
  <2>3. QED
    <3> HIDE DEF offsets
    <3>1. QED
      BY <2>1, <2>2
<1>10. IsFiniteSet(posts_of) /\ Cardinality(posts_of) <= got.recEnd - 1 /\ Cardinality(posts_of) \in Nat
  <2>1. place \in Surjection(offsets, posts_of)
    BY DEF Surjection
  <2> HIDE DEF place, posts_of, offsets
  <2>2. IsFiniteSet(posts_of) /\ Cardinality(posts_of) <= Cardinality(offsets)
    BY <1>9, <2>1, FS_Surjection
  <2>3. QED
    BY <1>9, <2>2, FS_CardinalityType
<1>11. Cardinality(shown) <= got.recEnd - 1 /\ IsFiniteSet(shown) /\ Cardinality(shown) \in Nat
  <2> HIDE DEF posts_of, offsets
  <2>1. IsFiniteSet(shown) /\ Cardinality(shown) <= Cardinality(posts_of)
    BY <1>8, <1>10, FS_Subset
  <2>2. QED
    BY <1>9, <1>10, <2>1, FS_CardinalityType
<1>12. IsFiniteSet(Candidates(got)) /\ Cardinality(Candidates(got)) \in Nat
         /\ Cardinality(shown) <= Cardinality(Candidates(got))
         /\ Cardinality(shown) # Cardinality(Candidates(got))
  <2>1. Candidates(got) \subseteq Posts
    BY CandidatesArePosts DEF MixStep, Paged
  <2>2. IsFiniteSet(Candidates(got))
    BY <2>1, PostsAssumption, FS_Subset
  <2>3. shown # Candidates(got)
    BY <1>7
  <2>4. QED
    BY <1>5, <2>2, <2>3, FS_Subset, FS_CardinalityType
<1>13. Cardinality(shown) = Smaller(PageSize, Cardinality(Candidates(got)))
  BY DEF MixStep, Paged
<1>14. QED
  <2>1. Cardinality(shown) = PageSize
    BY <1>11, <1>12, <1>13, SizesAssumption DEF Smaller
  <2>2. QED
    <3> HIDE DEF posts_of, offsets, place
    <3>1. QED
      BY <1>9, <1>11, <2>1, SizesAssumption

LEMMA MixCharges ==
  ASSUME ScrollInv, NEW got, NEW bad, NEW shown, NEW next, MixStep(got, bad, shown, next)
  PROVE  ChargedOnce' /\ DiscoverFresh'
<1>1. /\ WorldTyped /\ CursorTyped /\ SeenServed /\ FollowedDown /\ RecAccounted /\ RecStepped
      /\ TrendAccounted /\ TrendStepped /\ ChargedOnce /\ DiscoverFresh
  BY DEF ScrollInv
<1>2. /\ AtMixed /\ dropped \subseteq dropped' /\ failed \subseteq failed' /\ rebuilds' = rebuilds
      /\ \A r \in again' \ again : r.then # "discover"
      /\ \A r \in again' \ again : r.first = r.then =>
           \/ r.then = "following" /\ r.post \in From(served, "following") \cap got.followed
           \/ /\ r.then = "recommendation"
              /\ r.post \in From(served, "recommendation") \cap got.recommended
           \/ r.then = "trending" /\ r.post \in From(served, "trending") \cap Fresh(got)
  BY DEF MixStep, ServedMore, WorldSame
<1>3. From(served, "following") \cap got.followed = {}
  <2> SUFFICES ASSUME NEW p \in From(served, "following"), p \in got.followed PROVE FALSE
    OBVIOUS
  <2>1. cursor.fol <= p /\ p < cursor.fol /\ p \in Posts
    BY <1>1, <1>2 DEF FollowedDown, MixStep, Paged, Gathered, FollowedRight, WorldTyped
  <2>2. cursor.fol \in Nat /\ p \in Nat
    BY <1>1, <2>1, TopAbove, PostsAssumption DEF CursorTyped
  <2>3. QED
    BY <2>1, <2>2
<1>4. From(served, "recommendation") \cap got.recommended # {} => "recommender" \in failed
  BY <1>1, NextRecommends
<1>5. rebuilds = 0 => From(served, "trending") \cap Fresh(got) \subseteq dropped
  BY <1>1, NextTrends
<1>6. rebuilds > 0 \/ rebuilds = 0
  BY <1>1 DEF ScrollInv, WorldTyped
<1>7. ASSUME NEW r \in again', r.first = r.then
      PROVE  \/ r.then = "trending" /\ (rebuilds' > 0 \/ r.post \in dropped')
             \/ r.then = "recommendation" /\ "recommender" \in failed'
  <2>1. CASE r \in again
    BY <1>1, <1>2, <1>7, <2>1 DEF ChargedOnce
  <2>2. CASE r \notin again
    BY <1>2, <1>3, <1>4, <1>5, <1>6, <1>7, <2>2
  <2>3. QED
    BY <2>1, <2>2
<1>8. ChargedOnce'
  BY <1>7 DEF ChargedOnce
<1>9. DiscoverFresh'
  BY <1>1, <1>2 DEF DiscoverFresh
<1>10. QED
  BY <1>8, <1>9

\* A page that ends the scroll has used up what is left.
LEMMA MixEnds ==
  ASSUME ScrollInv, NEW got, NEW bad, NEW shown, NEW next, MixStep(got, bad, shown, next),
         cursor' = NoCursor
  PROVE  SourcesLeft' /\ PublicServed'
<1>1. /\ WorldTyped /\ CursorTyped /\ SeenServed /\ DiscoverCarried /\ FollowedDown
      /\ RecAccounted /\ RecStepped /\ TrendAccounted /\ TrendStepped
  BY DEF ScrollInv
<1>2. SourcesDry(got, shown) /\ ~DiscoverHasMore(next.fol, next.discSeen, bad)
  <2>1. cursor' # next
    <3>1. NoCursor.at = "end"
      BY DEF NoCursor, FirstPage
    <3>2. QED
      BY <3>1 DEF MixStep, Paged
  <2>2. QED
    BY <1>1, <2>1, PageContinues DEF MixStep
<1>3. /\ AtMixed /\ WorldSame /\ missed' = missed /\ failed' = failed \cup bad
      /\ Shown' = Shown \cup shown /\ Gathered(got, bad)
      /\ FolMoved(got, shown, next) /\ RecMoved(got, bad, shown, next)
  BY DEF MixStep, ServedMore, Paged
<1>4. /\ next.discSeen \subseteq Shown'
      /\ \A p \in From(served', "following") : next.fol <= p
      /\ next.fol = Top \/ next.fol \in From(served', "following")
  BY <1>1, NextCarries
<1>5. Boundary' = next.fol
  <2>1. CursorTyped'
    BY <1>1, MixTyped
  <2>2. From(served', "following") \subseteq Posts
    BY <2>1 DEF From, Shown, CursorTyped
  <2>3. Boundary' = IF From(served', "following") = {} THEN Top
                    ELSE CHOOSE p \in From(served', "following") :
                           \A q \in From(served', "following") : p <= q
    BY DEF Boundary
  <2>4. QED
    BY <1>4, <2>2, <2>3, LowestOf
<1>6. next.fol \in Nat /\ cursor.fol \in Nat /\ next.fol <= cursor.fol
        /\ \A p \in Posts : p \in Nat
  BY <1>1, <1>3, TopAbove, PostsAssumption DEF FolMoved, CursorTyped
<1>7. ASSUME NEW p \in public, p < next.fol PROVE p \in Shown'
  <2> DEFINE below == {q \in public : q < next.fol}
             limit == 1 + Cardinality(next.discSeen)
             rows == DiscoverRows(next.fol, limit)
  <2>1. rows \subseteq next.discSeen
    BY <1>2 DEF DiscoverHasMore
  <2>2. IsFiniteSet(next.discSeen) /\ Cardinality(next.discSeen) \in Nat
    <3>1. next.discSeen \subseteq Posts
      BY <1>1, CarriedServed DEF MixStep, CursorTyped
    <3>2. QED
      BY <3>1, PostsAssumption, FS_Subset, FS_CardinalityType
  <2>3. Cardinality(rows) < limit /\ limit \in Nat
    <3> HIDE DEF rows
    <3>1. Cardinality(rows) <= Cardinality(next.discSeen) /\ Cardinality(rows) \in Nat
      BY <2>1, <2>2, FS_Subset, FS_CardinalityType
    <3>2. QED
      BY <2>2, <3>1
  <2>4. below \subseteq Posts /\ IsFiniteSet(below) /\ below \subseteq Nat
    BY <1>1, <1>6, PostsAssumption, FS_Subset DEF WorldTyped
  <2>5. rows = below
    <3>1. rows = Newest(below, limit)
      BY DEF DiscoverRows
    <3> HIDE DEF below, rows, limit
    <3>2. Cardinality(Newest(below, limit)) < limit => Newest(below, limit) = below
      BY <2>3, <2>4, NewestIs
    <3>3. QED
      BY <2>3, <3>1, <3>2
  <2>6. p \in rows
    BY <1>7, <2>5
  <2>7. QED
    BY <1>4, <2>1, <2>6
<1>8. ASSUME failed' = {}, NEW p \in following, p < next.fol PROVE p \in Shown'
  <2>1. p < cursor.fol
    BY <1>1, <1>6, <1>8 DEF WorldTyped
  <2>2. p \in got.followed
    BY <1>2, <1>3, <2>1 DEF SourcesDry, Gathered, FollowedRight
  <2>3. QED
    BY <1>2, <1>3, <2>2 DEF SourcesDry
<1>9. ASSUME failed' = {}, NEW o \in DOMAIN recs, recs[o] \in public \ own PROVE recs[o] \in Shown'
  <2>1. bad = {} /\ RecsRight(got, bad)
    BY <1>3, <1>9 DEF Gathered
  <2>2. got.recEnd \in cursor.rec .. Len(recs) /\ Len(recs) \in Nat /\ cursor.rec \in Nat
    BY <1>1, <2>1 DEF RecsRight, WorldTyped, CursorTyped
  <2>3. next.rec = Len(recs)
    <3>1. next.rec \in cursor.rec .. got.recEnd
      BY <1>3 DEF RecMoved
    <3>2. CASE RecSpent(got, shown)
      BY <1>3, <2>1, <3>2 DEF RecMoved
    <3>3. CASE got.recEnd = cursor.rec
      BY <2>1, <2>2, <3>1, <3>3 DEF RecsRight
    <3>4. QED
      BY <1>2, <3>2, <3>3 DEF SourcesDry
  <2>4. o - 1 \in 0 .. next.rec - 1 /\ (o - 1) + 1 = o
    <3>1. o \in 1 .. Len(recs)
      BY <1>1, <1>9 DEF WorldTyped
    <3>2. QED
      BY <2>2, <2>3, <3>1
  <2>5. \A i \in 0 .. next.rec - 1 : recs[i + 1] \in public \ own => recs[i + 1] \in Shown'
    BY <1>1, NextRecommends
  <2>6. QED
    BY <1>9, <2>4, <2>5
<1>10. ASSUME failed' = {}, rebuilds = 0, NEW p \in Hot PROVE p \in Shown'
  <2>1. bad = {} /\ failed = {} /\ TrendRight(got, bad)
    BY <1>3, <1>10 DEF Gathered
  <2>2. CASE ~TrendingAsked
    BY <1>1, <1>3, <1>10, <2>1, <2>2 DEF TrendStepped, TrendingAsked, AtMixed
  <2>3. CASE TrendingAsked /\ p \in BelowTrend
    <3>1. got.window = BelowTrend
      BY <1>2, <2>1, <2>3 DEF SourcesDry, TrendRight
    <3>2. p \in Consumed(got, shown)
      BY <1>2, <2>3, <3>1 DEF SourcesDry
    <3>3. QED
      BY <1>1, <1>10, <3>2, NextTrends
  <2>4. CASE p \notin BelowTrend
    <3>1. cursor.trend # NoPosition /\ ~(Key(p) < cursor.trend)
      BY <2>4 DEF BelowTrend, Hot
    <3>2. Key(p) \in Nat /\ cursor.trend \in Nat
      BY <1>1, <3>1, HotIs DEF CursorTyped
    <3>3. p \in Shown
      BY <1>1, <1>3, <1>10, <3>1, <3>2 DEF TrendStepped
    <3>4. QED
      BY <1>3, <3>3
  <2>5. QED
    BY <2>2, <2>3, <2>4
<1>11. /\ public' = public /\ own' = own /\ following' = following /\ recs' = recs
       /\ rebuilds' = rebuilds /\ Hot' = Hot
  BY <1>3 DEF WorldSame, Hot
<1>12. PublicServed'
  BY <1>5, <1>7, <1>11 DEF PublicServed
<1>13. SourcesLeft'
  <2> SUFFICES ASSUME failed' = {}
               PROVE  /\ \A p \in following' : p < Boundary' => p \in Shown'
                      /\ \A o \in DOMAIN recs' :
                           recs'[o] \in public' \ own' => recs'[o] \in Shown' \cup missed'
                      /\ rebuilds' = 0 => Hot' \ own' \subseteq Shown' \cup missed'
    BY DEF SourcesLeft
  <2>1. \A p \in following' : p < Boundary' => p \in Shown'
    BY <1>5, <1>8, <1>11
  <2>2. \A o \in DOMAIN recs' : recs'[o] \in public' \ own' => recs'[o] \in Shown' \cup missed'
    BY <1>9, <1>11
  <2>3. rebuilds' = 0 => Hot' \ own' \subseteq Shown' \cup missed'
    BY <1>10, <1>11
  <2>4. QED
    BY <2>1, <2>2, <2>3
<1>14. QED
  BY <1>12, <1>13

\* The invariant after a mixed page.
LEMMA MixKeeps ==
  ASSUME ScrollInv, NEW got, NEW bad, NEW shown, NEW next, MixStep(got, bad, shown, next)
  PROVE  ScrollInv'
<1>1. /\ WorldTyped /\ CursorTyped /\ SeenServed /\ DiscoverCarried /\ FollowedDown
      /\ RecAccounted /\ RecStepped /\ TrendAccounted /\ TrendStepped /\ DiscoverDown
  BY DEF ScrollInv
<1>2. WorldTyped'
  BY <1>1 DEF MixStep, WorldSame, WorldTyped
<1>3. CursorTyped'
  BY <1>1, MixTyped
<1>4. ChargedOnce' /\ DiscoverFresh'
  BY MixCharges
<1>5. /\ WorldSame /\ AtMixed
      /\ From(served', "discover") = From(served, "discover")
  BY DEF MixStep, ServedMore
<1>6. CASE cursor' = NoCursor
  <2>1. cursor'.at = "end"
    BY <1>6 DEF NoCursor, FirstPage
  <2>2. SourcesLeft' /\ PublicServed'
    BY <1>6, MixEnds
  <2>3. SeenServed' /\ DiscoverCarried' /\ FollowedDown'
    BY <2>1 DEF SeenServed, DiscoverCarried, FollowedDown, AtMixed
  <2>4. RecAccounted' /\ RecStepped' /\ TrendAccounted' /\ TrendStepped'
    BY <2>1 DEF RecAccounted, RecStepped, TrendAccounted, TrendStepped, AtMixed
  <2>5. DiscoverStepped' /\ DiscoverDown'
    BY <2>1 DEF DiscoverStepped, DiscoverDown, AtMixed
  <2>6. QED
    BY <1>2, <1>3, <1>4, <2>2, <2>3, <2>4, <2>5 DEF ScrollInv
<1>7. CASE cursor' = next
  <2>1. cursor'.at = "mixed" /\ AtMixed'
    BY <1>7 DEF MixStep, Paged, AtMixed
  <2>2. SeenServed' /\ DiscoverCarried' /\ FollowedDown'
    <3>1. /\ next.discSeen \subseteq Shown' /\ next.trendSeen \subseteq Shown'
          /\ \A o \in next.recSeen : recs[o + 1] \in Shown'
          /\ \A p \in Shown' : p < next.fol => p \in next.discSeen \cup dropped'
          /\ \A p \in From(served', "following") : next.fol <= p
          /\ next.fol = Top \/ next.fol \in From(served', "following")
      BY <1>1, NextCarries
    <3>2. SeenServed'
      BY <1>5, <1>7, <3>1 DEF SeenServed, WorldSame
    <3>3. DiscoverCarried'
      BY <1>7, <2>1, <3>1 DEF DiscoverCarried
    <3>4. FollowedDown'
      BY <1>7, <3>1 DEF FollowedDown
    <3>5. QED
      BY <3>2, <3>3, <3>4
  <2>3. RecAccounted' /\ RecStepped'
    <3>1. /\ "recommender" \notin failed' =>
               \A o \in 0 .. Len(recs) - 1 :
                 recs[o + 1] \in From(served', "recommendation")
                   => o < next.rec \/ o \in next.recSeen
          /\ \A o \in 0 .. next.rec - 1 : recs[o + 1] \in public \ own => recs[o + 1] \in Shown'
      BY <1>1, NextRecommends
    <3>2. recs' = recs /\ public' = public /\ own' = own
      BY <1>5 DEF WorldSame
    <3>3. QED
      BY <1>7, <3>1, <3>2 DEF RecAccounted, RecStepped
  <2>4. TrendAccounted' /\ TrendStepped'
    <3>1. rebuilds' = rebuilds /\ Hot' = Hot /\ \A p : Key(p)' = Key(p)
      BY <1>5 DEF WorldSame, Hot, Key
    <3>2. rebuilds = 0 =>
            /\ \A p \in From(served', "trending") \ dropped' :
                 /\ p \in Hot
                 /\ p \in next.trendSeen \/ (next.trend # NoPosition /\ next.trend <= Key(p))
            /\ next.trend # NoPosition => \A p \in Hot : next.trend <= Key(p) => p \in Shown'
            /\ failed' = {} /\ next.trend = NoPosition => Hot = {}
      BY <1>1, NextTrends
    <3>3. TrendAccounted'
      BY <1>7, <3>1, <3>2 DEF TrendAccounted
    <3>4. TrendStepped'
      BY <1>7, <3>1, <3>2 DEF TrendStepped
    <3>5. QED
      BY <3>3, <3>4
  <2>5. DiscoverStepped' /\ DiscoverDown' /\ SourcesLeft' /\ PublicServed'
    BY <1>1, <1>5, <2>1 DEF DiscoverStepped, DiscoverDown, SourcesLeft, PublicServed
  <2>6. QED
    BY <1>2, <1>3, <1>4, <2>2, <2>3, <2>4, <2>5 DEF ScrollInv
<1>8. QED
  BY <1>6, <1>7 DEF MixStep

-----------------------------------------------------------------------------
(* The steps.                                                              *)

\* A page of discover, on what was true before it.
LEMMA DiscoverKeeps ==
  ASSUME WorldTyped, CursorTyped, ChargedOnce, DiscoverFresh, WorldSame,
         dropped' = dropped, failed \subseteq failed',
         NEW position \in 1 .. Top, NEW seen \in SUBSET Posts, NEW shown \in SUBSET Posts,
         DiscoverWent(position, seen, shown),
         seen \subseteq Shown, \A p \in Shown : p < position => p \in seen \cup dropped,
         \A p \in public : position <= p /\ p < Boundary => p \in Shown,
         \A p \in From(served, "discover") : position <= p,
         failed' = {} =>
           /\ \A p \in following : p < Boundary => p \in Shown
           /\ \A o \in DOMAIN recs : recs[o] \in public \ own => recs[o] \in Shown \cup missed'
           /\ rebuilds = 0 => Hot \ own \subseteq Shown \cup missed'
  PROVE  ScrollInv'
<1>1. /\ shown \subseteq public /\ \A p \in shown : p < position /\ p \notin seen
      /\ Shown' = Shown \cup shown
      /\ From(served', "following") = From(served, "following")
      /\ From(served', "discover") = From(served, "discover") \cup shown
      /\ \A r \in again' \ again :
           /\ r.then = "discover" /\ r.post \in Shown \cap shown
           /\ r.first = "discover" => r.post \in From(served, "discover")
  BY DEF DiscoverWent
<1>2. Boundary' = Boundary
  <2> DEFINE OldestOf(S) == IF S = {} THEN Top ELSE CHOOSE p \in S : \A q \in S : p <= q
  <2>1. Boundary = OldestOf(From(served, "following"))
        /\ Boundary' = OldestOf(From(served', "following"))
    BY DEF Boundary
  <2>2. QED
    <3> HIDE DEF OldestOf
    <3>1. QED
      BY <1>1, <2>1
<1>3. /\ following' = following /\ public' = public /\ own' = own /\ recs' = recs
      /\ rebuilds' = rebuilds /\ Hot' = Hot
  BY DEF WorldSame, Hot
<1>4. /\ Top \in Nat /\ Posts \subseteq Nat /\ position \in Nat /\ Shown \subseteq Posts
      /\ Len(recs) \in Nat
  BY TopAbove, PostsAssumption DEF CursorTyped, WorldTyped
<1>5. \/ cursor' = NoCursor
      \/ \E last \in 1 .. Top : \E rest \in SUBSET seen : cursor' = Discover(last, rest)
  BY DEF DiscoverWent
<1>6. /\ cursor'.at \in {"discover", "end"} /\ ~AtMixed'
      /\ cursor'.rec = 0 /\ cursor'.recSeen = {} /\ cursor'.trend = NoPosition
      /\ cursor'.trendSeen = {} /\ cursor'.fol = Top
      /\ cursor'.disc \in 1 .. Top /\ cursor'.discSeen \subseteq seen
  <2>1. CASE cursor' = NoCursor
    BY <1>4, <2>1, TopAbove DEF NoCursor, FirstPage, AtMixed
  <2>2. ASSUME NEW last \in 1 .. Top, NEW rest \in SUBSET seen, cursor' = Discover(last, rest)
        PROVE  /\ cursor'.at \in {"discover", "end"} /\ ~AtMixed'
               /\ cursor'.rec = 0 /\ cursor'.recSeen = {} /\ cursor'.trend = NoPosition
               /\ cursor'.trendSeen = {} /\ cursor'.fol = Top
               /\ cursor'.disc \in 1 .. Top /\ cursor'.discSeen \subseteq seen
    BY <2>2 DEF Discover, FirstPage, AtMixed
  <2>3. QED
    BY <1>5, <2>1, <2>2
<1>7. WorldTyped'
  BY DEF WorldTyped, WorldSame
<1>8. CursorTyped'
  <2>1. Shown' \subseteq Posts
    BY <1>1, <1>4
  <2>2. cursor'.rec \in 0 .. Len(recs') /\ cursor'.recSeen \subseteq 0 .. Len(recs') - 1
    BY <1>3, <1>4, <1>6
  <2>3. cursor'.fol \in 1 .. Top
    BY <1>4, <1>6, TopAbove
  <2>4. /\ cursor'.at \in {"start", "mixed", "discover", "end"}
        /\ cursor'.trend \in Nat \cup {NoPosition} /\ cursor'.trendSeen \subseteq Posts
        /\ cursor'.disc \in 1 .. Top /\ cursor'.discSeen \subseteq Posts
    BY <1>6
  <2>5. QED
    BY <2>1, <2>2, <2>3, <2>4 DEF CursorTyped
<1>9. SeenServed'
  BY <1>1, <1>6 DEF SeenServed
<1>10. FollowedDown' /\ RecAccounted' /\ TrendAccounted' /\ RecStepped' /\ TrendStepped'
  BY <1>6 DEF FollowedDown, RecAccounted, TrendAccounted, RecStepped, TrendStepped
<1>11. ChargedOnce'
  <2> SUFFICES ASSUME NEW r \in again', r.first = r.then
               PROVE  \/ r.then = "trending" /\ (rebuilds' > 0 \/ r.post \in dropped')
                      \/ r.then = "recommendation" /\ "recommender" \in failed'
    BY DEF ChargedOnce
  <2>1. CASE r \in again
    BY <1>3, <2>1 DEF ChargedOnce
  <2>2. CASE r \notin again
    <3>1. r.post \in shown /\ r.post \in From(served, "discover")
      BY <1>1, <2>2
    <3>2. r.post < position /\ position <= r.post
      BY <1>1, <3>1
    <3>3. r.post \in Posts
      BY <1>4, <3>1 DEF From, Shown
    <3>4. r.post \in Nat
      BY <1>4, <3>3
    <3>5. QED
      BY <1>4, <3>2, <3>4
  <2>3. QED
    BY <2>1, <2>2
<1>12. DiscoverFresh'
  <2> SUFFICES ASSUME NEW r \in again', r.then = "discover" PROVE r.post \in dropped'
    BY DEF DiscoverFresh
  <2>1. CASE r \in again
    BY <2>1 DEF DiscoverFresh
  <2>2. CASE r \notin again
    BY <1>1, <2>2
  <2>3. QED
    BY <2>1, <2>2
<1>13. SourcesLeft'
  BY <1>1, <1>2, <1>3 DEF SourcesLeft
<1>14. DiscoverCarried' /\ DiscoverStepped' /\ DiscoverDown' /\ PublicServed'
  <2>1. CASE cursor' = NoCursor /\ \A p \in public : p < position => p \in shown \cup seen
    <3>1. cursor'.at = "end"
      BY <2>1 DEF NoCursor, FirstPage
    <3>2. \A p \in public : p < Boundary => p \in Shown'
      <4> SUFFICES ASSUME NEW p \in public, p < Boundary PROVE p \in Shown'
        OBVIOUS
      <4>1. p \in Nat
        BY <1>4 DEF WorldTyped
      <4>2. p < position \/ position <= p
        BY <1>4, <4>1
      <4>3. QED
        BY <1>1, <2>1, <4>2
    <3>3. QED
      BY <1>2, <1>3, <1>6, <3>1, <3>2
         DEF DiscoverCarried, DiscoverStepped, DiscoverDown, PublicServed
  <2>2. ASSUME NEW last \in 1 .. Top, NEW rest \in SUBSET seen,
               cursor' = Discover(last, rest), last < position,
               \A p \in shown : last <= p,
               \A p \in public : last <= p /\ p < position => p \in shown \cup seen,
               \A p \in seen : p < last => p \in rest
        PROVE  DiscoverCarried' /\ DiscoverStepped' /\ DiscoverDown' /\ PublicServed'
    <3>1. cursor'.at = "discover" /\ cursor'.disc = last /\ cursor'.discSeen = rest /\ last \in Nat
      BY <1>4, <2>2 DEF Discover, FirstPage
    <3>2. \A p \in Shown' : p < last => p \in rest \cup dropped
      <4> SUFFICES ASSUME NEW p \in Shown', p < last PROVE p \in rest \cup dropped
        OBVIOUS
      <4>1. p \in Nat
        BY <1>1, <1>4
      <4>2. p \notin shown /\ p < position
        BY <1>4, <2>2, <3>1, <4>1
      <4>3. p \in seen \cup dropped
        BY <1>1, <4>2
      <4>4. QED
        BY <2>2, <4>3
    <3>3. \A p \in public : last <= p /\ p < Boundary => p \in Shown'
      <4> SUFFICES ASSUME NEW p \in public, last <= p, p < Boundary PROVE p \in Shown'
        OBVIOUS
      <4>1. p \in Nat
        BY <1>4 DEF WorldTyped
      <4>2. p < position \/ position <= p
        BY <1>4, <4>1
      <4>3. QED
        BY <1>1, <2>2, <4>2
    <3>4. \A p \in From(served', "discover") : last <= p
      <4> SUFFICES ASSUME NEW p \in From(served, "discover") PROVE last <= p
        BY <1>1, <2>2
      <4>1. p \in Nat /\ position <= p
        BY <1>4 DEF From, Shown
      <4>2. QED
        BY <1>4, <2>2, <3>1, <4>1
    <3>5. DiscoverCarried'
      BY <1>6, <3>1, <3>2 DEF DiscoverCarried
    <3>6. DiscoverStepped'
      BY <1>2, <1>3, <3>1, <3>3 DEF DiscoverStepped
    <3>7. DiscoverDown'
      BY <1>6, <3>1, <3>4 DEF DiscoverDown
    <3>8. PublicServed'
      BY <3>1 DEF PublicServed
    <3>9. QED
      BY <3>5, <3>6, <3>7, <3>8
  <2>3. QED
    BY <2>1, <2>2 DEF DiscoverWent
<1>15. QED
  BY <1>7, <1>8, <1>9, <1>10, <1>11, <1>12, <1>13, <1>14 DEF ScrollInv

\* A hand-off comes with empty windows: what is owed then lies behind them.
LEMMA HandOffKeeps ==
  ASSUME ScrollInv, AtMixed, Validate(cursor), WorldSame,
         NEW bad, failed' = failed \cup bad, NEW got, got = Collect(bad), HandOff(got)
  PROVE  ScrollInv'
<1>1. /\ WorldTyped /\ CursorTyped /\ SeenServed /\ DiscoverCarried /\ FollowedDown
      /\ RecStepped /\ TrendStepped /\ DiscoverDown /\ ChargedOnce /\ DiscoverFresh
  BY DEF ScrollInv
<1>2. Candidates(got) = {} /\ missed' = Behind(got) /\ dropped' = dropped
  BY DEF HandOff
<1>3. FollowedRight(got) /\ RecsRight(got, bad) /\ TrendRight(got, bad)
  BY <1>1, AllGathered DEF Gathered
<1>4. cursor.fol \in 1 .. Top /\ cursor.discSeen \in SUBSET Posts
  BY <1>1 DEF CursorTyped
<1>5. PICK shown \in SUBSET Posts : DiscoverWent(cursor.fol, cursor.discSeen, shown)
  BY <1>1, <1>4, DiscoverGoes DEF HandOff
<1>6. Boundary = cursor.fol
  BY <1>1, BoundaryIs
<1>7. cursor.fol \in Nat /\ Posts \subseteq Nat
  BY <1>4, TopAbove, PostsAssumption
<1>8. cursor.discSeen \subseteq Shown /\ \A p \in Shown : p < cursor.fol => p \in cursor.discSeen \cup dropped
  BY <1>1 DEF SeenServed, DiscoverCarried
<1>9. \A p \in public : cursor.fol <= p /\ p < Boundary => p \in Shown
  BY <1>1, <1>6, <1>7 DEF WorldTyped
<1>10. got.followed = {} /\ got.recommended \subseteq own /\ Fresh(got) \subseteq own
  BY <1>2 DEF Candidates
<1>11. ASSUME NEW p \in following, p < Boundary PROVE p \in Shown
  <2>1. Cardinality(got.followed) < FollowingLimit
    <3>1. FollowingLimit \in Nat \ {0}
      <4>1. \A a, b \in Nat \ {0} : a * b \in Nat \ {0}
        OBVIOUS
      <4>2. QED
        BY <4>1, SizesAssumption DEF FollowingLimit
    <3>2. QED
      BY <1>10, <3>1, FS_EmptySet
  <2>2. QED
    BY <1>3, <1>6, <1>10, <1>11, <2>1 DEF FollowedRight
<1>12. ASSUME NEW o \in DOMAIN recs, recs[o] \in public \ own PROVE recs[o] \in Shown \cup missed'
  <2>1. o \in 1 .. Len(recs) /\ Len(recs) \in Nat /\ cursor.rec \in Nat /\ got.recEnd \in Nat
    BY <1>1, <1>3 DEF WorldTyped, CursorTyped, RecsRight
  <2>2. PICK i \in 0 .. Len(recs) - 1 : o = i + 1
    <3>1. o - 1 \in 0 .. Len(recs) - 1 /\ o = (o - 1) + 1
      BY <2>1
    <3>2. QED
      BY <3>1
  <2>3. CASE i < cursor.rec
    <3>1. i \in 0 .. cursor.rec - 1
      BY <2>1, <2>2, <2>3
    <3>2. QED
      BY <1>1, <1>12, <2>2, <3>1 DEF RecStepped
  <2>4. CASE cursor.rec <= i /\ i < got.recEnd
    <3>1. i \in cursor.rec .. got.recEnd - 1
      BY <2>1, <2>2, <2>4
    <3>2. CASE i \in cursor.recSeen
      BY <1>1, <2>2, <3>2 DEF SeenServed
    <3>3. CASE i \notin cursor.recSeen
      <4>1. recs[i + 1] \in got.recommended
        BY <1>3, <1>12, <2>2, <3>1, <3>3 DEF RecsRight
      <4>2. QED
        BY <1>10, <1>12, <2>2, <4>1
    <3>4. QED
      BY <3>2, <3>3
  <2>5. CASE got.recEnd <= i
    <3>1. i \in got.recEnd .. Len(recs) - 1
      BY <2>1, <2>2, <2>5
    <3>2. QED
      BY <1>2, <2>2, <3>1 DEF Behind
  <2>6. QED
    BY <2>1, <2>2, <2>3, <2>4, <2>5
<1>13. ASSUME failed' = {}, rebuilds = 0, NEW p \in Hot \ own PROVE p \in Shown \cup missed'
  <2>1. failed = {} /\ bad = {}
    BY <1>13
  <2>2. CASE p \notin BelowTrend
    <3>1. cursor.trend # NoPosition /\ ~(Key(p) < cursor.trend)
      BY <2>2 DEF BelowTrend, Hot
    <3>2. Key(p) \in Nat /\ cursor.trend \in Nat
      BY <1>1, <1>13, <3>1, HotIs DEF CursorTyped
    <3>3. QED
      BY <1>1, <1>13, <3>1, <3>2 DEF TrendStepped
  <2>3. CASE p \in BelowTrend \ got.window
    BY <1>2, <2>3 DEF Behind
  <2>4. CASE p \in got.window
    BY <1>1, <1>10, <1>13, <2>4 DEF Fresh, SeenServed
  <2>5. QED
    BY <2>2, <2>3, <2>4
<1>14. \A p \in From(served, "discover") : cursor.fol <= p
  BY <1>1 DEF DiscoverDown
<1>15. QED
  BY <1>1, <1>2, <1>4, <1>5, <1>8, <1>9, <1>11, <1>12, <1>13, <1>14, DiscoverKeeps

LEMMA ScrollKeeps ==
  ASSUME ScrollInv, [Next]_vars PROVE ScrollInv'
<1>1. /\ WorldTyped /\ CursorTyped /\ SeenServed /\ DiscoverCarried /\ FollowedDown
      /\ RecAccounted /\ TrendAccounted /\ RecStepped /\ TrendStepped
      /\ DiscoverStepped /\ DiscoverDown /\ SourcesLeft /\ PublicServed
      /\ ChargedOnce /\ DiscoverFresh
  BY DEF ScrollInv
<1>2. CASE GetMixed
  <2>1. AtMixed /\ Validate(cursor) /\ WorldSame
    BY <1>2 DEF GetMixed, AtMixed, WorldSame, world
  <2>2. PICK bad \in Failing :
          /\ failed' = failed \cup bad
          /\ \E got \in {Collect(bad)} : Mix(got, bad) \/ HandOff(got)
    BY <1>2 DEF GetMixed
  <2>3. PICK got : got = Collect(bad) /\ (Mix(got, bad) \/ HandOff(got))
    BY <2>2
  <2>4. CASE Mix(got, bad)
    <3>1. PICK shown, next : MixStep(got, bad, shown, next)
      BY <1>1, <2>1, <2>2, <2>3, <2>4, MixIs
    <3>2. QED
      BY <3>1, MixKeeps
  <2>5. CASE HandOff(got)
    BY <2>1, <2>2, <2>3, <2>5, HandOffKeeps
  <2>6. QED
    BY <2>3, <2>4, <2>5
<1>3. CASE GetDiscover
  <2>1. /\ cursor.at = "discover" /\ WorldSame /\ DiscoverPage(cursor.disc, cursor.discSeen)
        /\ dropped' = dropped /\ failed' = failed /\ missed' = missed
    BY <1>3 DEF GetDiscover, WorldSame, world
  <2>2. cursor.disc \in 1 .. Top /\ cursor.discSeen \in SUBSET Posts
    BY <1>1 DEF CursorTyped
  <2>3. PICK shown \in SUBSET Posts : DiscoverWent(cursor.disc, cursor.discSeen, shown)
    BY <1>1, <2>1, <2>2, DiscoverGoes
  <2>4. cursor.discSeen \subseteq Shown /\ \A p \in Shown : p < cursor.disc => p \in cursor.discSeen \cup dropped
    BY <1>1, <2>1 DEF SeenServed, DiscoverCarried
  <2>5. /\ \A p \in public : cursor.disc <= p /\ p < Boundary => p \in Shown
        /\ \A p \in From(served, "discover") : cursor.disc <= p
    BY <1>1, <2>1 DEF DiscoverStepped, DiscoverDown
  <2>6. failed' = {} =>
           /\ \A p \in following : p < Boundary => p \in Shown
           /\ \A o \in DOMAIN recs : recs[o] \in public \ own => recs[o] \in Shown \cup missed'
           /\ rebuilds = 0 => Hot \ own \subseteq Shown \cup missed'
    BY <1>1, <2>1 DEF SourcesLeft
  <2>7. QED
    BY <1>1, <2>1, <2>2, <2>3, <2>4, <2>5, <2>6, DiscoverKeeps
<1>4. CASE RebuildTrending
  <2>1. /\ cursor.at = "mixed" /\ rebuilds' = rebuilds + 1 /\ rebuilds' # 0 /\ rebuilds' > 0
        /\ UNCHANGED <<world, cursor, served, again, dropped, missed, failed>>
    BY <1>1, <1>4 DEF RebuildTrending, WorldTyped
  <2>2. /\ following' = following /\ own' = own /\ public' = public /\ recs' = recs /\ total' = total
        /\ cursor' = cursor /\ served' = served /\ again' = again /\ dropped' = dropped /\ failed' = failed
    BY <2>1 DEF world
  <2>3. likes' \in [Posts -> 0 .. MaxLikes \cup {Cold}]
    BY <1>1, <1>4 DEF RebuildTrending, WorldTyped
  <2>4. WorldTyped'
    BY <1>1, <2>1, <2>2, <2>3 DEF WorldTyped
  <2>5. CursorTyped' /\ SeenServed' /\ DiscoverCarried' /\ FollowedDown'
    BY <1>1, <2>2 DEF CursorTyped, SeenServed, DiscoverCarried, FollowedDown, AtMixed, Shown
  <2>6. RecAccounted' /\ RecStepped' /\ TrendAccounted' /\ TrendStepped'
    BY <1>1, <2>1, <2>2
       DEF RecAccounted, RecStepped, TrendAccounted, TrendStepped, AtMixed, Shown
  <2>7. DiscoverStepped' /\ DiscoverDown' /\ SourcesLeft' /\ PublicServed'
    BY <1>1, <2>1, <2>2 DEF DiscoverStepped, DiscoverDown, SourcesLeft, PublicServed, AtMixed
  <2>8. ChargedOnce' /\ DiscoverFresh'
    BY <1>1, <2>1, <2>2 DEF ChargedOnce, DiscoverFresh
  <2>9. QED
    BY <2>4, <2>5, <2>6, <2>7, <2>8 DEF ScrollInv
<1>5. CASE UNCHANGED vars
  <2>1. /\ following' = following /\ own' = own /\ public' = public /\ recs' = recs /\ total' = total
        /\ likes' = likes /\ rebuilds' = rebuilds /\ missed' = missed
        /\ cursor' = cursor /\ served' = served /\ again' = again /\ dropped' = dropped /\ failed' = failed
    BY <1>5 DEF vars, world
  <2>2. WorldTyped' /\ CursorTyped' /\ SeenServed' /\ DiscoverCarried' /\ FollowedDown'
    BY <1>1, <2>1
       DEF WorldTyped, CursorTyped, SeenServed, DiscoverCarried, FollowedDown, AtMixed, Shown
  <2>3. RecAccounted' /\ RecStepped' /\ TrendAccounted' /\ TrendStepped'
    BY <1>1, <2>1
       DEF RecAccounted, RecStepped, TrendAccounted, TrendStepped, AtMixed, Shown, Hot, Key
  <2>4. DiscoverStepped' /\ DiscoverDown' /\ SourcesLeft' /\ PublicServed'
    BY <1>1, <2>1
       DEF DiscoverStepped, DiscoverDown, SourcesLeft, PublicServed, AtMixed, Shown, Boundary, Hot
  <2>5. ChargedOnce' /\ DiscoverFresh'
    BY <1>1, <2>1 DEF ChargedOnce, DiscoverFresh
  <2>6. QED
    BY <2>2, <2>3, <2>4, <2>5 DEF ScrollInv
<1>6. QED
  BY <1>2, <1>3, <1>4, <1>5 DEF Next

LEMMA ScrollStarts == Init => ScrollInv
<1> SUFFICES ASSUME Init PROVE ScrollInv
  OBVIOUS
<1>1. /\ cursor = FirstPage /\ served = {} /\ again = {} /\ dropped = {} /\ rebuilds = 0
      /\ following \subseteq Posts /\ own \subseteq following /\ public \subseteq Posts
      /\ likes \in [Posts -> 0 .. MaxLikes \cup {Cold}]
      /\ \A i, j \in DOMAIN recs : recs[i] = recs[j] => i = j \/ recs[i] = Junk
      /\ total \in Len(recs) .. Len(recs) + 1
  BY DEF Init
<1>2. recs \in Seq(Posts \cup {Junk}) /\ Len(recs) \in Nat
  <2>1. PICK n \in 0 .. MaxRecs : recs \in [1 .. n -> Posts \cup {Junk}]
    BY DEF Init
  <2>2. n \in Nat
    BY <2>1, BoundsAssumption
  <2>3. QED
    BY <2>1, <2>2
<1>3. /\ cursor.at = "start" /\ cursor.rec = 0 /\ cursor.recSeen = {} /\ cursor.trend = NoPosition
      /\ cursor.trendSeen = {} /\ cursor.fol = Top /\ cursor.disc = Top /\ cursor.discSeen = {}
  BY <1>1 DEF FirstPage
<1>4. Shown = {} /\ \A s : From(served, s) = {}
  BY <1>1 DEF Shown, From
<1>5. WorldTyped
  BY <1>1, <1>2 DEF WorldTyped
<1>6. CursorTyped
  BY <1>2, <1>3, <1>4, TopAbove DEF CursorTyped
<1>7. SeenServed /\ DiscoverCarried /\ FollowedDown /\ RecAccounted /\ TrendAccounted
  BY <1>3, <1>4 DEF SeenServed, DiscoverCarried, FollowedDown, RecAccounted, TrendAccounted
<1>8. RecStepped /\ TrendStepped
  BY <1>3 DEF RecStepped, TrendStepped
<1>9. DiscoverStepped /\ DiscoverDown /\ SourcesLeft /\ PublicServed
  BY <1>3, <1>4 DEF DiscoverStepped, DiscoverDown, SourcesLeft, PublicServed
<1>10. ChargedOnce /\ DiscoverFresh
  BY <1>1 DEF ChargedOnce, DiscoverFresh
<1>11. QED
  BY <1>5, <1>6, <1>7, <1>8, <1>9, <1>10 DEF ScrollInv

\* What the invariant says of a scroll.
LEMMA ScrollHolds ==
  ASSUME ScrollInv PROVE ChargedOnce /\ NothingSteppedOver /\ EndsWithNothingLeft /\ DiscoverFresh
<1>1. ChargedOnce /\ DiscoverFresh
  BY DEF ScrollInv
<1>2. NothingSteppedOver
  <2> SUFFICES ASSUME cursor.at = "mixed"
               PROVE  /\ \A o \in 0 .. cursor.rec - 1 :
                           recs[o + 1] \in public \ own => recs[o + 1] \in Shown
                      /\ rebuilds = 0 /\ cursor.trend # NoPosition =>
                           \A p \in Hot : Key(p) >= cursor.trend => p \in Shown
    BY DEF NothingSteppedOver
  <2>1. AtMixed /\ RecStepped /\ TrendStepped
    BY DEF ScrollInv, AtMixed
  <2>2. ASSUME NEW p \in Hot, Key(p) >= cursor.trend, cursor.trend # NoPosition, rebuilds = 0
        PROVE  p \in Shown
    <3>1. Key(p) \in Nat /\ cursor.trend \in Nat
      BY <2>2, HotIs DEF ScrollInv, CursorTyped
    <3>2. QED
      BY <2>1, <2>2, <3>1 DEF TrendStepped
  <2>3. QED
    BY <2>1, <2>2 DEF RecStepped
<1>3. EndsWithNothingLeft
  BY DEF ScrollInv, SourcesLeft, PublicServed, EndsWithNothingLeft
<1>4. QED
  BY <1>1, <1>2, <1>3

-----------------------------------------------------------------------------
(* The cursors of the scroll are accepted.                                 *)

\* In an order, no more than n elements have fewer than n before them.
FewBefore(S, before, n) == {p \in S : Cardinality(before[p]) < n}

LEMMA FewFirst ==
  ASSUME NEW S, IsFiniteSet(S), NEW before \in [S -> SUBSET S], NEW n \in Nat,
         \A p \in S : p \notin before[p],
         \A p, q \in S : p = q \/ p \in before[q] \/ q \in before[p],
         \A p, q \in S : p \in before[q] => before[p] \subseteq before[q],
         NEW T, T = FewBefore(S, before, n)
  PROVE  Cardinality(T) <= n
<1>1. /\ IsFiniteSet(T) /\ Cardinality(T) \in Nat /\ T \subseteq S
      /\ \A p \in T : Cardinality(before[p]) < n
  <2>1. T \subseteq S /\ \A p \in T : Cardinality(before[p]) < n
    BY DEF FewBefore
  <2>2. QED
    BY <2>1, FS_Subset, FS_CardinalityType
<1>2. \A p \in S : IsFiniteSet(before[p]) /\ Cardinality(before[p]) \in Nat
  BY FS_Subset, FS_CardinalityType
<1>3. CASE T = {}
  BY <1>3, FS_EmptySet
<1>4. CASE T # {}
  <2> DEFINE place == [p \in T |-> Cardinality(before[p])]
  <2>1. place \in [T -> Nat] /\ \A p \in T : place[p] = Cardinality(before[p])
    BY <1>1, <1>2
  <2>2. PICK p \in T : \A q \in T : place[q] <= place[p]
    <3> HIDE DEF place
    <3>1. QED
      BY <1>1, <1>4, <2>1, HasHighest
  <2>3. p \in S /\ Cardinality(before[p]) < n
    BY <1>1
  <2>4. ASSUME NEW q \in T, q # p PROVE q \in before[p]
    <3>1. q \in S
      BY <1>1
    <3>2. CASE p \in before[q]
      <4>1. before[p] \subseteq before[q] /\ before[p] # before[q]
        BY <2>3, <3>1, <3>2
      <4>2. Cardinality(before[p]) < Cardinality(before[q])
        <5>1. /\ Cardinality(before[p]) <= Cardinality(before[q])
              /\ Cardinality(before[p]) = Cardinality(before[q]) => before[p] = before[q]
          BY <1>2, <3>1, <4>1, FS_Subset
        <5>2. QED
          BY <1>2, <2>3, <3>1, <4>1, <5>1
      <4>3. QED
        BY <1>2, <2>1, <2>2, <2>3, <3>1, <4>2
    <3>3. QED
      BY <2>3, <2>4, <3>1, <3>2
  <2>5. T \ {p} \subseteq before[p]
    BY <2>4
  <2>6. Cardinality(T \ {p}) <= Cardinality(before[p])
    BY <1>2, <2>3, <2>5, FS_Subset
  <2>7. Cardinality(T \ {p}) = Cardinality(T) - 1
    BY <1>1, FS_RemoveElement
  <2>8. QED
    BY <1>1, <1>2, <2>3, <2>6, <2>7
<1>5. QED
  BY <1>3, <1>4

\* Two posts of the trending list have different keys.
LEMMA KeysApart ==
  ASSUME NEW l \in Nat, NEW m \in Nat, NEW p \in Posts, NEW q \in Posts,
         l * Top + p = m * Top + q
  PROVE  p = q
<1>1. Top \in Nat /\ p \in Nat /\ q \in Nat /\ p < Top /\ q < Top
  BY TopAbove, PostsAssumption
<1>2. \A a, d, t \in Nat : (a + d + 1) * t = a * t + d * t + t /\ a * t \in Nat /\ d * t \in Nat
  OBVIOUS
<1>3. CASE l < m
  <2>1. m - l - 1 \in Nat /\ m = l + (m - l - 1) + 1
    BY <1>3
  <2>2. PICK d \in Nat : m = l + d + 1
    BY <2>1
  <2>3. m * Top = l * Top + d * Top + Top /\ l * Top \in Nat /\ d * Top \in Nat
    BY <1>1, <1>2, <2>2
  <2>4. QED
    BY <1>1, <2>3
<1>4. CASE m < l
  <2>1. l - m - 1 \in Nat /\ l = m + (l - m - 1) + 1
    BY <1>4
  <2>2. PICK d \in Nat : l = m + d + 1
    BY <2>1
  <2>3. l * Top = m * Top + d * Top + Top /\ m * Top \in Nat /\ d * Top \in Nat
    BY <1>1, <1>2, <2>2
  <2>4. QED
    BY <1>1, <2>3
<1>5. CASE l = m
  <2>1. l * Top \in Nat
    BY <1>1, <1>2
  <2>2. QED
    BY <1>1, <1>5, <2>1
<1>6. QED
  BY <1>3, <1>4, <1>5

\* No more trending posts are carried than the cap.
LEMMA TrendCapped ==
  ASSUME WorldTyped, NEW got, got.window \subseteq Hot, NEW ragged, ragged \subseteq Posts
  PROVE  Cardinality(TrendKept(got, ragged)) <= MaxTrendingSeen
<1> DEFINE before == [p \in ragged |-> {q \in ragged : SoonerReached(got, q, p)}]
<1>1. before \in [ragged -> SUBSET ragged]
      /\ \A p \in ragged : \A q \in ragged : q \in before[p] <=> SoonerReached(got, q, p)
  OBVIOUS
<1>2. IsFiniteSet(ragged) /\ ragged \subseteq Nat /\ MaxTrendingSeen \in Nat
  BY PostsAssumption, BoundsAssumption, FS_Subset
<1>3. \A p \in got.window : Key(p) \in Nat
  BY HotIs
<1>4. ASSUME NEW p \in got.window, NEW q \in got.window, Key(p) = Key(q) PROVE p = q
  <2>1. p \in Posts /\ q \in Posts /\ likes[p] \in Nat /\ likes[q] \in Nat
    BY BoundsAssumption DEF Hot, WorldTyped
  <2>2. likes[p] * Top + p = likes[q] * Top + q
    BY <1>4 DEF Key
  <2>3. QED
    BY <2>1, <2>2, KeysApart
<1>5. \A p \in ragged : p \notin before[p]
  <2> SUFFICES ASSUME NEW p \in ragged PROVE ~SoonerReached(got, p, p)
    BY <1>1
  <2>1. QED
    BY <1>2, <1>3 DEF SoonerReached
<1>6. \A p, q \in ragged : p = q \/ p \in before[q] \/ q \in before[p]
  <2> SUFFICES ASSUME NEW p \in ragged, NEW q \in ragged, p # q
               PROVE  SoonerReached(got, p, q) \/ SoonerReached(got, q, p)
    BY <1>1
  <2>1. CASE p \in got.window /\ q \in got.window
    <3>1. Key(p) # Key(q)
      BY <1>4, <2>1
    <3>2. QED
      BY <1>3, <2>1, <3>1 DEF SoonerReached
  <2>2. CASE p \notin got.window \/ q \notin got.window
    <3>1. p \in Nat /\ q \in Nat
      BY <1>2
    <3>2. QED
      BY <2>2, <3>1 DEF SoonerReached
  <2>3. QED
    BY <2>1, <2>2
<1>7. \A p, q \in ragged : p \in before[q] => before[p] \subseteq before[q]
  <2> SUFFICES ASSUME NEW p \in ragged, NEW q \in ragged, NEW x \in ragged,
                      SoonerReached(got, p, q), SoonerReached(got, x, p)
               PROVE  SoonerReached(got, x, q)
    BY <1>1
  <2>1. p \in Nat /\ q \in Nat /\ x \in Nat
    BY <1>2
  <2>2. QED
    BY <1>3, <2>1 DEF SoonerReached
<1>8. TrendKept(got, ragged) = FewBefore(ragged, before, MaxTrendingSeen)
  BY DEF TrendKept, FewBefore
<1>9. QED
  <2> HIDE DEF before
  <2>1. QED
    BY <1>1, <1>2, <1>5, <1>6, <1>7, <1>8, FewFirst

\* The cursor the client holds is one the server takes.
NeverRefused == cursor.at # "end" => Validate(cursor)

LEMMA MixAccepted ==
  ASSUME WorldTyped, CursorTyped, NEW got, NEW bad, NEW shown, NEW next,
         MixStep(got, bad, shown, next)
  PROVE  Validate(next)
<1>1. Paged(got, bad, shown, next)
  BY DEF MixStep
<1>2. \A o \in next.recSeen : o >= next.rec
  <2> SUFFICES ASSUME NEW o \in next.recSeen PROVE o >= next.rec
    OBVIOUS
  <2>1. ~RecSpent(got, shown) /\ o >= RecFrontier(got, shown)
    BY <1>1 DEF Paged, NextRecSeen
  <2>2. next.rec = RecFrontier(got, shown)
    BY <1>1, <2>1 DEF Paged, NextRec
  <2>3. QED
    BY <2>1, <2>2
<1>3. next.trendSeen # {} => next.trend # NoPosition
  BY <1>1 DEF Paged
<1>4. Cardinality(next.trendSeen) <= MaxTrendingSeen
  <2>1. CASE next.trendSeen = {}
    BY <2>1, FS_EmptySet, BoundsAssumption
  <2>2. CASE next.trendSeen # {}
    <3>1. next.trendSeen = TrendKept(got, Ragged(got, shown))
      BY <1>1, <2>2 DEF Paged
    <3>2. got.window \subseteq Hot
      BY <1>1 DEF Paged, Gathered, TrendRight, BelowTrend
    <3>3. Ragged(got, shown) \subseteq Posts
      BY DEF Ragged, TrendServed, CursorTyped, MixStep
    <3>4. QED
      BY <3>1, <3>2, <3>3, TrendCapped
  <2>3. QED
    BY <2>1, <2>2
<1>5. Cardinality(next.discSeen) <= MaxDiscoverSeen
  BY <1>1 DEF Paged
<1>6. QED
  BY <1>2, <1>3, <1>4, <1>5 DEF Validate

LEMMA DiscoverAccepted ==
  ASSUME NEW position, NEW seen \in SUBSET Posts, NEW shown,
         DiscoverWent(position, seen, shown), Cardinality(seen) <= MaxDiscoverSeen
  PROVE  NeverRefused'
<1>1. CASE cursor' = NoCursor
  BY <1>1 DEF NoCursor, FirstPage, NeverRefused
<1>2. ASSUME NEW last \in 1 .. Top, NEW rest \in SUBSET seen, cursor' = Discover(last, rest)
      PROVE  NeverRefused'
  <2>1. /\ cursor'.recSeen = {} /\ cursor'.trendSeen = {} /\ cursor'.discSeen = rest
    BY <1>2 DEF Discover, FirstPage
  <2>2. Cardinality(rest) <= MaxDiscoverSeen
    <3>1. IsFiniteSet(seen)
      BY PostsAssumption, FS_Subset
    <3>2. Cardinality(rest) <= Cardinality(seen) /\ Cardinality(rest) \in Nat
          /\ Cardinality(seen) \in Nat
      BY <3>1, FS_Subset, FS_CardinalityType
    <3>3. QED
      BY <3>2, BoundsAssumption
  <2>3. Cardinality({}) = 0 /\ 0 <= MaxTrendingSeen
    BY FS_EmptySet, BoundsAssumption
  <2>4. Validate(cursor')
    BY <2>1, <2>2, <2>3 DEF Validate
  <2>5. QED
    BY <2>4 DEF NeverRefused, Validate
<1>3. QED
  BY <1>1, <1>2 DEF DiscoverWent

LEMMA AcceptedKeeps ==
  ASSUME ScrollInv, NeverRefused, [Next]_vars PROVE NeverRefused'
<1>1. WorldTyped /\ CursorTyped
  BY DEF ScrollInv
<1>2. CASE GetMixed
  <2>1. AtMixed /\ Validate(cursor) /\ WorldSame
    BY <1>2 DEF GetMixed, AtMixed, WorldSame, world
  <2>2. PICK bad \in Failing :
          /\ failed' = failed \cup bad
          /\ \E got \in {Collect(bad)} : Mix(got, bad) \/ HandOff(got)
    BY <1>2 DEF GetMixed
  <2>3. PICK got : got = Collect(bad) /\ (Mix(got, bad) \/ HandOff(got))
    BY <2>2
  <2>4. CASE Mix(got, bad)
    <3>1. PICK shown, next : MixStep(got, bad, shown, next)
      BY <1>1, <2>1, <2>2, <2>3, <2>4, MixIs
    <3>2. Validate(next)
      BY <1>1, <3>1, MixAccepted
    <3>3. CASE cursor' = next
      BY <3>2, <3>3 DEF NeverRefused, Validate
    <3>4. CASE cursor' = NoCursor
      BY <3>4 DEF NeverRefused, NoCursor, FirstPage
    <3>5. QED
      BY <3>1, <3>3, <3>4 DEF MixStep
  <2>5. CASE HandOff(got)
    <3>1. cursor.fol \in 1 .. Top /\ cursor.discSeen \in SUBSET Posts
      BY <1>1 DEF CursorTyped
    <3>2. PICK shown \in SUBSET Posts : DiscoverWent(cursor.fol, cursor.discSeen, shown)
      BY <1>1, <2>5, <3>1, DiscoverGoes DEF HandOff
    <3>3. QED
      BY <2>1, <3>1, <3>2, DiscoverAccepted DEF Validate
  <2>6. QED
    BY <2>3, <2>4, <2>5
<1>3. CASE GetDiscover
  <2>1. Validate(cursor) /\ DiscoverPage(cursor.disc, cursor.discSeen)
    BY <1>3 DEF GetDiscover
  <2>2. cursor.disc \in 1 .. Top /\ cursor.discSeen \in SUBSET Posts
    BY <1>1 DEF CursorTyped
  <2>3. PICK shown \in SUBSET Posts : DiscoverWent(cursor.disc, cursor.discSeen, shown)
    BY <1>1, <2>1, <2>2, DiscoverGoes
  <2>4. QED
    BY <2>1, <2>2, <2>3, DiscoverAccepted DEF Validate
<1>4. CASE RebuildTrending \/ UNCHANGED vars
  <2>1. cursor' = cursor
    BY <1>4 DEF RebuildTrending, vars
  <2>2. QED
    BY <2>1 DEF NeverRefused, Validate
<1>5. QED
  BY <1>2, <1>3, <1>4 DEF Next

LEMMA AcceptedStarts == Init => NeverRefused
<1> SUFFICES ASSUME Init PROVE NeverRefused
  OBVIOUS
<1>1. cursor.recSeen = {} /\ cursor.trendSeen = {} /\ cursor.discSeen = {}
  BY DEF Init, FirstPage
<1>2. QED
  BY <1>1, FS_EmptySet, BoundsAssumption DEF NeverRefused, Validate

-----------------------------------------------------------------------------
(* The run.                                                                *)

LEMMA ScrollInvariant == MCSpec => []ScrollInv /\ []NeverRefused
<1>1. MCInit => ScrollInv /\ NeverRefused
  BY ScrollStarts, AcceptedStarts DEF MCInit
<1>2. ScrollInv /\ NeverRefused /\ [MCNext]_all => (ScrollInv /\ NeverRefused)'
  <2>1. [MCNext]_all => [Next]_vars
    BY DEF MCNext, all, Scrolling
  <2>2. QED
    BY <2>1, ScrollKeeps, AcceptedKeeps
<1>3. QED
  BY <1>1, <1>2, PTL DEF MCSpec

(* The cursor a page ends with is one that the next request accepts: no    *)
(* seen offset below its position, no seen list without one, and neither   *)
(* list longer than its cap (FeedCursor.Validate), whatever was ranked,    *)
(* failed or moved.  A refused cursor would end the scroll with a 400.     *)
THEOREM NoCursorRefused == MCSpec => []NeverRefused
BY ScrollInvariant, PTL

(* No source hands out a post it was charged for before, no position moves *)
(* over something nobody was shown, and a scroll ends with nothing left    *)
(* but what a hand-off left past its windows (nextMixedCursor, sourcesDry, *)
(* GetFeed), for any posts, page size, caps, provider list and failures.   *)
THEOREM ScrollsExact == MCSpec => []ScrollExact
<1>1. ScrollInv => ScrollExact
  BY ScrollHolds DEF ScrollExact
<1>2. QED
  BY <1>1, ScrollInvariant, PTL

(* Discover continues with posts that were on no page before, whatever     *)
(* source served them, whatever failed and however the trending list       *)
(* moved, but for what a full cursor dropped (carryDiscoverSeen).          *)
THEOREM DiscoverNeverRepeats == MCSpec => []DiscoverFresh
<1>1. ScrollInv => DiscoverFresh
  BY ScrollHolds
<1>2. QED
  BY <1>1, ScrollInvariant, PTL
=============================================================================
