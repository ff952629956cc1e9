------------------------ MODULE LivePromotion_proofs ------------------------
(***************************************************************************)
(* Proofs about LivePromotion, for any set of operators, roles, records    *)
(* and rehearsals.                                                         *)
(***************************************************************************)
EXTENDS LivePromotion, TLAPS

(* What the workflow and its environment may do to the promotion variables *)
Environmental ==
  \/ Overlay \/ LeaveLive \/ EmergencyStop \/ ResetKill
  \/ \E h \in {"healthy", "degraded", "broken"} : HealthChanges(h)

Begins(o) ==
  \E id \in Id : \/ \E target \in Live : BeginRequest(o, id, target)
                 \/ \E kind \in Kind : BeginDecision(o, kind, id)

(* A step of the system is a step of the environment or of one handler, or  *)
(* leaves the promotion variables alone.                                    *)
LEMMA Steps ==
  ASSUME [Next]_vars
  PROVE  \/ UNCHANGED promotionVars
         \/ Environmental
         \/ \E o \in Operator :
              Begins(o) \/ Load(o) \/ Gate(o) \/ SetMode(o) \/ Save(o) \/ Abandon(o)
  BY DEF Next, PromotionNext, HandlerStep, Begins, Environmental, vars

-----------------------------------------------------------------------------
(* Types *)

LEMMA InitTypes == Init => PromotionTypeOK
<1>1. NoRecord \in Promotion
  BY DEF NoRecord, Promotion
<1>2. Idle \in Call /\ Idle.pc = "idle"
  BY <1>1 DEF Idle, Call
<1>3. PaperMode \in Modes
  BY DEF Modes
<1> QED BY <1>1, <1>2, <1>3 DEF Init, PromotionTypeOK, At

(* The environment changes no record and no handler. *)
LEMMA EnvironmentTypes ==
  ASSUME PromotionTypeOK, Environmental
  PROVE  PromotionTypeOK'
<1> USE DEF PromotionTypeOK, At
<1>1. CASE Overlay
  BY <1>1 DEF Overlay, Settles
<1>2. CASE LeaveLive
  BY <1>2 DEF LeaveLive, Modes
<1>3. CASE EmergencyStop
  BY <1>3 DEF EmergencyStop, Settles, PastChecks
<1>4. CASE ResetKill
  BY <1>4 DEF ResetKill, Settles
<1>5. ASSUME NEW h \in {"healthy", "degraded", "broken"}, HealthChanges(h)
      PROVE  PromotionTypeOK'
  BY <1>5 DEF HealthChanges
<1> QED BY <1>1, <1>2, <1>3, <1>4, <1>5 DEF Environmental

(* A handler's step keeps the types. *)
LEMMA HandlerTypes ==
  ASSUME PromotionTypeOK, NEW o \in Operator,
         Begins(o) \/ Load(o) \/ Gate(o) \/ SetMode(o) \/ Save(o) \/ Abandon(o)
  PROVE  PromotionTypeOK'
<1> USE DEF PromotionTypeOK, At, Goto
<1>0. /\ call[o] \in Call /\ call[o].copy \in Promotion
      /\ Idle \in Call /\ Idle.pc = "idle"
  BY DEF Call, Idle, NoRecord, Promotion
<1>1. CASE Begins(o)
  <2>1. ASSUME NEW id \in Id, NEW target \in Live, BeginRequest(o, id, target)
        PROVE  PromotionTypeOK'
    <3>1. [Idle EXCEPT !.pc = "gate", !.kind = "request", !.id = id, !.copy.target = target]
            \in {c \in Call : c.id \in Id}
      BY DEF Idle, Call, Kind, Promotion, NoRecord
    <3> QED BY <2>1, <3>1 DEF BeginRequest, Environment
  <2>2. ASSUME NEW id \in Id, NEW kind \in Kind, BeginDecision(o, kind, id)
        PROVE  PromotionTypeOK'
    <3>1. [Idle EXCEPT !.pc = "load", !.kind = kind, !.id = id] \in {c \in Call : c.id \in Id}
      BY DEF Idle, Call, Promotion, NoRecord
    <3> QED BY <2>2, <3>1 DEF BeginDecision, Environment
  <2> QED BY <1>1, <2>1, <2>2 DEF Begins
<1>2. CASE Load(o)
  <2>1. records[call[o].id] \in Promotion
    BY <1>2 DEF Load
  <2>2. call'[o] \in Call /\ (call'[o].pc # "idle" => call'[o].id \in Id)
    BY <1>0, <1>2, <2>1 DEF Load, Call, Status
  <2> QED BY <1>2, <2>2 DEF Load, Environment
<1>3. CASE Gate(o)
  <2> DEFINE seen == IF call[o].kind = "request" THEN [call[o] EXCEPT !.copy.previous = applied]
                     ELSE call[o]
  <2>1. seen \in Call /\ seen.id = call[o].id
    BY <1>0 DEF Call, Promotion
  <2>2. \/ call'[o] = [seen EXCEPT !.pc = "save", !.next = "blocked"]
        \/ call'[o] = [seen EXCEPT !.pc = "set"]
        \/ call'[o] = [seen EXCEPT !.pc = "save", !.next = "pending"]
        \/ call'[o] = [seen EXCEPT !.pc = "save", !.next = "approved"]
    BY <1>3 DEF Gate
  <2>3. call[o].id \in Id
    BY <1>3 DEF Gate
  <2> HIDE DEF seen
  <2>4. call'[o] \in Call /\ call'[o].id = seen.id
    BY <2>1, <2>2 DEF Call, Status
  <2> QED BY <1>3, <2>1, <2>3, <2>4 DEF Gate, Environment
<1>4. CASE SetMode(o)
  <2>1. call'[o] \in Call /\ call'[o].id \in Id
    BY <1>0, <1>4 DEF SetMode, Call, Status
  <2>2. requested' \in Modes \cup {"none"}
    BY <1>0, <1>4 DEF SetMode, Promotion, Modes
  <2> QED BY <1>4, <2>1, <2>2 DEF SetMode
<1>5. CASE Save(o)
  <2>1. [call[o].copy EXCEPT !.status = call[o].next] \in Promotion
    BY <1>0 DEF Call, Promotion
  <2>2. approved' \subseteq Live \cup {"none"}
    BY <1>0, <1>5, <2>1 DEF Save, Promotion
  <2> QED BY <1>0, <1>5, <2>1, <2>2 DEF Save, Environment
<1>6. CASE Abandon(o)
  BY <1>0, <1>6 DEF Abandon
<1> QED BY <1>1, <1>2, <1>3, <1>4, <1>5, <1>6

(* Every variable of the workflow keeps its type. *)
THEOREM PromotionTypes == Spec => []PromotionTypeOK
<1>1. Init => PromotionTypeOK
  BY InitTypes
<1>2. PromotionTypeOK /\ [Next]_vars => PromotionTypeOK'
  <2> SUFFICES ASSUME PromotionTypeOK, [Next]_vars PROVE PromotionTypeOK'
    OBVIOUS
  <2>1. CASE UNCHANGED promotionVars
    BY <2>1 DEF PromotionTypeOK, promotionVars, At
  <2> QED BY <2>1, Steps, EnvironmentTypes, HandlerTypes
<1> QED BY <1>1, <1>2, PTL DEF Spec

-----------------------------------------------------------------------------
(* No live mode without its approval *)

(* What a record says was approved, was: its target once it is approved,    *)
(* and the live mode it would go back to.                                   *)
Backed(record) ==
  /\ record.status \in {"approved", "applied"} => record.target \in approved
  /\ record.previous \in Live => record.previous \in approved

(* The inductive invariant: the modes, the records, the handlers' copies    *)
(* and what they are about to do with them.  An apply past its status check *)
(* holds an approved copy, whatever became of the record since.             *)
ApprovalInv ==
  /\ LiveWasApproved
  /\ applied \in Live => applied \in approved
  /\ \A id \in Id : Backed(records[id])
  /\ \A o \in Operator :
       /\ Backed(call[o].copy)
       /\ call[o].kind = "apply" /\ call[o].pc \in {"gate", "set"} => call[o].copy.status = "approved"
       /\ call[o].pc = "save" /\ call[o].next = "applied" => call[o].copy.target \in approved

LEMMA ApprovalInit == Init => ApprovalInv
  BY PromotionConstants DEF Init, ApprovalInv, LiveWasApproved, Backed, NoRecord, Idle, Live

LEMMA ApprovalEnvironment ==
  ASSUME ApprovalInv, Environmental
  PROVE  ApprovalInv'
<1> USE DEF ApprovalInv, LiveWasApproved, Backed
<1>1. CASE Overlay
  BY <1>1 DEF Overlay, Settles
<1>2. CASE LeaveLive
  BY <1>2, PromotionConstants DEF LeaveLive
<1>3. CASE EmergencyStop
  BY <1>3 DEF EmergencyStop, Settles
<1>4. CASE ResetKill
  BY <1>4 DEF ResetKill, Settles
<1>5. ASSUME NEW h \in {"healthy", "degraded", "broken"}, HealthChanges(h)
      PROVE  ApprovalInv'
  BY <1>5 DEF HealthChanges
<1> QED BY <1>1, <1>2, <1>3, <1>4, <1>5 DEF Environmental

(* A handler that changes its own state alone keeps the invariant if the    *)
(* state it comes to is covered by it.                                      *)
LEMMA LocalStep ==
  ASSUME PromotionTypeOK, ApprovalInv, NEW o \in Operator, NEW local,
         UNCHANGED <<records, requested, applied, approved>>,
         call' = [call EXCEPT ![o] = local],
         Backed(local.copy),
         local.kind = "apply" /\ local.pc \in {"gate", "set"} => local.copy.status = "approved",
         local.pc = "save" /\ local.next = "applied" => local.copy.target \in approved
  PROVE  ApprovalInv'
  BY DEF PromotionTypeOK, ApprovalInv, LiveWasApproved, Backed

LEMMA ApprovalHandler ==
  ASSUME PromotionTypeOK, ApprovalInv, NEW o \in Operator,
         Begins(o) \/ Load(o) \/ Gate(o) \/ SetMode(o) \/ Save(o) \/ Abandon(o)
  PROVE  ApprovalInv'
<1>0. /\ call \in [Operator -> Call] /\ call[o] \in Call /\ call[o].copy \in Promotion
      /\ Backed(Idle.copy) /\ Idle.kind = "none" /\ Idle.next = "none"
      /\ Idle.copy.status = "none"
  BY DEF PromotionTypeOK, Call, Idle, NoRecord, Backed, Live
<1>1. CASE Begins(o)
  <2>1. ASSUME NEW id \in Id, NEW target \in Live, BeginRequest(o, id, target)
        PROVE  ApprovalInv'
    <3> DEFINE local == [Idle EXCEPT !.pc = "gate", !.kind = "request", !.id = id,
                                     !.copy.target = target]
    <3>1. Backed(local.copy) /\ local.kind = "request" /\ local.next = "none"
      BY DEF Backed, Idle, NoRecord, Live
    <3>2. call' = [call EXCEPT ![o] = local] /\ UNCHANGED <<records, requested, applied, approved>>
      BY <2>1 DEF BeginRequest, Goto
    <3> HIDE DEF local
    <3> QED BY <3>1, <3>2, LocalStep
  <2>2. ASSUME NEW id \in Id, NEW kind \in Kind, BeginDecision(o, kind, id)
        PROVE  ApprovalInv'
    <3> DEFINE local == [Idle EXCEPT !.pc = "load", !.kind = kind, !.id = id]
    <3>1. Backed(local.copy) /\ local.pc = "load" /\ local.next = "none"
      BY DEF Backed, Idle, NoRecord, Live
    <3>2. call' = [call EXCEPT ![o] = local] /\ UNCHANGED <<records, requested, applied, approved>>
      BY <2>2 DEF BeginDecision, Goto
    <3> HIDE DEF local
    <3> QED BY <3>1, <3>2, LocalStep
  <2> QED BY <1>1, <2>1, <2>2 DEF Begins
<1>2. CASE Load(o)
  <2> DEFINE local == call'[o]
  <2>1. call' = [call EXCEPT ![o] = local]
    BY <1>0, <1>2 DEF Load, Goto
  <2>2. Backed(records[call[o].id])
    BY <1>2 DEF Load, At, PromotionTypeOK, ApprovalInv
  <2>3. \/ local = Idle
        \/ /\ local.copy = records[call[o].id]
           /\ local.pc = "save" => local.next = "denied"
           /\ local.kind = "apply" => local.copy.status = "approved"
    BY <1>0, <1>2 DEF Load, Goto, Refused, Call
  <2>4. UNCHANGED <<records, requested, applied, approved>>
    BY <1>2 DEF Load
  <2> HIDE DEF local
  <2> QED BY <1>0, <2>1, <2>2, <2>3, <2>4, LocalStep
<1>3. CASE Gate(o)
  <2> DEFINE local == call'[o]
  <2>1. call' = [call EXCEPT ![o] = local]
    BY <1>0, <1>3 DEF Gate, Goto
  <2>2. UNCHANGED <<records, requested, applied, approved>>
    BY <1>3 DEF Gate
  <2>3. \/ local.copy = call[o].copy
        \/ /\ call[o].kind = "request"
           /\ local.copy = [call[o].copy EXCEPT !.previous = applied]
    BY <1>0, <1>3 DEF Gate, Goto, Call
  <2>4. /\ local.kind = call[o].kind
        /\ local.pc = "save" => local.next # "applied"
    BY <1>0, <1>3 DEF Gate, Goto, Call
  <2>5. /\ Backed(call[o].copy) /\ applied \in Live => applied \in approved
        /\ call[o].kind = "apply" => call[o].copy.status = "approved"
    BY <1>3 DEF ApprovalInv, Gate, At
  <2>6. Backed(call[o].copy)
    BY DEF ApprovalInv
  <2>7. Backed([call[o].copy EXCEPT !.previous = applied])
    BY <1>0, <2>6 DEF ApprovalInv, Backed, Promotion
  <2> HIDE DEF local
  <2> QED BY <2>1, <2>2, <2>3, <2>4, <2>5, <2>6, <2>7, LocalStep
<1>4. CASE SetMode(o)
  <2>1. Backed(call[o].copy)
    BY DEF ApprovalInv
  <2>2. call[o].kind = "apply" => call[o].copy.target \in approved
    BY <1>4, <2>1 DEF ApprovalInv, SetMode, At, Backed
  <2>3. requested' \in Live => requested' \in approved
    BY <1>4, <2>1, <2>2 DEF SetMode, Backed
  <2>4. /\ call'[o].copy = call[o].copy /\ call'[o].pc = "save"
        /\ call'[o].next = "applied" => call[o].copy.target \in approved
        /\ \A p \in Operator \ {o} : call'[p] = call[p]
    BY <1>0, <1>4, <2>2 DEF SetMode, Goto, Call
  <2> QED BY <1>4, <2>1, <2>3, <2>4 DEF SetMode, ApprovalInv, LiveWasApproved, Backed
<1>5. CASE Save(o)
  <2> DEFINE saved == [call[o].copy EXCEPT !.status = call[o].next]
  <2>1. approved \subseteq approved'
    BY <1>5 DEF Save
  <2>2. Backed(call[o].copy)
    BY DEF ApprovalInv
  <2>3. /\ saved.target = call[o].copy.target /\ saved.previous = call[o].copy.previous
        /\ saved.status = call[o].next
    BY <1>0 DEF Promotion
  <2>4. /\ saved.status = "approved" => saved.target \in approved'
        /\ saved.status = "applied" => saved.target \in approved'
    BY <1>5, <2>1, <2>3 DEF Save, At, ApprovalInv
  <2>5. /\ saved.status \in {"approved", "applied"} => saved.target \in approved'
        /\ saved.previous \in Live => saved.previous \in approved'
    BY <2>1, <2>2, <2>3, <2>4 DEF Backed
  <2>6. \A id \in Id : records'[id] = records[id] \/ records'[id] = saved
    BY <1>5 DEF Save, PromotionTypeOK
  <2>7. \A p \in Operator : call'[p] = call[p] \/ call'[p] = Idle
    BY <1>0, <1>5 DEF Save, Goto
  <2> HIDE DEF saved
  <2> QED BY <1>0, <1>5, <2>1, <2>5, <2>6, <2>7 DEF Save, ApprovalInv, LiveWasApproved, Backed
<1>6. CASE Abandon(o)
  BY <1>0, <1>6, LocalStep DEF Abandon, Goto
<1> QED BY <1>1, <1>2, <1>3, <1>4, <1>5, <1>6

(* However handlers and the records they overwrite interleave, the          *)
(* requested mode is live only after a promotion to it was approved.        *)
THEOREM LiveOnlyAfterApproval == Spec => []LiveWasApproved
<1>1. Init => ApprovalInv
  BY ApprovalInit
<1>2. PromotionTypeOK /\ ApprovalInv /\ [Next]_vars => ApprovalInv'
  <2> SUFFICES ASSUME PromotionTypeOK, ApprovalInv, [Next]_vars PROVE ApprovalInv'
    OBVIOUS
  <2>1. CASE UNCHANGED promotionVars
    BY <2>1 DEF promotionVars, ApprovalInv, LiveWasApproved, Backed
  <2> QED BY <2>1, Steps, ApprovalEnvironment, ApprovalHandler
<1>3. ApprovalInv => LiveWasApproved
  BY DEF ApprovalInv
<1> QED BY <1>1, <1>2, <1>3, PromotionTypes, PTL DEF Spec

-----------------------------------------------------------------------------
(* The kill switch *)

(* While the kill switch is on, the handlers with no check left are among   *)
(* those it overtook.                                                       *)
OvertakenInv == kill => PastChecks \subseteq overtaken

LEMMA OvertakenStep ==
  ASSUME PromotionTypeOK, OvertakenInv, [Next]_vars
  PROVE  OvertakenInv'
<1> USE DEF OvertakenInv, PastChecks, At
<1>1. CASE UNCHANGED promotionVars
  BY <1>1 DEF promotionVars
<1>2. CASE Environmental
  <2>1. CASE Overlay
    BY <2>1 DEF Overlay
  <2>2. CASE LeaveLive
    BY <2>2 DEF LeaveLive
  <2>3. CASE EmergencyStop
    BY <2>3 DEF EmergencyStop
  <2>4. CASE ResetKill
    BY <2>4 DEF ResetKill
  <2>5. CASE \E h \in {"healthy", "degraded", "broken"} : HealthChanges(h)
    BY <2>5 DEF HealthChanges
  <2> QED BY <1>2, <2>1, <2>2, <2>3, <2>4, <2>5 DEF Environmental
<1>3. ASSUME NEW o \in Operator,
             Begins(o) \/ Load(o) \/ Gate(o) \/ SetMode(o) \/ Save(o) \/ Abandon(o)
      PROVE  OvertakenInv'
  <2>0. call \in [Operator -> Call] /\ call[o] \in Call /\ Idle.pc = "idle"
    BY DEF PromotionTypeOK, Idle
  <2>1. CASE Begins(o)
    BY <2>1 DEF Begins, BeginRequest, BeginDecision, Admitted, Environment
  <2>2. CASE Load(o)
    <3>1. call'[o].pc = "set" => call[o].kind = "rollback" /\ call[o].pc = "load"
      BY <2>0, <2>2 DEF Load, Goto, Call, Kind
    <3>2. call'[o].pc # "load"
      BY <2>0, <2>2 DEF Load, Goto, Call
    <3>3. \A p \in Operator \ {o} : call'[p] = call[p]
      BY <2>0, <2>2 DEF Load, Goto
    <3> QED BY <2>2, <3>1, <3>2, <3>3 DEF Load, Environment
  <2>3. CASE Gate(o)
    <3>1. kill => call'[o].pc = "save"
      BY <2>0, <2>3 DEF Gate, Goto, GateAllows, Call
    <3>2. \A p \in Operator \ {o} : call'[p] = call[p]
      BY <2>0, <2>3 DEF Gate, Goto
    <3> QED BY <2>3, <3>1, <3>2 DEF Gate, Environment
  <2>4. CASE SetMode(o)
    <3>1. call'[o].pc = "save" /\ \A p \in Operator \ {o} : call'[p] = call[p]
      BY <2>0, <2>4 DEF SetMode, Goto, Call
    <3> QED BY <2>4, <3>1 DEF SetMode
  <2>5. CASE Save(o)
    BY <2>0, <2>5 DEF Save, Goto, Environment
  <2>6. CASE Abandon(o)
    BY <2>0, <2>6 DEF Abandon, Goto
  <2> QED BY <1>3, <2>1, <2>2, <2>3, <2>4, <2>5, <2>6
<1> QED BY <1>1, <1>2, <1>3, Steps

(* Under the kill switch the mode changes only at the hand of a handler     *)
(* that was past its last check when the switch was thrown.                 *)
THEOREM KillBounds == Spec => KillBoundsPromotions
<1>1. Init => OvertakenInv
  BY DEF Init, OvertakenInv
<1>2. PromotionTypeOK /\ OvertakenInv /\ [Next]_vars
        => [kill /\ requested' # requested => \E o \in overtaken : call'[o] # call[o]]_vars
  <2> SUFFICES ASSUME PromotionTypeOK, OvertakenInv, [Next]_vars, kill, requested' # requested
               PROVE  \E o \in overtaken : call'[o] # call[o]
    OBVIOUS
  <2>1. ~UNCHANGED promotionVars
    BY DEF promotionVars
  <2>2. ~Environmental
    BY DEF Environmental, Overlay, LeaveLive, EmergencyStop, ResetKill, HealthChanges
  <2>3. PICK o \in Operator :
          Begins(o) \/ Load(o) \/ Gate(o) \/ SetMode(o) \/ Save(o) \/ Abandon(o)
    BY <2>1, <2>2, Steps
  <2>4. SetMode(o)
    BY <2>3 DEF Begins, BeginRequest, BeginDecision, Load, Gate, Save, Abandon
  <2>5. o \in overtaken
    BY <2>4 DEF SetMode, OvertakenInv, PastChecks
  <2>6. call'[o].pc = "save" /\ call[o].pc = "set"
    BY <2>4 DEF SetMode, Goto, At, PromotionTypeOK, Call
  <2> QED BY <2>5, <2>6
<1>3. PromotionTypeOK /\ OvertakenInv /\ [Next]_vars => OvertakenInv'
  BY OvertakenStep
<1> QED BY <1>1, <1>2, <1>3, PromotionTypes, PTL DEF Spec, KillBoundsPromotions
-----------------------------------------------------------------------------
(* The rehearsals.  The gate looks at the latest rehearsal and the status   *)
(* at the latest that passed as well; both exist because rehearsals are     *)
(* recorded one at a time, in any order of their starts.                    *)

Rehearsed == [at : Nat \ {0}, status : {"passed", "failed"}, source : Source]

HasLatest(set) == set # {} => \E e \in set : \A f \in set : f.at <= e.at

EvidenceInv ==
  /\ clock \in Nat /\ running \in [Source -> Nat]
  /\ evidence \subseteq Rehearsed
  /\ HasLatest(evidence) /\ HasLatest(Passed(evidence))

LEMMA LatestAdded ==
  ASSUME NEW set \in SUBSET Rehearsed, HasLatest(set), NEW e \in Rehearsed
  PROVE  HasLatest(set \cup {e})
<1>1. e.at \in Nat /\ \A f \in set : f.at \in Nat
  BY DEF Rehearsed
<1>2. CASE set = {}
  BY <1>1, <1>2 DEF HasLatest
<1>3. CASE set # {}
  <2>1. PICK m \in set : \A f \in set : f.at <= m.at
    BY <1>3 DEF HasLatest
  <2>2. CASE e.at <= m.at
    BY <1>1, <2>1, <2>2 DEF HasLatest
  <2>3. CASE ~(e.at <= m.at)
    <3>1. \A f \in set \cup {e} : f.at <= e.at
      BY <1>1, <2>1, <2>3
    <3> QED
      BY <3>1 DEF HasLatest
  <2> QED
    BY <2>2, <2>3
<1> QED
  BY <1>2, <1>3

LEMMA LatestIsLatest ==
  ASSUME NEW set \in SUBSET Rehearsed, HasLatest(set), set # {}
  PROVE  LatestOf(set) \in set /\ \A f \in set : f.at <= LatestOf(set).at
BY DEF LatestOf, HasLatest

(* A rehearsal is recorded. *)
LEMMA EvidenceRecorded ==
  ASSUME EvidenceInv, NEW source \in Source, NEW status \in {"passed", "failed"},
         Record(source, status)
  PROVE  EvidenceInv'
<1> DEFINE e == [at |-> running[source], status |-> status, source |-> source]
<1>1. /\ running[source] \in Nat \ {0} /\ evidence' = evidence \cup {e}
      /\ running' = [running EXCEPT ![source] = 0] /\ clock' = clock
  BY DEF Record, EvidenceInv
<1>2. e \in Rehearsed /\ e.status = status
  BY <1>1 DEF Rehearsed
<1> HIDE DEF e
<1>3. HasLatest(evidence')
  BY <1>1, <1>2, LatestAdded DEF EvidenceInv
<1>4. HasLatest(Passed(evidence'))
  <2>1. Passed(evidence) \in SUBSET Rehearsed
    BY DEF Passed, EvidenceInv
  <2>2. Passed(evidence') \in {Passed(evidence), Passed(evidence) \cup {e}}
    BY <1>1 DEF Passed
  <2> QED
    BY <1>2, <2>1, <2>2, LatestAdded DEF EvidenceInv
<1>5. running' \in [Source -> Nat] /\ evidence' \subseteq Rehearsed
  BY <1>1, <1>2 DEF EvidenceInv
<1> QED
  BY <1>1, <1>3, <1>4, <1>5 DEF EvidenceInv

LEMMA EvidenceStep ==
  ASSUME EvidenceInv, [Next]_vars
  PROVE  EvidenceInv'
<1>1. ASSUME UNCHANGED evidence, clock' \in {clock, clock + 1}, running' \in [Source -> Nat]
      PROVE  EvidenceInv'
  BY <1>1 DEF EvidenceInv
<1>2. CASE PromotionNext
  <2>1. UNCHANGED <<clock, rehearsalVars>>
    BY <1>2 DEF PromotionNext, HandlerStep, BeginRequest, BeginDecision, Load, Gate, SetMode, Save,
                Abandon, Overlay, LeaveLive, EmergencyStop, ResetKill, HealthChanges, Elsewhere
  <2> QED
    BY <1>1, <2>1 DEF rehearsalVars, EvidenceInv
<1>3. CASE RehearsalNext
  <2>1. CASE \/ BeginSync \/ Dispatch \/ SaveSummary
             \/ \E s \in Syncer : SyncStep(s) \/ SyncFails(s)
    <3>1. UNCHANGED <<clock, evidence, running>>
      BY <2>1 DEF BeginSync, Dispatch, SaveSummary, SyncStep, ReadEvidence, ReadAlert, SaveAlert,
                  SyncFails
    <3> QED
      BY <1>1, <3>1 DEF EvidenceInv
  <2>2. ASSUME NEW source \in Source, Start(source) \/ Lost(source)
        PROVE  EvidenceInv'
    <3>1. UNCHANGED evidence /\ clock' \in {clock, clock + 1}
      BY <2>2 DEF Start, Lost
    <3>2. running' \in [Source -> Nat]
      BY <2>2 DEF Start, Lost, EvidenceInv
    <3> QED
      BY <1>1, <3>1, <3>2
  <2>3. CASE Tick
    BY <1>1, <2>3 DEF Tick, rehearsalVars, EvidenceInv
  <2> QED
    BY <1>3, <2>1, <2>2, <2>3, EvidenceRecorded DEF RehearsalNext
<1>4. CASE UNCHANGED vars
  BY <1>4 DEF vars, rehearsalVars, EvidenceInv
<1> QED
  BY <1>2, <1>3, <1>4 DEF Next

LEMMA GateAndFreshness == EvidenceInv => GateAgreesWithFreshness
<1> SUFFICES ASSUME EvidenceInv, NEW now \in 0..MaxClock
             PROVE  GateStatus(evidence, now) = "fresh" <=> ~Blocked(Freshness(evidence, now))
  BY DEF GateAgreesWithFreshness
<1> DEFINE latest == LatestOf(evidence)
           success == LatestOf(Passed(evidence))
<1>1. CASE evidence = {}
  <2>1. latest = NoEvidence /\ NoEvidence.status = "none"
    BY <1>1 DEF LatestOf, NoEvidence
  <2>2. GateStatus(evidence, now) = "missing"
    BY <2>1 DEF GateStatus
  <2>3. Freshness(evidence, now) = "unknown"
    BY <2>1 DEF Freshness
  <2> QED
    BY <2>2, <2>3 DEF Blocked
<1>2. CASE evidence # {}
  <2>1. latest \in evidence /\ \A f \in evidence : f.at <= latest.at
    BY <1>2, LatestIsLatest DEF EvidenceInv
  <2>2. latest.status \in {"passed", "failed"} /\ latest.at \in Nat /\ latest # NoEvidence
    BY <2>1 DEF EvidenceInv, Rehearsed, NoEvidence
  <2>3. CASE latest.status = "failed"
    BY <2>2, <2>3 DEF GateStatus, Freshness, Blocked
  <2>4. CASE latest.status = "passed"
    <3>1. latest \in Passed(evidence) /\ Passed(evidence) \subseteq evidence
      BY <2>1, <2>4 DEF Passed
    <3>2. success \in Passed(evidence) /\ \A f \in Passed(evidence) : f.at <= success.at
      BY <3>1, LatestIsLatest DEF EvidenceInv
    <3>3. success.at \in Nat
      BY <3>1, <3>2 DEF EvidenceInv, Rehearsed
    <3>4. success.at = latest.at
      BY <2>1, <2>2, <3>1, <3>2, <3>3
    <3>5. Age(success, now) = Age(latest, now)
      BY <3>4 DEF Age
    <3>6. GateStatus(evidence, now) = IF Age(latest, now) > Window THEN "stale" ELSE "fresh"
      BY <2>2, <2>4 DEF GateStatus
    <3>7. CASE Age(latest, now) > Window
      BY <2>2, <2>4, <3>5, <3>6, <3>7 DEF Freshness, Blocked
    <3>8. CASE ~(Age(latest, now) > Window)
      <4>1. Freshness(evidence, now) \in {"warning", "healthy"}
        BY <2>2, <2>4, <3>5, <3>8 DEF Freshness
      <4> QED
        BY <3>6, <3>8, <4>1 DEF Blocked
    <3> QED
      BY <3>7, <3>8
  <2> QED
    BY <2>2, <2>3, <2>4
<1> QED
  BY <1>1, <1>2

(* Whatever rehearsals are recorded, lost and run next to each other, the   *)
(* promotion gate and the freshness status agree on whether a promotion may *)
(* go ahead.                                                                *)
THEOREM GateAlwaysAgrees == Spec => []GateAgreesWithFreshness
<1>1. Init => EvidenceInv
  BY DEF Init, RehearsalInit, EvidenceInv, HasLatest, Passed
<1>2. EvidenceInv /\ [Next]_vars => EvidenceInv'
  BY EvidenceStep
<1> QED
  BY <1>1, <1>2, GateAndFreshness, PTL DEF Spec

=============================================================================
