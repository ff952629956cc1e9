--------------------------- MODULE MCLivePromotion ---------------------------
(***************************************************************************)
(* LivePromotion with two administrators and an operator.  The keeping of  *)
(* the freshness alert and the promotions share the evidence and nothing   *)
(* else, so a behaviour explores one side of the system or the other.      *)
(***************************************************************************)
EXTENDS LivePromotion

VARIABLE side

MCRole == [o \in Operator |-> IF o = "olga" THEN "operator" ELSE "admin"]

MCInit == Init /\ side \in {"alert", "promotion"}

(* The rehearsals of an operator, which sync nothing *)
ByHand ==
  \/ Start("manual") \/ Lost("manual") \/ Tick
  \/ \E status \in {"passed", "failed"} : Record("manual", status)

AlertSide == side = "alert" /\ UNCHANGED <<promotionVars, side>>
PromotionSide == side = "promotion" /\ UNCHANGED side

MCNext ==
  \/ AlertSide /\ RehearsalNext
  \/ PromotionSide /\ PromotionNext
  \/ PromotionSide /\ ByHand /\ UNCHANGED promotionVars

(* The status is read again and again; nothing is assumed of the rehearsals,*)
(* the cron job, or time.                                                   *)
MCSpec ==
  /\ MCInit /\ [][MCNext]_<<vars, side>>
  /\ WF_vars(AlertSide /\ BeginSync) /\ WF_vars(AlertSide /\ SyncStep("status"))

(* The liveness of the alert, on the side where it is kept *)
AlertFollows == side = "alert" => FreshnessAlertFollows
=============================================================================
