------------------------------ MODULE MCContent ------------------------------
(***************************************************************************)
(* Content and its approval, planning, keywords, knowledge and research    *)
(* share no state that their properties are about, so each behaviour is    *)
(* about one of them.                                                      *)
(***************************************************************************)
EXTENDS ContentApproval, PlanningBriefs, PlanningTopics, KeywordResearch, KnowledgeSources,
        ResearchRuns
VARIABLE focus
planVars == <<pbVars, ptVars>>
sourceVars == <<kwVars, kaVars, ksVars, rsVars>>
vars == <<focus, qVars, planVars, sourceVars>>

\* Two approval stages: one person, then two people.
Quorum == <<1, 2>>
Approvers == <<{"p1"}, {}>>
Approved == [NewBrief EXCEPT !.status = "APPROVED", !.stage = 2]
ApprovedBy ==
  {[version |-> 1, stage |-> x[1], by |-> x[2], kind |-> "APPROVE", saw |-> 1] :
     x \in {<<1, "p1">>, <<2, "p1">>, <<2, "p2">>}}

Item(s, b) == [slot |-> s, brief |-> b]
Plans == {<<Item(1, FALSE), Item(2, TRUE)>>, <<Item(1, FALSE)>>}

Tree(f) ==
  CASE f = "grow" -> [n \in {"a", "a1"} |-> IF n = "a1" THEN "a" ELSE NoTopic]
    [] OTHER -> [n \in {"a", "b", "b1"} |-> IF n = "b1" THEN "b" ELSE NoTopic]

KeywordOrder == <<"x", "y", "r", "s">>
KeywordInput == [j \in {"j1", "j2"} |-> IF j = "j1" THEN {"x", "y"} ELSE {"x"}]

Init ==
  /\ focus \in {"writing", "approval", "policy", "brief", "calendar", "race", "plan",
                "spend", "merge", "grow", "keyword", "keywords", "alert", "knowledge",
                "research"}
  /\ CaInit /\ SpInit /\ TpInit(Tree(focus)) /\ KwInit /\ KaInit /\ KsInit /\ RsInit
  /\ IF focus = "brief" THEN PbInit(NewBrief, {}) ELSE PbInit(Approved, ApprovedBy)
  /\ focus # "spend" => spCampaign = [limit |-> 2, enforcement |-> "BLOCK", status |-> "DRAFT"]
  /\ focus # "research" => rsExecutor

StepContent(A) == A /\ UNCHANGED <<focus, planVars, sourceVars>>
StepBriefs(A) == A /\ UNCHANGED <<focus, qVars, ptVars, sourceVars>>
StepCampaign(A) == A /\ UNCHANGED <<focus, qVars, pbVars, tpVars, sourceVars>>
StepTopics(A) == A /\ UNCHANGED <<focus, qVars, pbVars, spVars, sourceVars>>
StepKeywords(A) == A /\ UNCHANGED <<focus, qVars, planVars, kaVars, ksVars, rsVars>>
StepAlerts(A) == A /\ UNCHANGED <<focus, qVars, planVars, kwVars, ksVars, rsVars>>
StepKnowledge(A) == A /\ UNCHANGED <<focus, qVars, planVars, kwVars, kaVars, rsVars>>
StepResearch(A) == A /\ UNCHANGED <<focus, qVars, planVars, kwVars, kaVars, ksVars>>

\* Two people who both try to fill the same slots, and one who undoes it.
CalendarRace ==
  \/ \E c \in ClClients, b \in BOOLEAN : PlacementStart(c, Item(1, b), "AUTO_SPREAD")
  \/ RecurrenceStart("c2", <<Item(1, TRUE), Item(2, TRUE)>>, "AUTO_SPREAD")
  \/ \E e \in ClEntries : MoveStart("c2", e, 4, "BLOCK") \/ CancelCalendarEntry(e)
  \/ GetBrief("p1") \/ ArchiveBrief("p1")
\* One person's requests, for entries that are not about the brief.
PlainEntries ==
  /\ clTx'["c2"] = NoTx
  /\ \A i \in DOMAIN clTx'["c1"].todo : ~clTx'["c1"].todo[i].brief
BriefOnCalendar ==
  \/ PlacementStart("c1", Item(1, TRUE), "BLOCK")
  \/ \E e \in ClEntries : CancelCalendarEntry(e)
\* Two jobs of one connection, without the branches one job alone covers.
PlainJobs ==
  /\ \A j \in KwJobs :
       /\ kwJob'[j].kind \notin {"csv", "bare"}
       /\ kwJob'[j].state # "CANCEL_REQUESTED"
       /\ ~kwLost'[j]
       /\ \A w \in KwRelated : kwTx'[j].items[w] = "NONE"
       /\ \A w \in KwWords : kwItem'[j][w] # "EXCLUDED"
  /\ \A w \in KwWords : kwWord'[w] # "USER"

Next ==
  \/ focus = "writing" /\ StepContent(ContentRequest)
  \/ /\ focus = "approval"
     /\ StepContent(ContentRequest \/ \E a \in QAssessments : CreateAssessment(a, Current, {}))
     /\ Len(qVersions') < QMaxVersions
  \/ focus = "policy" /\ StepContent(AssessmentRequest)
  \/ focus = "approval" /\ StepContent(ApprovalNext) /\ \A r \in QRequests : ~qReq'[r].late
  \/ focus = "policy" /\ StepContent(ApprovalNext)
  \/ focus = "brief" /\ StepBriefs(BriefRequest \/ BriefOnCalendar)
  \/ focus = "calendar" /\ StepBriefs(CalendarRequest) /\ PlainEntries
  \/ focus = "race" /\ StepBriefs(CalendarRace)
  \/ focus = "plan" /\ StepBriefs(ProposalRequest(Plans)
                                   \/ PlacementStart("c2", Item(1, TRUE), "AUTO_SPREAD"))
  \/ focus \in {"brief", "calendar", "race", "plan"} /\ StepBriefs(CalendarStep)
  \/ focus = "spend" /\ StepCampaign(CampaignRequest)
  \/ focus = "merge" /\ StepTopics(MoveRequest)
  \/ focus \in {"merge", "grow"} /\ StepTopics(MergeRequest \/ TopicStep)
  \/ focus = "grow" /\ StepTopics(GrowRequest)
  \/ focus = "keyword" /\ StepKeywords(KeywordRequest \/ ResearchRun) /\ kwJob'["j2"].state = "NONE"
  \/ focus = "keywords" /\ StepKeywords(KeywordRequest \/ ResearchRun) /\ PlainJobs
  \/ focus = "alert" /\ StepAlerts(AlertNext)
  \/ focus = "knowledge" /\ StepKnowledge(KnowledgeRequest \/ KnowledgeRun)
  \/ focus = "research" /\ StepResearch(ResearchNext)

Spec == Init /\ [][Next]_vars
=============================================================================
