---------------------------- MODULE NarrativeIntake ----------------------------
(* The complaint narratives of one case: ingest_narrative and the reviews of *)
(* narrative_triage.py, and the handlers of app/main.py that take them from  *)
(* the complaint connector, at each of three requests, or from an officer.   *)
(*                                                                           *)
(* A request looks the text up, writes its file and inserts the row; from    *)
(* the insertion to the commit it holds the write lock of the database, so   *)
(* what it reads there is what it commits over.                              *)
(*                                                                           *)
(* Abstractions.  The connector is one source (its text field and its PDF    *)
(* are two of the same kind); an upload has the digest of its text for a     *)
(* reference and is a source of its own.  The extracted text, stored beside  *)
(* the source in the same way, and the findings of the analysis are left     *)
(* out.  A refused input changes nothing, and neither does a text that is    *)
(* stored and assessed.                                                      *)
EXTENDS Naturals, Sequences, FiniteSets

CONSTANTS Intakes,        \* requests in flight
          Texts,          \* contents
          MaxNarratives, MaxRevision, MaxReviews  \* bounds of the model

ASSUME NarrativeAssumption ==
    /\ MaxNarratives \in Nat /\ MaxRevision \in Nat \ {0} /\ MaxReviews \in Nat
    /\ "connector" \notin Texts

VARIABLES narratives,  \* ComplaintNarrative rows by id
          reviews,     \* assessments that were reviewed
          artifact,    \* Texts -> its file: "absent", "torn" or "whole"
          revision,    \* of the analyser that runs
          intake       \* Intakes -> the request

narrativeVars == <<narratives, reviews, artifact, revision, intake>>

-----------------------------------------------------------------------------
(* assessed: the analyser revisions of the NarrativeAssessment rows.         *)
ComplaintNarrative(source, text) ==
    [source |-> source, text |-> text, supersededBy |-> 0, assessed |-> {revision}]

Request(pc, source, text, id, of) ==
    [pc |-> pc, source |-> source, text |-> text, id |-> id, of |-> of]

NoIntake == Request("idle", "none", "none", 0, 0)

NarrativeIds == DOMAIN narratives

Stored(source, text) ==
    {i \in NarrativeIds : narratives[i].source = source /\ narratives[i].text = text}

Current(source) ==
    {i \in NarrativeIds : narratives[i].source = source /\ narratives[i].supersededBy = 0}

NarrativesInit ==
    /\ narratives = <<>> /\ reviews = {}
    /\ artifact = [x \in Texts |-> "absent"]
    /\ revision = 1
    /\ intake = [r \in Intakes |-> NoIntake]

Ends(r) == intake' = [intake EXCEPT ![r] = NoIntake]

Goes(r, pc) == intake' = [intake EXCEPT ![r].pc = pc]

-----------------------------------------------------------------------------
(* The look-up.  Uploads are awaited first and then run one at a time.       *)
LookUp(r, source, text) ==
    /\ intake[r] = NoIntake
    /\ source = text => \A q \in Intakes : intake[q].source \notin Texts
    /\ LET found == Stored(source, text) IN
       \/ /\ found = {}
          /\ intake' = [intake EXCEPT ![r] = Request("check", source, text, 0, 0)]
       \/ \E i \in found :
             /\ revision \notin narratives[i].assessed
             /\ intake' = [intake EXCEPT ![r] = Request("assess", source, text, i, 0)]
    /\ UNCHANGED <<narratives, reviews, artifact, revision>>

(* _store_artifact: a file of another content than its name is refused, also *)
(* one that another request is writing or did not finish writing.            *)
CheckArtifact(r) ==
    /\ intake[r].pc = "check"
    /\ \/ artifact[intake[r].text] = "absent" /\ Goes(r, "open")
       \/ artifact[intake[r].text] = "whole" /\ Goes(r, "insert")
       \/ artifact[intake[r].text] = "torn" /\ Ends(r)
    /\ UNCHANGED <<narratives, reviews, artifact, revision>>

OpenArtifact(r) ==
    /\ intake[r].pc = "open"
    /\ artifact' = [artifact EXCEPT ![intake[r].text] = "torn"]
    /\ Goes(r, "write")
    /\ UNCHANGED <<narratives, reviews, revision>>

WriteArtifact(r) ==
    /\ intake[r].pc = "write"
    /\ artifact' = [artifact EXCEPT ![intake[r].text] = "whole"]
    /\ Goes(r, "insert")
    /\ UNCHANGED <<narratives, reviews, revision>>

(* The newest row of the source that is not superseded yet.                  *)
Previous(source) == {i \in Current(source) : \A j \in Current(source) : j <= i}

Superseded(source, id) ==
    [i \in NarrativeIds |-> IF i \in Previous(source)
                            THEN [narratives[i] EXCEPT !.supersededBy = id] ELSE narratives[i]]

Inserted(source, text) ==
    Append(Superseded(source, Len(narratives) + 1), ComplaintNarrative(source, text))

(* The look-up is trusted, without a unique key.                             *)
InsertTrusting(r) ==
    /\ intake[r].pc = "insert" /\ Len(narratives) < MaxNarratives
    /\ narratives' = Inserted(intake[r].source, intake[r].text)
    /\ Ends(r)
    /\ UNCHANGED <<reviews, artifact, revision>>

(* The row, the one it supersedes and its assessment in one commit.  A text  *)
(* that another request stored since the look-up hits the unique key.        *)
InsertNarrative(r) ==
    /\ intake[r].pc = "insert" /\ Len(narratives) < MaxNarratives
    /\ LET q == intake[r] IN
       narratives' = IF Stored(q.source, q.text) # {} THEN narratives
                     ELSE Inserted(q.source, q.text)
    /\ Ends(r)
    /\ UNCHANGED <<reviews, artifact, revision>>

(* A stored text that this revision of the analyser has not seen; the key    *)
(* of narrative and revision refuses a second assessment.                    *)
AssessAgain(r) ==
    /\ intake[r].pc = "assess"
    /\ narratives' = [narratives EXCEPT ![intake[r].id].assessed = @ \cup {revision}]
    /\ Ends(r)
    /\ UNCHANGED <<reviews, artifact, revision>>

(* An exception: the rows are rolled back, the file stays as it is.          *)
IntakeFails(r) ==
    /\ intake[r] # NoIntake
    /\ Ends(r)
    /\ UNCHANGED <<narratives, reviews, artifact, revision>>

-----------------------------------------------------------------------------
(* review_case_narrative: any assessment of the case, loaded before the form *)
(* is awaited; record_narrative_review only adds rows.                       *)
LoadAssessment(r) ==
    /\ intake[r] = NoIntake /\ Cardinality(reviews) < MaxReviews
    /\ \E i \in NarrativeIds : \E of \in narratives[i].assessed :
          intake' = [intake EXCEPT ![r] = Request("review", "none", "none", i, of)]
    /\ UNCHANGED <<narratives, reviews, artifact, revision>>

RecordReview(r) ==
    /\ intake[r].pc = "review"
    /\ reviews' = reviews \cup {[id |-> intake[r].id, of |-> intake[r].of]}
    /\ Ends(r)
    /\ UNCHANGED <<narratives, artifact, revision>>

(* The process dies, and perhaps another revision is started.                *)
Restart ==
    /\ revision' \in {revision, revision + 1} /\ revision' <= MaxRevision
    /\ intake' = [r \in Intakes |-> NoIntake]
    /\ UNCHANGED <<narratives, reviews, artifact>>

IntakeStep(r) ==
    \/ \E text \in Texts : LookUp(r, "connector", text) \/ LookUp(r, text, text)
    \/ CheckArtifact(r) \/ OpenArtifact(r) \/ WriteArtifact(r) \/ InsertNarrative(r)
    \/ AssessAgain(r) \/ IntakeFails(r) \/ LoadAssessment(r) \/ RecordReview(r)

NarrativesNext == Restart \/ \E r \in Intakes : IntakeStep(r)

NarrativesSpec == NarrativesInit /\ [][NarrativesNext]_narrativeVars

-----------------------------------------------------------------------------
Sources == Texts \cup {"connector"}

Rows == [source : Sources, text : Texts, supersededBy : Nat, assessed : SUBSET (1..MaxRevision)]

Deliveries == [pc : {"check", "open", "write", "insert"}, source : Sources, text : Texts,
               id : {0}, of : {0}]

Assessing == [pc : {"assess"}, source : Sources, text : Texts, id : NarrativeIds, of : {0}]

Reviewing == [pc : {"review"}, source : {"none"}, text : {"none"}, id : NarrativeIds,
              of : 1..MaxRevision]

NarrativesTypeOK ==
    /\ narratives \in Seq(Rows) /\ Len(narratives) <= MaxNarratives
    /\ \A i \in NarrativeIds : narratives[i].supersededBy <= Len(narratives)
    /\ reviews \subseteq [id : NarrativeIds, of : 1..MaxRevision]
    /\ \A v \in reviews : v.of \in narratives[v.id].assessed
    /\ artifact \in [Texts -> {"absent", "torn", "whole"}]
    /\ revision \in 1..MaxRevision
    /\ intake \in [Intakes -> {NoIntake} \cup Deliveries \cup Assessing \cup Reviewing]

(* Evidence shows exactly one narrative of every source that ever had one,   *)
(* whichever requests deliver, repeat or lose texts side by side: no text is *)
(* stored twice, supersession leads to a later row of the same source, and   *)
(* every row has an assessment and a file.                                   *)
OneCurrentNarrative ==
    /\ \A i, j \in NarrativeIds : j \in Stored(narratives[i].source, narratives[i].text) => i = j
    /\ \A i \in NarrativeIds :
         LET row == narratives[i] IN
         /\ Cardinality(Current(row.source)) = 1
         /\ row.supersededBy # 0 =>
              row.supersededBy > i /\ narratives[row.supersededBy].source = row.source
         /\ row.assessed # {} /\ artifact[row.text] # "absent"

(* What makes both inductive: the file of a text is there before its row is  *)
(* inserted, and an officer reviews an assessment that there is.             *)
FileBeforeRow ==
    \A r \in Intakes : intake[r].pc \in {"write", "insert"} => artifact[intake[r].text] # "absent"

ReviewedIsAssessed ==
    \A r \in Intakes :
        intake[r].pc = "review" => intake[r].of \in narratives[intake[r].id].assessed

NarrativesInv == NarrativesTypeOK /\ OneCurrentNarrative /\ FileBeforeRow /\ ReviewedIsAssessed
=============================================================================
