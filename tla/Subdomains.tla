----------------------------- MODULE Subdomains -----------------------------
(***************************************************************************)
(* The rows of the subdomain workspace: the crt.sh collector folds an      *)
(* answer's certificates into one finding per name, a job may hold the     *)
(* findings of two runs, since an interrupted run is repeated after its    *)
(* findings were stored, and aggregate_subdomains folds those into rows.   *)
(***************************************************************************)
EXTENDS Naturals, Sequences, SequencesExt

CONSTANTS
  RawNames,         \* names on certificates: the labels between the dots
  Target,           \* the assessed domain, as labels
  Dates,            \* dates on certificates
  MaxNames,         \* names on one certificate (bound)
  MaxCertificates,  \* certificates in all answers (bound)
  MaxRuns           \* runs of crt.sh in the job (bound)

VARIABLE answers    \* of each run of crt.sh in the job, the answer it got

answersVars == <<answers>>

None == 0           \* no date

ASSUME DatesAssumption == Dates \subseteq Nat \ {None}

-----------------------------------------------------------------------------
(* Names, in lower case and after IDNA.                                    *)

(* endswith("." + target), or the target itself.                           *)
IsInScope(name) == IsSuffix(Target, name)

(* _normalize_name: one "*." is taken off.                                 *)
IsWildcard(raw) == Len(raw) > 1 /\ Head(raw) = "*"
NormalizeName(raw) == IF IsWildcard(raw) THEN Tail(raw) ELSE raw

(* What is gathered of a name, by both folds.                              *)
Nothing == [wildcard |-> FALSE, first |-> None, last |-> None]
Entry(gathered, name) == IF name \in DOMAIN gathered THEN gathered[name] ELSE Nothing

Earlier(a, b) == IF a = None \/ (b # None /\ b < a) THEN b ELSE a
Later(a, b) == IF b > a THEN b ELSE a

Merged_LastWins(entry, new) ==
  [wildcard |-> new.wildcard,
   first |-> Earlier(entry.first, new.first),
   last |-> Later(entry.last, new.last)]

Merged(entry, new) ==
  [wildcard |-> entry.wildcard \/ new.wildcard,
   first |-> Earlier(entry.first, new.first),
   last |-> Later(entry.last, new.last)]

Gather(gathered, name, new) ==
  [n \in DOMAIN gathered \cup {name} |->
     IF n = name THEN Merged(Entry(gathered, name), new) ELSE gathered[n]]

-----------------------------------------------------------------------------
(* The collector: a name at a time, the names of a certificate in a row.   *)

AddMentions(mentions, certificate) ==
  mentions \o [n \in DOMAIN certificate.names |->
                 [name |-> NormalizeName(certificate.names[n]),
                  wildcard |-> IsWildcard(certificate.names[n]),
                  first |-> certificate.before, last |-> certificate.after]]

Mentions(answer) == FoldLeft(AddMentions, <<>>, answer)

SeenIn(m) == [wildcard |-> m.wildcard, first |-> m.first, last |-> m.last]

AddMention(found, m) ==
  IF IsInScope(m.name) THEN Gather(found, m.name, SeenIn(m)) ELSE found

Found(answer) == FoldLeft(AddMention, <<>>, Mentions(answer))

(* The rows of the job's findings table, which nobody orders.              *)
Findings ==
  UNION { { [run |-> r, name |-> name, value |-> Found(answers[r])[name]] :
              name \in DOMAIN Found(answers[r]) } : r \in DOMAIN answers }

(* aggregate_subdomains.                                                   *)
AddFinding(rows, finding) == Gather(rows, finding.name, finding.value)

Aggregate(findings) ==
  LET rows == FoldLeft(AddFinding, <<>>, findings)
  IN [name \in {n \in DOMAIN rows : IsInScope(n)} |-> rows[name]]

-----------------------------------------------------------------------------
(* The job goes on: a run starts, and its answer grows by a certificate.   *)

Certificates ==
  [names : BoundedSeq(RawNames, MaxNames), before : Dates \cup {None}, after : Dates \cup {None}]

AnswersInit == answers = <<>>

RunCrtsh == Len(answers) < MaxRuns /\ answers' = Append(answers, <<>>)

CrtshAnswers ==
  /\ answers # <<>>
  /\ Len(FlattenSeq(answers)) < MaxCertificates
  /\ \E c \in Certificates :
       answers' = [answers EXCEPT ![Len(answers)] = Append(@, c)]

AnswersNext == RunCrtsh \/ CrtshAnswers

AnswersSpec == AnswersInit /\ [][AnswersNext]_answersVars

-----------------------------------------------------------------------------
(* Properties.                                                             *)

(* What a row says, from the evidence as a set: no fold, no order, no runs.*)
Evidence == UNION { ToSet(Mentions(answers[r])) : r \in DOMAIN answers }
Of(name) == {m \in Evidence : m.name = name}
Known(dates) == dates \ {None}
IsEarliest(date, dates) ==
  IF dates = {} THEN date = None ELSE date \in dates /\ \A d \in dates : date <= d
IsLatest(date, dates) ==
  IF dates = {} THEN date = None ELSE date \in dates /\ \A d \in dates : date >= d

RowIsTrue(name, row) ==
  /\ row.wildcard = (\E m \in Of(name) : m.wildcard)
  /\ IsEarliest(row.first, Known({m.first : m \in Of(name)}))
  /\ IsLatest(row.last, Known({m.last : m \in Of(name)}))

(* Whatever the order in which certificates, runs and database rows come,  *)
(* and also when an interrupted run left its findings next to those of its *)
(* repetition: every name of the target that some certificate bears has    *)
(* one row, which gives the widest range of dates and says whether any of  *)
(* the names was a wildcard.  (services/subdomains.py:63)                  *)
RowsMatchTheEvidence ==
  \A findings \in SetToSeqs(Findings) :
    LET rows == Aggregate(findings)
    IN /\ DOMAIN rows = {m.name : m \in {e \in Evidence : IsInScope(e.name)}}
       /\ \A name \in DOMAIN rows : RowIsTrue(name, rows[name])
=============================================================================
