---------------------------- MODULE MCFunctions ----------------------------
(***************************************************************************)
(* What runs by itself on bounded inputs: a behaviour is a run of an       *)
(* archive collector, or a text that grows in the launch form, or the      *)
(* answers that crt.sh gives to the runs of a job.  While one of them goes *)
(* on the others stand where they begin.                                   *)
(***************************************************************************)
EXTENDS ArchiveCollector, Targets, Subdomains

-----------------------------------------------------------------------------
(* The archives: four pages of two kinds under a target, the captures an   *)
(* index may report of them, and budgets that a few of them fill.          *)

Site(scheme, host, port, path, fragment) ==
    [scheme |-> scheme, host |-> host, port |-> port, path |-> path,
     fragment |-> fragment]
Page(path) == Site("https", "site", "", path, "")

(* A capture with a file.                                                  *)
Capture(url, time, status, length) ==
    [url |-> url, time |-> time, status |-> status, length |-> length,
     reads |-> "number", file |-> TRUE]

SmallSuffix == [path \in {"/", "/b.html", "/c.php", "/d.php"} |->
                    IF path = "/" THEN "" ELSE IF path = "/b.html" THEN "html" ELSE "php"]

Sorted == <<Page("/"), Page("/b.html"), Page("/c.php"), Page("/d.php")>>

SmallRows ==
    {Capture(Page("/"), 2, "200", 1),
     Capture(Site("https", "site", "443", "", "part"), 1, "404", 1),
     Capture(Page("/"), 3, "404", 2),
     [Capture(Page("/b.html"), 1, "200", 2) EXCEPT !.reads = "null"],
     [Capture(Page("/c.php"), 1, "200", 1) EXCEPT !.reads = "error"],
     Capture(Page("/d.php"), 2, "200", -1),
     [Capture(Page("/d.php"), 1, "200", 1) EXCEPT !.file = FALSE],
     Capture(Site("https", "elsewhere", "", "/", ""), 1, "200", 1)}

-----------------------------------------------------------------------------
(* The certificates.                                                       *)

ExampleDotCom == <<"example">>
NamesOnCertificates ==
    {<<"example">>, <<"*", "www", "example">>, <<"www", "example">>,
     <<"elsewhere">>}

-----------------------------------------------------------------------------
NoArchive == pc = "start" /\ provider = "wayback"
NoText == text = EmptyText
NoAnswers == answers = <<>>

InputsInit == ArchiveInit /\ TargetInit /\ AnswersInit

InputsNext ==
    \/ /\ ArchiveNext /\ NoText /\ NoAnswers
       /\ UNCHANGED <<targetVars, answersVars>>
    \/ /\ TargetNext /\ NoArchive /\ NoAnswers
       /\ UNCHANGED <<archiveVars, answersVars>>
    \/ /\ AnswersNext /\ NoArchive /\ NoText
       /\ UNCHANGED <<archiveVars, targetVars>>

InputsSpec == InputsInit /\ [][InputsNext]_<<archiveVars, targetVars, answersVars>>
=============================================================================
