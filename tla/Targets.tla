------------------------------- MODULE Targets -------------------------------
(***************************************************************************)
(* What the text of the launch form stands for: classify_target and the    *)
(* checks of create_job on the server, classifyPreview and the Launch      *)
(* button in the dashboard.                                                *)
(*                                                                         *)
(* A text is kept the way the code takes it apart: an address or the       *)
(* labels between the dots, what follows a slash, a character that has a   *)
(* meaning of its own, and how long it is.  The white space around it,     *)
(* which both sides trim first, is left out.                               *)
(***************************************************************************)
EXTENDS Naturals, Sequences, SequencesExt

CONSTANTS
  MaxLabels,    \* labels typed into one text (bound)
  MaxMarked     \* labels before a slash or a mark in one text (bound)

VARIABLE text           \* what stands in the input box

targetVars == <<text>>

-----------------------------------------------------------------------------
(* Texts.                                                                  *)

(* Labels, by what the conversions tell apart: "wide" and "wide_digits"    *)
(* are full-width characters, which IDNA folds, "unicode" needs xn--.      *)
Labels == {"empty", "lower", "UPPER", "wide", "unicode", "xn--", "digits", "wide_digits",
           "under_score", "two_words", "over_63"}

(* Addresses, by their family, the bits at their end that are zero and     *)
(* whether str() prints them as they were written: it prints IPv6 in lower *)
(* case and a netmask as a prefix length.                                  *)
NoAddress == [family |-> 0, zeroes |-> 0, forbidden |-> FALSE, asPrinted |-> TRUE]
TypedAddresses ==
  { [family |-> 4, zeroes |-> z, forbidden |-> f, asPrinted |-> TRUE] :
      z \in {0, 8, 24}, f \in BOOLEAN }
    \cup
  { [family |-> 6, zeroes |-> z, forbidden |-> f, asPrinted |-> p] :
      z \in {0, 80, 96}, f \in BOOLEAN, p \in BOOLEAN }

Marks == {"none", "://", "@", "*", ":80", "control"}
PrefixLengths == {8, 15, 16, 24, 32, 47, 48, 64, 128}
NoSlash == 1000
Lengths == {1, 2, 120, 121, 253, 254, 512, 513}

EmptyText == [address |-> NoAddress, labels |-> <<>>, slash |-> NoSlash, mark |-> "none", length |-> 0]

Bits(address) == IF address.family = 4 THEN 32 ELSE 128

(* The fewest characters of the labels with their dots; 2 stands for 2 or  *)
(* more.                                                                   *)
LeastLength(labels) ==
  LET least == Len(labels) - 1 + Len(SelectSeq(labels, LAMBDA l : l # "empty"))
  IN IF least < 2 /\ ToSet(labels) \cap {"xn--", "under_score", "two_words", "over_63"} = {}
     THEN least ELSE 2

-----------------------------------------------------------------------------
(* The server.                                                             *)

Rejected == [type |-> "rejected", normalized |-> EmptyText]
Classified(type, t) == [type |-> type, normalized |-> t]

(* The text is an address and nothing else.                                *)
IsAddress(t) == t.address # NoAddress /\ t.mark = "none"

(* _classify_cidr_or_reject_path: a strict network, not too large.  A      *)
(* private or reserved block is accepted.                                  *)
Widest(address) == IF address.family = 4 THEN 16 ELSE 48
CidrOrPath(t) ==
  IF /\ IsAddress(t)
     /\ t.slash <= Bits(t.address)
     /\ Bits(t.address) - t.slash <= t.address.zeroes
     /\ t.slash >= Widest(t.address)
  THEN Classified("cidr", [t EXCEPT !.address.asPrinted = TRUE])
  ELSE Rejected

(* _classify_ip.                                                           *)
Ip(t) ==
  IF t.address.forbidden
  THEN Rejected
  ELSE Classified("ip", [t EXCEPT !.address.asPrinted = TRUE])

(* label.lower() and label.encode("idna").                                 *)
Encoded(label) ==
  CASE label \in {"lower", "UPPER", "wide"} -> "lower"
    [] label \in {"unicode", "xn--"} -> "xn--"
    [] label \in {"digits", "wide_digits"} -> "digits"
    [] OTHER -> label

(* lowered.rstrip("."): the empty labels at the end.                       *)
WithoutTrailingDots(labels) ==
  SubSeq(labels, 1, SelectLastInSeq(labels, LAMBDA l : l # "empty"))

(* _classify_organization: recognised, and never assessable.               *)
Organization(t) ==
  IF t.length \in 2..120 THEN Classified("organization", t) ELSE Rejected

(* _classify_domain, and what follows when there is no dot.                *)
DomainOrOrganization_DigitsAsTyped(t) ==
  LET name == WithoutTrailingDots([i \in DOMAIN t.labels |-> Encoded(t.labels[i])])
  IN IF Len(name) < 2 THEN Organization(t)
     ELSE IF /\ ToSet(name) \subseteq {"lower", "xn--", "digits"}
             /\ t.length <= 253
             /\ t.labels[Len(name)] # "digits"
     THEN Classified("domain", [t EXCEPT !.labels = name])
     ELSE Rejected

DomainOrOrganization(t) ==
  LET name == WithoutTrailingDots([i \in DOMAIN t.labels |-> Encoded(t.labels[i])])
  IN IF Len(name) < 2 THEN Organization(t)
     ELSE IF /\ ToSet(name) \subseteq {"lower", "xn--", "digits"}
             /\ t.length <= 253
             /\ Last(name) # "digits"
     THEN Classified("domain", [t EXCEPT !.labels = name])
     ELSE Rejected

(* classify_target.  An address with something else in it has a last label *)
(* of digits, or a port: no domain either.                                 *)
ClassifyTarget(t) ==
  IF t.length = 0 \/ t.length > 512 \/ t.mark = "control" THEN Rejected
  ELSE IF t.slash # NoSlash THEN CidrOrPath(t)
  ELSE IF IsAddress(t) THEN Ip(t)
  ELSE IF t.mark # "none" THEN Rejected
  ELSE DomainOrOrganization(t)

(* create_job: organization targets are not assessable.                    *)
Accepted(t) == ClassifyTarget(t).type \in {"domain", "ip", "cidr"}

-----------------------------------------------------------------------------
(* The dashboard.                                                          *)

(* IPV4.test: four labels of digits, in range or not.                      *)
LooksLikeIPv4(t) ==
  /\ t.mark = "none"
  /\ t.address.family = 4 \/ t.labels = <<"digits", "digits", "digits", "digits">>

(* The regular expression of a domain: ASCII, and something on both sides  *)
(* of the last dot.  An IPv4 address matches it too.                       *)
LooksLikeDomain(t) ==
  /\ t.mark = "none"
  /\ \/ t.address.family = 4
     \/ /\ ToSet(t.labels) \subseteq {"empty", "lower", "UPPER", "xn--", "digits", "over_63"}
        /\ Len(t.labels) > 1
        /\ Last(t.labels) # "empty"
        /\ Len(t.labels) > 2 \/ Head(t.labels) # "empty"

(* classifyPreview.                                                        *)
ClassifyPreview_DomainFirst(t) ==
  IF t.length = 0 THEN "empty"
  ELSE IF t.mark \in {"://", "@", "*"} THEN "invalid"
  ELSE IF t.slash # NoSlash THEN "cidr"
  ELSE IF LooksLikeDomain(t) THEN "domain"
  ELSE IF LooksLikeIPv4(t) \/ t.address.family = 6 \/ t.mark = ":80" THEN "ip"
  ELSE IF t.length \notin 2..120 THEN "invalid"
  ELSE "organization"

ClassifyPreview(t) ==
  IF t.length = 0 THEN "empty"
  ELSE IF t.mark \in {"://", "@", "*"} THEN "invalid"
  ELSE IF t.slash # NoSlash THEN "cidr"
  ELSE IF LooksLikeIPv4(t) \/ t.address.family = 6 \/ t.mark = ":80" THEN "ip"
  ELSE IF LooksLikeDomain(t) THEN "domain"
  ELSE IF t.length \notin 2..120 THEN "invalid"
  ELSE "organization"

(* previewBlocksLaunch and canLaunch of LaunchForm.                        *)
CanLaunch(t) == ClassifyPreview(t) \notin {"empty", "invalid", "organization"}

-----------------------------------------------------------------------------
(* The user types: each step adds to the text, or makes it longer.         *)

TargetInit == text = EmptyText

TypeAddress ==
  /\ text = EmptyText
  /\ \E a \in TypedAddresses : text' = [text EXCEPT !.address = a, !.length = 2]

TypeLabel ==
  /\ text.address = NoAddress /\ text.slash = NoSlash /\ text.mark = "none"
  /\ text.length <= 2 /\ Len(text.labels) < MaxLabels
  /\ \E l \in Labels :
       LET labels == Append(text.labels, l)
       IN text' = [text EXCEPT !.labels = labels, !.length = LeastLength(labels)]

TypeMore ==
  /\ text.labels # <<>> /\ text.length > 0
  /\ \E n \in Lengths : n > text.length /\ text' = [text EXCEPT !.length = n]

(* A slash and a prefix length, or the netmask of that length.             *)
TypeSlash ==
  /\ text.slash = NoSlash /\ Len(text.labels) <= MaxMarked
  /\ \E n \in PrefixLengths, netmask \in BOOLEAN :
       /\ netmask => text.address.family = 4 /\ n <= 32
       /\ text' = [text EXCEPT !.slash = n,
                               !.address.asPrinted = @ /\ ~ netmask,
                               !.length = IF @ < 2 THEN 2 ELSE @]

(* A port after an IPv6 address without brackets is part of the address.   *)
TypeMark ==
  /\ text.mark = "none" /\ Len(text.labels) <= MaxMarked
  /\ \E m \in Marks \ {"none"} :
       /\ ~ (m = ":80" /\ text.address.family = 6)
       /\ text' = [text EXCEPT !.mark = m, !.length = IF @ < 2 THEN 2 ELSE @]

TargetNext == TypeAddress \/ TypeLabel \/ TypeMore \/ TypeSlash \/ TypeMark

TargetSpec == TargetInit /\ [][TargetNext]_targetVars

-----------------------------------------------------------------------------
(* Properties.                                                             *)

(* What create_job stores as target_normalized is a target by itself and   *)
(* is its own normal form: collectors, cache keys, the diff of two jobs    *)
(* and a copy of the normalized target into the launch form all mean the   *)
(* same target.  (security/targets.py:119)                                 *)
CanonicalIsStable ==
  LET result == ClassifyTarget(text)
  IN result.type # "rejected" => ClassifyTarget(result.normalized) = result

(* The type that the dashboard shows for a text is the type of the job it  *)
(* launches: two implementations in two languages, with different tests in *)
(* a different order, agree on every text that the form lets through and   *)
(* the server accepts.  (classifyPreview.ts:15)                            *)
PreviewTellsTheType ==
  CanLaunch(text) /\ Accepted(text) => ClassifyPreview(text) = ClassifyTarget(text).type
=============================================================================
