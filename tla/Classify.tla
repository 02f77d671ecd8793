------------------------------ MODULE Classify ------------------------------
(***************************************************************************)
(* runner.classify as operators: from the headers of a message to its      *)
(* sender (sender.py, with the public suffix list of psl.py) and its date  *)
(* (dates.py).                                                             *)
(*                                                                         *)
(* A host name is the sequence of its labels, and a suffix list is a set   *)
(* of lines [name, exception, comment]: the labels of the rule, whether it *)
(* is an exception, and whether a comment follows on the same line.  Times *)
(* are counted in the owner's time zone, in units of which YearLength make *)
(* a year and Tolerance are 24 hours.                                      *)
(***************************************************************************)
EXTENDS Integers, Sequences, FiniteSets, FiniteSetsExt

CONSTANTS
  Nothing,      \* a header that is missing or cannot be parsed
  Floor,        \* dates.min_valid
  Tolerance,    \* _FUTURE_TOLERANCE
  YearLength,
  Labels        \* of host names

Star == "*"

ASSUME ClassifyAssumption ==
  /\ Floor \in Nat /\ Tolerance \in Nat /\ YearLength \in Nat \ {0}
  /\ Star \notin Labels

-----------------------------------------------------------------------------
(* The public suffix list.                                                  *)

\* In the bundled list a wildcard is the leftmost label, and in no exception.
WellFormed(list) ==
  \A l \in list :
    /\ l.exception \in BOOLEAN
    /\ l.name \in Seq(Labels \cup {Star}) \ {<<>>}
    /\ \A n \in DOMAIN l.name : l.name[n] = Star => n = 1 /\ ~ l.exception

\* Mutant: a line is taken with the comment behind its rule.
WholeLine(list, e) == {l.name : l \in {k \in list : k.exception = e /\ ~ k.comment}}
Lines(list, e) == {l.name : l \in {k \in list : k.exception = e}}

From(host, i) == SubSeq(host, i, Len(host))

\* i: where a rule that matches begins.  The first one found is the longest.
ExceptionAt(host, list) == {i \in DOMAIN host : From(host, i) \in Lines(list, TRUE)}
RuleAt(host, list) ==
  {i \in DOMAIN host : \/ From(host, i) \in Lines(list, FALSE)
                       \/ <<Star>> \o From(host, i + 1) \in Lines(list, FALSE)}

PublicSuffix(host, list) ==
  IF ExceptionAt(host, list) # {} THEN From(host, Min(ExceptionAt(host, list)) + 1)
  ELSE IF RuleAt(host, list) # {} THEN From(host, Min(RuleAt(host, list)))
  ELSE From(host, Len(host))

\* None for a host that is itself a suffix, such as `localhost`.
RegistrableDomain(host, list) ==
  LET n == Len(PublicSuffix(host, list))
  IN IF Len(host) <= n THEN Nothing ELSE From(host, Len(host) - n)

-----------------------------------------------------------------------------
(* The sender: List-Id, From, Sender, Return-Path, in this order.  An       *)
(* address is a record [local, host].                                       *)

AddressHeaders == <<"from", "sender", "returnPath">>

\* _first_address gave something for these.
Usable(h) == {n \in DOMAIN AddressHeaders : h[AddressHeaders[n]] # Nothing}

DeriveSender(h, list) ==
  IF h.listId # Nothing THEN [kind |-> "list", id |-> h.listId]
  ELSE IF Usable(h) = {} THEN [kind |-> "unknown"]
  ELSE LET a == h[AddressHeaders[Min(Usable(h))]]
           d == RegistrableDomain(a.host, list)
       IN [kind |-> "domain", domain |-> IF d = Nothing THEN a.host ELSE d,
           local |-> a.local]

-----------------------------------------------------------------------------
(* The date: Date, then the Received headers from the last (the origin) to  *)
(* the first, then INTERNALDATE.                                            *)

\* Mutant: a date far from the day of the run is not believed either.
RecentOnly(d, now) == now - YearLength <= d /\ d <= now + Tolerance
IsSane(d, now) == Floor <= d /\ d <= now + Tolerance

Claimed(h) == <<h.date>> \o [n \in DOMAIN h.received |->
                               h.received[Len(h.received) - n + 1]]

Believed(h, now) == {n \in DOMAIN Claimed(h) : /\ Claimed(h)[n] # Nothing
                                               /\ IsSane(Claimed(h)[n], now)}

ResolveDate(h, now) ==
  IF Believed(h, now) = {} THEN h.internal ELSE Claimed(h)[Min(Believed(h, now))]

YearOf(h, now) == ResolveDate(h, now) \div YearLength

-----------------------------------------------------------------------------
(* The published algorithm (publicsuffix.org/list, "Algorithm"), which      *)
(* psl.py says it implements.                                               *)

MatchesRule(rule, host) ==
  /\ Len(rule) <= Len(host)
  /\ \A n \in DOMAIN rule : rule[n] \in {Star, host[Len(host) - Len(rule) + n]}

Prevailing(host, list) ==
  LET matching  == {l \in list : MatchesRule(l.name, host)}
      exception == {l \in matching : l.exception}
      most(S)   == CHOOSE l \in S : \A k \in S : Len(k.name) <= Len(l.name)
  IN IF exception # {} THEN Tail(most(exception).name)
     ELSE IF matching # {} THEN most(matching).name
     ELSE <<Star>>

PublishedSuffix(host, list) ==
  From(host, Len(host) - Len(Prevailing(host, list)) + 1)

=============================================================================
