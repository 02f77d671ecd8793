------------------------------- MODULE Survey -------------------------------
(***************************************************************************)
(* The sweep of the mailbox with which `plan` and `rebuild-index` begin:   *)
(* runner.survey over Mailbox.fetch_headers, runner.classify, and          *)
(* Index.upsert_messages.  The owner's mail client is at work beside it,   *)
(* mail arrives, time passes, the connection fails and the process may be  *)
(* killed.                                                                 *)
(*                                                                         *)
(* UIDVALIDITY does not change here (Executor and Undo have that), and the *)
(* headers of a message are a function of its key.                         *)
(***************************************************************************)
EXTENDS MailServer, Classify, SequencesExt

CONSTANTS
  Window,      \* _SEARCH_WINDOW
  BatchSize,   \* execution.batch_size
  Headers,     \* of each key: what Classify reads of its headers
  Starts,      \* the mailboxes and settings to begin with
  Vendored,    \* the public suffix lists a new release may bring
  Hosts,       \* host names
  LastDay      \* bound: how far time passes

\* A mailbox to begin with, the folders of the sweep, each of them once, a list, a
\* day, and bounds.
Fits(s) ==
  /\ s.box \in [Slots -> Keys \cup {NoKey}] /\ s.nextUid \in [Folders -> 1..(MaxUid + 1)]
  /\ \A t \in Slots : t[2] >= s.nextUid[t[1]] => s.box[t] = NoKey
  /\ s.order \in Seq(Folders) /\ s.order # <<>> /\ IsInjective(s.order)
  /\ s.reports \in BOOLEAN /\ WellFormed(s.list) /\ s.today \in Nat
  /\ s.runs \in Nat /\ s.faults \in 0..MaxFaults /\ s.userSteps \in 0..MaxUserSteps

ASSUME SurveyAssumption ==
  /\ Window \in Nat \ {0} /\ BatchSize \in Nat \ {0}
  /\ LastDay \in Nat
  /\ Hosts \subseteq Seq(Labels) \ {<<>>}
  /\ \A k \in Keys : /\ Headers[k].date \in {Nothing} \cup Int
                      /\ Headers[k].received \in Seq({Nothing} \cup Int)
  /\ \A l \in Vendored : WellFormed(l)
  /\ \A s \in Starts : Fits(s)

NoRow   == [run |-> 0]
NotRead == [step |-> "idle", mode |-> "none", n |-> 0, known |-> 0, lo |-> 1,
            uids |-> <<>>, seen |-> <<>>, day |-> 0]

VARIABLES
  order,       \* the folders in the order of the sweep, source.folder first
  reports,     \* the server reports UIDNEXT when a folder is selected
  list,        \* the bundled public suffix list
  today,       \* the time
  run,         \* run_ids given out
  lastRun,     \* bound: how many
  messages,    \* the messages table
  sweep        \* the process: its step, mode, folder (n), UIDNEXT as known, the
               \* next window, UIDs to fetch, header records, and do_plan's `now`

settings == <<order, reports, lastRun>>
dbVars   == <<run, messages>>
surveyVars == <<serverVars, settings, list, today, dbVars, sweep>>

SurveyInit ==
  /\ \E s \in Starts :
       /\ box = s.box /\ nextUid = s.nextUid
       /\ order = s.order /\ reports = s.reports /\ list = s.list /\ today = s.today
       /\ lastRun = s.runs /\ faults = MaxFaults - s.faults
       /\ userSteps = MaxUserSteps - s.userSteps
  /\ deleted = {} /\ validity = [f \in Folders |-> 1] /\ touched = {}
  /\ run = 0 /\ messages = [k \in Keys |-> NoRow] /\ sweep = NotRead

-----------------------------------------------------------------------------
(* The command begins, and survey asks every folder for its size.           *)

\* Mutant: the cache is not cleared.
Untouched(mode) == messages
Cleared(mode) == IF mode = "rebuild-index" THEN [k \in Keys |-> NoRow] ELSE messages

Begin(mode) ==
  /\ sweep.step = "idle" /\ run < lastRun
  /\ run' = run + 1
  /\ messages' = Cleared(mode)
  /\ sweep' = [NotRead EXCEPT !.step = "count", !.mode = mode, !.day = today]
  /\ touched' = {}
  /\ UNCHANGED <<mailVars, validity, faults, userSteps, settings, list, today>>

Reported(f) == IF reports THEN nextUid[f] ELSE 0

\* message_count examines each folder; the last one stays selected.
Count ==
  /\ sweep.step = "count"
  /\ sweep' = [sweep EXCEPT !.step = "select", !.n = 1,
                            !.known = Reported(order[Len(order)])]
  /\ UNCHANGED <<serverVars, settings, list, today, dbVars>>

-----------------------------------------------------------------------------
(* fetch_headers, for one folder.                                           *)

Folder == order[sweep.n]

\* select: a folder that is selected already keeps the UIDNEXT of that time.
Known == IF Len(order) = 1 THEN sweep.known ELSE Reported(Folder)

Select ==
  /\ sweep.step = "select"
  /\ sweep' = [sweep EXCEPT !.step = "search", !.known = Known, !.lo = 1]
  /\ UNCHANGED <<serverVars, settings, list, today, dbVars>>

\* In the order of the server's answer.
Found(lo, hi) == SetToSeq({u \in lo..hi : Occupied(<<Folder, u>>)})

SearchAll ==
  /\ sweep.step = "search" /\ sweep.known < 2
  /\ sweep' = [sweep EXCEPT !.step = "fetch", !.uids = Found(1, MaxUid)]
  /\ UNCHANGED <<serverVars, settings, list, today, dbVars>>

\* Mutant: the last UID is left out.
MoreBut1(lo) == lo < sweep.known - 1
More(lo) == lo < sweep.known

\* Mutant: the next window begins after the last UID found.
AfterFound(hi) == IF Found(1, hi) = <<>> THEN 1 ELSE Max(ToSet(Found(1, hi))) + 1
AfterWindow(hi) == hi + 1

\* Mutant: the window is not cut at UIDNEXT.
WholeWindow(lo) == lo + Window - 1
WindowEnd(lo) == Min({lo + Window - 1, sweep.known - 1})

SearchWindow ==
  /\ sweep.step = "search" /\ sweep.known >= 2 /\ More(sweep.lo)
  /\ LET hi == WindowEnd(sweep.lo)
     IN sweep' = [sweep EXCEPT !.uids = @ \o Found(sweep.lo, hi), !.lo = AfterWindow(hi)]
  /\ UNCHANGED <<serverVars, settings, list, today, dbVars>>

SearchEnds ==
  /\ sweep.step = "search" /\ sweep.known >= 2 /\ ~ More(sweep.lo)
  /\ sweep' = [sweep EXCEPT !.step = "fetch"]
  /\ UNCHANGED <<serverVars, settings, list, today, dbVars>>

\* The answer is keyed by UID; one that was expunged since the search is not in it.
Fetched(chunk) ==
  LET live == SetToSeq({u \in ToSet(chunk) : Occupied(<<Folder, u>>)})
  IN [n \in DOMAIN live |-> [key |-> box[<<Folder, live[n]>>], slot |-> <<Folder, live[n]>>]]

FetchChunk ==
  /\ sweep.step = "fetch" /\ sweep.uids # <<>>
  /\ LET n == Min({BatchSize, Len(sweep.uids)})
     IN sweep' = [sweep EXCEPT !.uids = SubSeq(@, n + 1, Len(@)),
                               !.seen = @ \o Fetched(SubSeq(sweep.uids, 1, n))]
  /\ UNCHANGED <<serverVars, settings, list, today, dbVars>>

FolderDone ==
  /\ sweep.step = "fetch" /\ sweep.uids = <<>>
  /\ sweep' = IF sweep.n < Len(order)
              THEN [sweep EXCEPT !.step = "select", !.n = @ + 1]
              ELSE [sweep EXCEPT !.step = "upsert"]
  /\ UNCHANGED <<serverVars, settings, list, today, dbVars>>

-----------------------------------------------------------------------------
(* classify, and upsert_messages.                                           *)

Sightings(k, n) == {i \in 1..n : sweep.seen[i].key = k}

\* do_plan looks at the clock when it begins, rebuild_index after the sweep.
Now == IF sweep.mode = "plan" THEN sweep.day ELSE today

NewRow(k, f) == [run |-> run, folder |-> f, year |-> YearOf(Headers[k], Now),
                 sender |-> DeriveSender(Headers[k], list)]

\* The table after the first n records: of a row that is there already only the
\* folder and the run are updated.
Upserted(n) ==
  [k \in Keys |->
     LET s == Sightings(k, n)
         f == sweep.seen[Max(s)].slot[1]
     IN IF s = {} THEN messages[k]
        ELSE IF messages[k] = NoRow THEN NewRow(k, f)
        ELSE [messages[k] EXCEPT !.folder = f, !.run = run]]

\* What plan does from here on is Planner's, and Cycle's.
Upsert ==
  /\ sweep.step = "upsert"
  /\ messages' = Upserted(Len(sweep.seen))
  /\ sweep' = NotRead
  /\ UNCHANGED <<serverVars, settings, list, today, run>>

-----------------------------------------------------------------------------
(* What goes wrong, and what goes on meanwhile.                             *)

\* A lost connection, a FETCH answered without headers, or a kill.
Fails ==
  /\ sweep.step # "idle" /\ Fault
  /\ IF sweep.step = "upsert" THEN \E n \in 0..Len(sweep.seen) : messages' = Upserted(n)
                              ELSE UNCHANGED messages
  /\ sweep' = NotRead
  /\ UNCHANGED <<mailVars, validity, touched, userSteps, settings, list, today, run>>

Owner == OwnerStep /\ UNCHANGED <<settings, list, today, dbVars, sweep>>

Arrives(f, k) ==
  /\ userSteps < MaxUserSteps /\ HasRoom(f)
  /\ \A s \in Slots : box[s] # k
  /\ box' = [box EXCEPT ![<<f, nextUid[f]>>] = k]
  /\ nextUid' = [nextUid EXCEPT ![f] = @ + 1]
  /\ userSteps' = userSteps + 1
  /\ touched' = touched \cup {k}
  /\ UNCHANGED <<deleted, validity, faults, settings, list, today, dbVars, sweep>>

TimePasses ==
  /\ today < LastDay
  /\ today' = today + 1
  /\ UNCHANGED <<serverVars, settings, list, dbVars, sweep>>

Revendor(l) ==
  /\ sweep.step = "idle" /\ l # list /\ run > 0
  /\ list' = l
  /\ UNCHANGED <<serverVars, settings, today, dbVars, sweep>>

Work == Count \/ Select \/ SearchAll \/ SearchWindow \/ SearchEnds
        \/ FetchChunk \/ FolderDone \/ Upsert

SurveyNext ==
  \/ \E mode \in {"plan", "rebuild-index"} : Begin(mode)
  \/ Work \/ Fails \/ Owner \/ TimePasses
  \/ \E f \in Folders, k \in Keys : Arrives(f, k)
  \/ \E l \in Vendored : Revendor(l)

\* The process goes on while it is not killed; nothing is owed by the others.
SurveySpec == SurveyInit /\ [][SurveyNext]_surveyVars /\ WF_surveyVars(Work)

-----------------------------------------------------------------------------
(* Properties.                                                              *)

Swept == {s \in Slots : \E n \in DOMAIN order : order[n] = s[1]}

ReadAs(s) == Cardinality({i \in DOMAIN sweep.seen : sweep.seen[i].slot = s})

\* Mail that nobody touches during the sweep is in its records exactly once,
\* whatever arrives, moves or is expunged around it; no UID is read twice
\* (imap.py 263-303: the windows, the chunks, and UIDs that answer nothing).
EachReadOnce ==
  /\ \A s \in Slots : ReadAs(s) <= 1
  /\ sweep.step = "upsert" =>
       \A s \in Swept : Occupied(s) /\ box[s] \notin touched => ReadAs(s) = 1

\* The sweep of a mailbox into which mail keeps coming ends: its loops are over
\* a UIDNEXT and a list of UIDs that are fixed for each folder.
SweepEnds == sweep.step # "idle" ~> sweep.step = "idle"

\* After a rebuild the cache is what the headers say under today's rules, of all
\* the mail that was there throughout and of no mail but what was read; rows of
\* an earlier list or an earlier day do not live on (recovery.py 147-159).
RebuildIsFresh ==
  [][sweep.step = "upsert" /\ sweep.mode = "rebuild-index" =>
       \A k \in Keys :
         /\ messages'[k] # NoRow =>
              /\ messages'[k].year = YearOf(Headers[k], today)
              /\ messages'[k].sender = DeriveSender(Headers[k], list)
              /\ messages'[k].run = run
         /\ faults' = faults /\ sweep'.step = "idle" /\ k \notin touched =>
              (messages'[k] # NoRow <=> \E s \in Swept : box[s] = k)]_surveyVars

\* As time passes a message changes its year, and with it its bucket, only when
\* one of its own headers was ahead of the clock and now is not; no header is
\* ever given up for being old (dates.py 39-46, 76-89).
YearIsSettled ==
  [][\A k \in Keys :
       YearOf(Headers[k], today') # YearOf(Headers[k], today) =>
         \E n \in DOMAIN Claimed(Headers[k]) :
           LET d == Claimed(Headers[k])[n]
           IN /\ d # Nothing
              /\ today + Tolerance < d /\ d <= today' + Tolerance]_surveyVars

\* Under whatever list mail is classified, and in whatever order and with
\* whatever comments its rules come, the suffix of every host is what the
\* published algorithm says (psl.py 1, 28-37, 49-72).
SuffixAsPublished ==
  sweep.step = "upsert" =>
    \A h \in Hosts : PublicSuffix(h, list) = PublishedSuffix(h, list)

-----------------------------------------------------------------------------
(* What keeps the sweep together; SurveyProofs shows that it is inductive.  *)

Sweeps == [step : {"idle", "count", "select", "search", "fetch", "upsert"},
           mode : {"none", "plan", "rebuild-index"}, n : 0..Len(order),
           known : 0..(MaxUid + 1), lo : 1..(MaxUid + 1), uids : Seq(Uids),
           seen : Seq([key : Keys, slot : Slots]), day : Nat]

SurveyTypeOK == ServerTypeOK /\ run \in 0..lastRun /\ today \in Nat /\ sweep \in Sweeps

SettingsFit ==
  /\ order \in Seq(Folders) /\ order # <<>> /\ IsInjective(order)
  /\ reports \in BOOLEAN /\ lastRun \in Nat /\ WellFormed(list)

\* Each step has what it works on; the next window begins below the UIDNEXT the
\* search goes to, and a rebuild writes into an empty table.
SweepInPlace ==
  /\ sweep.step \in {"idle", "count"} =>
       sweep.n = 0 /\ sweep.lo = 1 /\ sweep.uids = <<>> /\ sweep.seen = <<>>
  /\ sweep.step \notin {"idle", "count"} => sweep.n \in 1..Len(order)
  /\ sweep.step \in {"select", "upsert"} => sweep.uids = <<>>
  /\ sweep.step = "upsert" => sweep.n = Len(order)
  /\ sweep.lo = 1 \/ sweep.lo <= sweep.known
  /\ sweep.step # "idle" => run > 0
  /\ sweep.step # "idle" /\ sweep.mode = "rebuild-index" => \A k \in Keys : messages[k] = NoRow

\* Of the current folder, a UID is still to be fetched or read, never both.
NothingTwice ==
  /\ IsInjective(sweep.uids)
  /\ sweep.step = "search" => \A i \in DOMAIN sweep.uids : sweep.uids[i] < sweep.lo
  /\ \A i, j \in DOMAIN sweep.seen : sweep.seen[i].slot = sweep.seen[j].slot => i = j
  /\ \A i \in DOMAIN sweep.seen :
       /\ \E j \in 1..sweep.n : order[j] = sweep.seen[i].slot[1]
       /\ sweep.seen[i].slot[1] = Folder =>
            sweep.step \in {"fetch", "upsert"} /\ sweep.seen[i].slot[2] \notin ToSet(sweep.uids)

\* What was read is still there, unless the owner touched it; its UID names no
\* other mail.
RecordsAreTrue ==
  \A i \in DOMAIN sweep.seen :
    LET r == sweep.seen[i]
    IN /\ r.slot[2] < nextUid[r.slot[1]]
       /\ box[r.slot] \in {r.key, NoKey}
       /\ r.key \notin touched => box[r.slot] = r.key

Still(s) == Occupied(s) /\ box[s] \notin touched
Read(s) == \E i \in DOMAIN sweep.seen : sweep.seen[i].slot = s

\* The windows so far cover all mail below `lo`, and the UIDNEXT they go to is
\* above all mail that was there.
NothingMissed ==
  \A s \in Slots : Still(s) =>
    /\ \A j \in 1..(sweep.n - 1) : order[j] = s[1] => Read(s)
    /\ sweep.step \notin {"idle", "count"} /\ s[1] = Folder =>
         /\ sweep.step = "upsert" => Read(s)
         /\ sweep.step = "fetch" => Read(s) \/ s[2] \in ToSet(sweep.uids)
         /\ sweep.step = "search" /\ sweep.known >= 2 =>
              s[2] < sweep.known /\ (s[2] < sweep.lo => s[2] \in ToSet(sweep.uids))
         /\ sweep.step = "select" /\ Len(order) = 1 /\ sweep.known >= 2 => s[2] < sweep.known

SurveyInv ==
  /\ SurveyTypeOK /\ SettingsFit /\ NothingAhead
  /\ SweepInPlace /\ NothingTwice /\ RecordsAreTrue /\ NothingMissed

=============================================================================
