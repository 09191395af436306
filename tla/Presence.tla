------------------------------ MODULE Presence ------------------------------
(***************************************************************************)
(* Login and logout lines of the game server's log, tasks.py: each line is *)
(* an arq job of its own, so that lines overtake each other, and the jobs  *)
(* of a stopped worker run again.  process_login_event and                 *)
(* process_logout_event split the spans of PlayerStatusLog such that the   *)
(* order does not matter; their statements run one at a time.              *)
(*                                                                         *)
(* One character, who logs in and out by turns: line n is written at time  *)
(* n.  A span is <<login, logout>>, and either may be unknown (NULL).      *)
(***************************************************************************)
EXTENDS Naturals, Bags, FiniteSetsExt

CONSTANTS Lines,      \* bound: log lines
          Slips       \* bound: lines sent twice, failed jobs, stops

ASSUME PresenceAssumption == Lines \in Nat \ {0} /\ Slips \in Nat

Line == 1 .. Lines
Ever == 0             \* lower bound NULL: before all lines
Open == Lines + 1     \* upper bound NULL: after all lines

VARIABLES first,      \* what the first line is: "login" or "logout"
          sent,       \* lines that ingest_logs has queued
          job,        \* process_log_line of each line
          marked,     \* ServerLog.event_processed
          spans,      \* PlayerStatusLog: how often each span is there
          slips,
          runs,       \* ghost: how often the line changed the spans, up to 2
          overtook    \* ghost: by how many lines one was overtaken, at most

presenceVars == <<first, sent, job, marked, spans, slips, runs, overtook>>

PresenceInit ==
  /\ first \in {"login", "logout"}
  /\ sent = 0 /\ job = [n \in Line |-> "unsent"] /\ marked = {}
  /\ spans = EmptyBag
  /\ slips = 0 /\ runs = [n \in Line |-> 0] /\ overtook = 0

IsLogin(n) == (n % 2 = 1) <=> (first = "login")

Covering(t) == {s \in BagToSet(spans) : s[1] <= t /\ t < s[2]}

Replaced(s, changed, inserted) ==
  ((spans (-) SetToBag({s})) (+) SetToBag({changed})) (+) SetToBag(inserted)

(* The span that ends first is cut at the login; what was its login gets   *)
(* an open span.                                                           *)
process_login_event(t) ==
  IF Covering(t) = {} THEN spans' = spans (+) SetToBag({<<t, Open>>})
  ELSE \E s \in Covering(t) :
         /\ \A r \in Covering(t) : s[2] <= r[2]
         /\ spans' = Replaced(s, <<t, s[2]>>,
                              IF s[1] = Ever THEN {} ELSE {<<s[1], Open>>})

(* ORDER BY LOWER(timespan) DESC: the span that began last, and one of     *)
(* unknown beginning before all others.                                    *)
FirstByLower(s, r) == s[1] = Ever \/ (r[1] # Ever /\ s[1] >= r[1])

EndLatest(t) ==   \* planted mistake: a later logout of the span is forgotten
  IF Covering(t) = {} THEN spans' = spans (+) SetToBag({<<Ever, t>>})
  ELSE \E s \in Covering(t) :
         /\ \A r \in Covering(t) : FirstByLower(s, r)
         /\ spans' = Replaced(s, <<s[1], t>>, {})

process_logout_event(t) ==
  IF Covering(t) = {} THEN spans' = spans (+) SetToBag({<<Ever, t>>})
  ELSE \E s \in Covering(t) :
         /\ \A r \in Covering(t) : FirstByLower(s, r)
         /\ spans' = Replaced(s, <<s[1], t>>,
                              IF s[2] = Open THEN {} ELSE {<<Ever, s[2]>>})

-----------------------------------------------------------------------------
JobTo(n, step) == job' = [job EXCEPT ![n] = step]

Slip == slips < Slips /\ slips' = slips + 1

Send ==
  /\ sent < Lines
  /\ sent' = sent + 1
  /\ JobTo(sent + 1, "queued")
  /\ UNCHANGED <<first, marked, spans, slips, runs, overtook>>

SendAgain(n) ==
  /\ job[n] = "done" /\ Slip
  /\ JobTo(n, "queued")
  /\ UNCHANGED <<first, sent, marked, spans, runs, overtook>>

(* ServerLog.objects.aget_or_create.                                       *)
FindLog(n) ==
  /\ job[n] = "queued"
  /\ JobTo(n, IF n \in marked THEN "done" ELSE "resolve")
  /\ UNCHANGED <<first, sent, marked, spans, slips, runs, overtook>>

Behind(n) == {m \in Line : m > n /\ runs[m] > 0}

(* process_log_event.                                                      *)
RecordLine(n) ==
  /\ job[n] = "resolve"
  /\ IF IsLogin(n) THEN process_login_event(n) ELSE process_logout_event(n)
  /\ runs' = [runs EXCEPT ![n] = IF @ = 0 THEN 1 ELSE 2]
  /\ overtook' = Max({overtook} \cup {m - n : m \in Behind(n)})
  /\ JobTo(n, "mark")
  /\ UNCHANGED <<first, sent, marked, slips>>

(* No character is found: the line changes nothing and counts as           *)
(* processed.                                                              *)
NoCharacter(n) ==
  /\ job[n] = "resolve" /\ Slip
  /\ JobTo(n, "mark")
  /\ UNCHANGED <<first, sent, marked, spans, runs, overtook>>

MarkProcessed(n) ==
  /\ job[n] = "mark"
  /\ marked' = marked \cup {n}
  /\ JobTo(n, "done")
  /\ UNCHANGED <<first, sent, spans, slips, runs, overtook>>

(* An exception of the mod server's calls before the spans, or of those    *)
(* that follow a logout: arq does not run a failed job again.              *)
JobFails(n) ==
  /\ job[n] \in {"resolve", "mark"} /\ Slip
  /\ JobTo(n, "done")
  /\ UNCHANGED <<first, sent, marked, spans, runs, overtook>>

(* A stop of the worker: arq runs the jobs it interrupted again.           *)
StopJobs ==
  /\ \E n \in Line : job[n] \in {"resolve", "mark"}
  /\ Slip
  /\ job' = [n \in Line |-> IF job[n] \in {"resolve", "mark"} THEN "queued" ELSE job[n]]
  /\ UNCHANGED <<first, sent, marked, spans, runs, overtook>>

PresenceNext ==
  \/ Send \/ StopJobs
  \/ \E n \in Line : \/ SendAgain(n) \/ FindLog(n) \/ RecordLine(n)
                     \/ NoCharacter(n) \/ MarkProcessed(n) \/ JobFails(n)

PresenceSpec == PresenceInit /\ [][PresenceNext]_presenceVars

-----------------------------------------------------------------------------
(* What the lines so far say when they are read in their order.            *)
Sessions ==
  {<<n, IF n = sent THEN Open ELSE n + 1>> : n \in {m \in 1 .. sent : IsLogin(m)}}
    \cup {<<Ever, n>> : n \in {m \in {1} : m <= sent /\ ~IsLogin(m)}}

(* Whatever the order in which lines were processed, the spans are those   *)
(* of the lines read in their order, as soon as every line has had its     *)
(* effect once, unless one was overtaken by a line more than three lines   *)
(* later (tasks.py:634, 688: "to prevent race condition").                 *)
SessionsMatchLines ==
  overtook <= 3 /\ (\A n \in 1 .. sent : runs[n] = 1) => spans = SetToBag(Sessions)
=============================================================================
