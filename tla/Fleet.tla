--------------------------------- MODULE Fleet ---------------------------------
(***************************************************************************)
(* The orchestrator: every morning it observes the plan and the other       *)
(* agents, celebrates the steps that were finished, retries and then raises *)
(* an agent that does not run, and sends one briefing                       *)
(* (tools/orchestratorctl, .github/workflows/orchestrator.yml).             *)
(*                                                                         *)
(* It remembers in files of the repository.  A run works on its checkout of *)
(* them and commits at its end, so what it has sent, raised and started is  *)
(* out before what it remembers of it; a run that dies, or whose push is    *)
(* rejected three times, forgets.  Runs never overlap: one that is          *)
(* triggered meanwhile waits (the workflow's concurrency group), but with   *)
(* the files of when it was triggered.                                      *)
(***************************************************************************)
EXTENDS Plan, FiniteSets, FiniteSetsExt

CONSTANTS
    Agents,         \* agents of the fleet, numbered in the order of their names
    Workflows,      \* workflow files
    WorkflowOf,     \* WorkflowOf[a]: the workflow that runs a
    Answers,        \* sets of agents that GitHub may answer about to one run
    Blindness,      \* sets of sources that may fail to answer one run
    Doable,         \* steps the person does when told to
    Claims,         \* steps the person may declare done without doing them
    Watched,        \* bound: steps whose celebrations are counted
    MaxLost,        \* bound: runs that are lost, and issues opened without an answer
    MaxStale        \* bound: runs that work on older files than the committed ones

ASSUME AgentsAssumption ==
    /\ IsFiniteSet(Agents) /\ Agents \subseteq Nat
    /\ WorkflowOf \in [Agents -> Workflows]
    /\ Answers \subseteq SUBSET Agents
ASSUME SourcesAssumption == {} \in Blindness /\ Blindness \subseteq SUBSET Sources
ASSUME StepsAssumption == Doable \cup Claims \cup Watched \subseteq Steps
ASSUME LostAssumption == MaxLost \in Nat /\ MaxStale \in Nat

VARIABLES
    world,      \* what there is to observe
    declared,   \* steps done in state/plan.json
    blind,      \* sources that do not answer now
    run,        \* run[f]: the last run of workflow f
    repo,       \* the files as committed: progress, health memory, last briefing
    files,      \* the files of the run under way
    base,       \* the files as it checked them out
    waiting,    \* the checkout of the run that waits for it, if there is one
    phase,      \* how far that run is
    won,        \* Achievements it has yet to tell
    todo,       \* todo[a]: what Decide wants done about agent a
    next,       \* the step its briefing names
    advice,     \* the step the last briefing that arrived named
    step,       \* history: the step that is watched
    told,       \* history: celebrations of that step that arrived
    grounded,   \* history: the step was really done, or declared where no check ran
    filed,      \* history: filed[a]: issues about a since it was last seen healthy
    retries,    \* history: retries[a]: retries of a since then
    lost,       \* runs lost so far, and issues opened without an answer
    stale       \* runs so far that began on older files than the committed ones

outside == <<world, declared, blind, run>>
runner == <<files, phase, won, todo, next>>
history == <<step, told, grounded, filed, retries>>
queue == <<base, waiting, stale>>
fleetVars == <<outside, repo, queue, runner, advice, history, lost>>

Forgotten == [retried |-> FALSE, issue |-> FALSE, seen |-> FALSE]

FleetInit ==
    /\ world = [itchUser |-> FALSE, redditUser |-> FALSE, games |-> 0, age |-> 0,
                comments |-> 0, posts |-> 0, days |-> 0, sessions |-> 0]
    /\ declared = {}
    /\ blind = {}
    /\ run = [f \in Workflows |-> "never"]
    /\ repo = [done |-> {}, seen |-> [a \in Agents |-> Forgotten], sentToday |-> FALSE]
    /\ files = repo
    /\ base = repo
    /\ waiting = {}
    /\ phase = "over"
    /\ won = {}
    /\ todo = [a \in Agents |-> "none"]
    /\ next = {}
    /\ advice = {}
    /\ step \in Watched
    /\ told = 0
    /\ grounded = FALSE
    /\ filed = [a \in Agents |-> 0]
    /\ retries = [a \in Agents |-> 0]
    /\ lost = 0
    /\ stale = 0

------------------------------------------------------------------------------

\* Which steps are done in the world, for the steps that leave a trace in it.
TracesOf(w) ==
    {s \in Steps :
        \/ s = "reddit-account" /\ w.redditUser
        \/ s = "itch-account" /\ w.itchUser
        \/ s = "publish-sudoku" /\ w.games >= 1
        \/ s = "publish-rest" /\ w.games >= totalGames
        \/ s = "reddit-warmup" /\ w.comments >= 2
        \/ s = "reddit-post" /\ w.posts >= 1}

Traced == {"reddit-account", "itch-account", "publish-sudoku", "publish-rest",
           "reddit-warmup", "reddit-post"}

\* The person does a step: what the briefing names, or what was claimed too early.
\* A step that leaves no trace is declared.
Do(s) ==
    /\ s \in Doable \cap (advice \cup (declared \cap Traced))
    /\ world' = CASE s = "reddit-account" -> [world EXCEPT !.redditUser = TRUE]
                  [] s = "itch-account" -> [world EXCEPT !.itchUser = TRUE]
                  [] s = "publish-sudoku" -> [world EXCEPT !.games = Max({@, 1})]
                  [] s = "publish-rest" -> [world EXCEPT !.games = totalGames]
                  [] s = "reddit-warmup" -> [world EXCEPT !.comments = 2]
                  [] s = "reddit-post" -> [world EXCEPT !.posts = 1]
                  [] OTHER -> world
    /\ declared' = IF s \in Traced THEN declared ELSE declared \cup {s}
    /\ grounded' = (grounded \/ step \in TracesOf(world'))
    /\ UNCHANGED <<blind, run, repo, queue, runner, advice, step, told, filed, retries, lost>>

\* The person declares a step done that is not.
Claim(s) ==
    /\ s \in Claims \ declared
    /\ declared' = declared \cup {s}
    /\ UNCHANGED <<world, blind, run, repo, queue, runner, advice, history, lost>>

\* Time passes for the account and for the plan; players come once there is a post.
Age ==
    /\ world' = [world EXCEPT
          !.age = IF world.redditUser THEN redditMinAgeDays ELSE 0,
          !.days = IF world.age > 0 THEN decisionAfterDays ELSE 0,
          !.sessions = world.posts]
    /\ UNCHANGED <<declared, blind, run, repo, queue, runner, advice, history, lost>>

\* Which sources answer matters, and is said anew, only as a run begins.
Outage ==
    /\ phase = "over"
    /\ blind' \in Blindness \ {blind}
    /\ UNCHANGED <<world, declared, run, repo, queue, runner, advice, history, lost>>

\* The other workflows run: one is queued, ends, or has not run for twice its
\* cadence.
Runs(f) ==
    /\ \/ run' = [run EXCEPT ![f] = "running"]
       \/ run[f] = "running" /\ \E end \in {"success", "failure"} : run' = [run EXCEPT ![f] = end]
       \/ run[f] \in {"running", "success"} /\ run' = [run EXCEPT ![f] = "overdue"]
    /\ UNCHANGED <<world, declared, blind, repo, queue, runner, advice, history, lost>>

NewDay ==
    /\ phase = "over"
    /\ repo' = [repo EXCEPT !.sentToday = FALSE]
    /\ files' = repo'
    /\ base' = repo'
    /\ waiting' = {[c EXCEPT !.files.sentToday = FALSE] : c \in waiting}
    /\ UNCHANGED <<outside, phase, won, todo, next, advice, history, lost, stale>>

------------------------------------------------------------------------------

\* CheckFleet: a run that has not ended counts as one that did not fail.
Healthy(a) == run[WorkflowOf[a]] \in {"success", "running"}
Retryable(a) == run[WorkflowOf[a]] \in {"failure", "overdue"}

\* Decide, for an agent that GitHub was asked about, by what is remembered of it.
RetriesNow(memory, a) == Retryable(a) /\ ~memory.retried

DecideFailuresOnly(memory, a) ==
    IF Healthy(a) THEN (IF memory.seen THEN "recovered" ELSE "none")
    ELSE IF RetriesNow(memory, a) THEN "retry"
    ELSE IF run[WorkflowOf[a]] = "failure" /\ ~memory.issue THEN "escalate" ELSE "none"

DecideFor(memory, a) ==
    IF Healthy(a) THEN (IF memory.seen THEN "recovered" ELSE "none")
    ELSE IF RetriesNow(memory, a) THEN "retry" ELSE IF ~memory.issue THEN "escalate" ELSE "none"

Remembers(memory, a) ==
    IF Healthy(a) THEN Forgotten
    ELSE [memory EXCEPT !.seen = TRUE, !.retried = @ \/ Retryable(a)]

\* Achievements, and Record over them: a date once set is kept.
DoneNow(w, claimed) == {s \in Steps : IsDone(w, claimed, s)}

RecordedLatest(done, now) == now

Recorded(done, now) == done \cup now

\* What a run checks out is fixed when it is triggered: the committed files of then.
Newest == [files |-> repo, declared |-> declared]

\* A run begins: the one that waited, if there is one. It observes, and decides by the
\* files it checked out.
Begin(answered) ==
    \E checkout \in IF waiting = {} THEN {Newest} ELSE waiting :
        LET w == Observe(world, blind)
            now == DoneNow(w, checkout.declared)
            memory == checkout.files.seen
        IN
        /\ phase = "over"
        /\ phase' = "acting"
        /\ waiting' = {}
        /\ base' = checkout.files
        /\ stale' = stale + (IF checkout.files = repo THEN 0 ELSE 1)
        /\ files' = [checkout.files EXCEPT
               !.done = Recorded(@, now),
               !.seen = [a \in Agents |-> IF a \in answered THEN Remembers(memory[a], a) ELSE @[a]]]
        /\ won' = now \ checkout.files.done
        /\ todo' = [a \in Agents |-> IF a \in answered THEN DecideFor(memory[a], a) ELSE "none"]
        /\ next' = NextStep(w, checkout.declared)
        /\ grounded' = (grounded \/ (step \in checkout.declared /\ ~Known(w, step)))
        /\ filed' = [a \in Agents |-> IF a \in answered /\ Healthy(a) THEN 0 ELSE filed[a]]
        /\ retries' = [a \in Agents |-> IF a \in answered /\ Healthy(a) THEN 0 ELSE retries[a]]
        /\ UNCHANGED <<outside, repo, advice, step, told, lost>>

\* One is triggered while another is under way. It waits, instead of one that did.
Trigger ==
    /\ phase # "over"
    /\ stale < MaxStale
    /\ waiting' = {Newest}
    /\ UNCHANGED <<outside, repo, base, stale, runner, advice, history, lost>>

\* The one that waited is too early, or today's briefing has gone out meanwhile.
Skip ==
    /\ phase = "over" /\ waiting # {}
    /\ waiting' = {}
    /\ UNCHANGED <<outside, repo, base, stale, runner, advice, history, lost>>

\* The hours of the morning: an attempt goes on unless the committed record, which is
\* read before the checkout, says that today's briefing has gone out. A person may start
\* it at any time. GitHub is asked about each agent, and may not answer for some.
Scheduled == ~repo.sentToday /\ Begin(Agents)
Started == \E answered \in Answers : Begin(answered)

Pending == {a \in Agents : todo[a] # "none"}
Turn(a) == phase = "acting" /\ a \in Pending /\ \A b \in Pending : a <= b
Acted(a) == todo' = [todo EXCEPT ![a] = "none"]

\* Retry, if GitHub takes it: the workflow is queued. Otherwise it is remembered
\* all the same.
Retry(a) ==
    /\ Turn(a) /\ todo[a] = "retry" /\ Acted(a)
    /\ retries' = [retries EXCEPT ![a] = @ + 1]
    /\ run' \in {run, [run EXCEPT ![WorkflowOf[a]] = "running"]}
    /\ UNCHANGED <<world, declared, blind, repo, queue, files, phase, won, next, advice,
                   step, told, grounded, filed, lost>>

\* Escalate opens an issue and keeps where it is.
EscalateForgetting(a) ==
    /\ Turn(a) /\ todo[a] = "escalate" /\ Acted(a)
    /\ filed' = [filed EXCEPT ![a] = @ + 1]
    /\ UNCHANGED <<outside, repo, queue, files, phase, won, next, advice, step, told, grounded,
                   retries, lost>>

Escalate(a) ==
    /\ Turn(a) /\ todo[a] = "escalate" /\ Acted(a)
    /\ filed' = [filed EXCEPT ![a] = @ + 1]
    /\ files' = [files EXCEPT !.seen[a].issue = TRUE]
    /\ UNCHANGED <<outside, repo, queue, phase, won, next, advice, step, told, grounded,
                   retries, lost>>

\* It is told of an error, whether or not the issue was opened.
EscalateFails(a) ==
    /\ Turn(a) /\ todo[a] = "escalate" /\ Acted(a)
    /\ \/ UNCHANGED <<filed, lost>>
       \/ /\ lost < MaxLost
          /\ lost' = lost + 1
          /\ filed' = [filed EXCEPT ![a] = @ + 1]
    /\ UNCHANGED <<outside, repo, queue, files, phase, won, next, advice, step, told, grounded, retries>>

SayRecovered(a) ==
    /\ Turn(a) /\ todo[a] = "recovered" /\ Acted(a)
    /\ UNCHANGED <<outside, repo, queue, files, phase, won, next, advice, history, lost>>

\* The celebration arrives, or its failure is logged.
Celebrate ==
    /\ phase = "acting" /\ Pending = {} /\ won # {}
    /\ won' = {}
    /\ told' \in {told, told + (IF step \in won THEN 1 ELSE 0)}
    /\ UNCHANGED <<outside, repo, queue, files, phase, todo, next, advice, step, grounded, filed,
                   retries, lost>>

Ready == phase = "acting" /\ Pending = {} /\ won = {}

\* The briefing arrives, and that is recorded.
Brief ==
    /\ Ready
    /\ phase' = "committing"
    /\ files' = [files EXCEPT !.sentToday = TRUE]
    /\ advice' = next
    /\ next' = {}
    /\ UNCHANGED <<outside, repo, queue, won, todo, history, lost>>

\* It does not arrive; or it has gone out today and has not changed since. The
\* workflow commits after either.
NoBrief ==
    /\ Ready
    /\ phase' = "committing"
    /\ next' = {}
    /\ UNCHANGED <<outside, repo, queue, files, won, todo, advice, history, lost>>

\* Rebasing takes from each side what only that side changed.
Mergeable ==
    \A a \in Agents :
        files.seen[a] = base.seen[a] \/ repo.seen[a] \in {base.seen[a], files.seen[a]}

Merged ==
    [done |-> repo.done \cup files.done,
     seen |-> [a \in Agents |-> IF files.seen[a] = base.seen[a] THEN repo.seen[a] ELSE files.seen[a]],
     sentToday |-> repo.sentToday \/ files.sentToday]

\* The push, at one of three attempts. On older files than the committed ones it is
\* rebased first; that may conflict, in lines of the memory or in others, and then no
\* attempt can push and the run ends well all the same.
Push ==
    /\ phase = "committing"
    /\ phase' = "over"
    /\ \/ base = repo /\ repo' = files
       \/ base # repo /\ Mergeable /\ repo' = Merged
       \/ base # repo /\ UNCHANGED repo
    /\ files' = repo'
    /\ base' = repo'
    /\ UNCHANGED <<outside, waiting, stale, won, todo, next, advice, history, lost>>

\* The runner is gone, or the push is rejected for good.
Lose ==
    /\ phase # "over"
    /\ lost < MaxLost
    /\ lost' = lost + 1
    /\ phase' = "over"
    /\ files' = repo
    /\ base' = repo
    /\ won' = {}
    /\ todo' = [a \in Agents |-> "none"]
    /\ next' = {}
    /\ UNCHANGED <<outside, repo, waiting, stale, advice, history>>

Act(a) == Retry(a) \/ Escalate(a) \/ EscalateFails(a) \/ SayRecovered(a)
Send == Celebrate \/ Brief \/ NoBrief

FleetNext ==
    \/ \E s \in Steps : Do(s) \/ Claim(s)
    \/ Age \/ NewDay \/ Outage
    \/ \E f \in Workflows : Runs(f)
    \/ Scheduled \/ Started \/ Trigger \/ Skip
    \/ \E a \in Agents : Act(a)
    \/ Send \/ Push \/ Lose

\* There is a run every day, and it goes on. Again and again GitHub takes the issue
\* and Telegram the briefing; the person does what it says, and time passes.
FleetSpec ==
    /\ FleetInit /\ [][FleetNext]_fleetVars
    /\ SF_fleetVars(NewDay)
    /\ SF_fleetVars(Scheduled)
    /\ WF_fleetVars(Send \/ Push \/ \E a \in Agents : Act(a))
    /\ SF_fleetVars(Brief) /\ \A a \in Agents : SF_fleetVars(Escalate(a))
    /\ WF_fleetVars(Age) /\ WF_fleetVars(\E s \in Steps : Do(s))

------------------------------------------------------------------------------

Worlds == [itchUser : BOOLEAN, redditUser : BOOLEAN, games : Nat, age : Nat,
           comments : Nat, posts : Nat, days : Nat, sessions : Nat]
Memory == [retried : BOOLEAN, issue : BOOLEAN, seen : BOOLEAN]
Committed == [done : SUBSET Steps, seen : [Agents -> Memory], sentToday : BOOLEAN]

FleetTypeOK ==
    /\ world \in Worlds
    /\ declared \subseteq Steps
    /\ blind \in Blindness
    /\ run \in [Workflows -> {"never", "running", "success", "failure", "overdue"}]
    /\ repo \in Committed /\ files \in Committed /\ base \in Committed
    /\ waiting \subseteq [files : Committed, declared : SUBSET Steps]
    /\ phase \in {"over", "acting", "committing"}
    /\ won \subseteq Steps
    /\ todo \in [Agents -> {"none", "recovered", "retry", "escalate"}]
    /\ next \subseteq Steps /\ advice \subseteq Steps
    /\ step \in Watched
    /\ told \in Nat
    /\ grounded \in BOOLEAN
    /\ filed \in [Agents -> Nat] /\ retries \in [Agents -> Nat]
    /\ lost \in 0..MaxLost /\ stale \in Nat

\* A step is celebrated once, whatever flickers ("must not re-announce itself when
\* it comes back", progress.go), but for the runs that were lost or that worked on
\* older files than the committed ones; and no step is recorded that was neither done nor declared where nothing could check it ("A
\* CONFLICT never counts").
CelebratedOnce ==
    /\ told <= 1 + lost + stale
    /\ step \in repo.done \cup files.done => grounded

\* "It never retries a third time and never files a second issue" (handle.go), as
\* long as the agent was not seen healthy, but for the runs that were lost or worked on
\* older files, and the issues it was not told of.
LadderClimbedOnce ==
    \A a \in Agents : filed[a] <= 1 + lost + stale /\ retries[a] <= 1 + lost + stale

Down(a) == ~Healthy(a)

\* An agent that stays down ends as an issue that is remembered, however often the
\* orchestrator, GitHub or a push fails.
StaysDownIsRaised ==
    \A a \in Agents : (<>[]Down(a)) => (<>[]repo.seen[a].issue)

\* No step of the plan waits for one that waits for it, and nothing that was unknown
\* for a while holds the plan up for good: once the sources answer, a person who
\* does what the briefings say gets to the end.
PlanFinishes == <>[](blind = {}) => <>(repo.done = Steps)
==============================================================================
