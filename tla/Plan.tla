--------------------------------- MODULE Plan ---------------------------------
(***************************************************************************)
(* The plan of the orchestrator (tools/orchestratorctl): what a run observes*)
(* of the world (verify.go), and what that says of each step (plan.go).     *)
(*                                                                         *)
(* A source that cannot be reached leaves its field negative: Unknown is    *)
(* not zero, and the two must not be confused.                              *)
(***************************************************************************)
EXTENDS Integers, Sequences

CONSTANTS
    totalGames,         \* games there are to publish
    redditMinAgeDays,   \* age at which an account may post
    decisionAfterDays,  \* days after which the numbers are read
    CreatedOn           \* whether a person wrote reddit_created_on into plan.json

ASSUME PlanAssumption ==
    /\ totalGames \in Nat \ {0}
    /\ redditMinAgeDays \in Nat \ {0}
    /\ decisionAfterDays \in Nat
    /\ CreatedOn \in BOOLEAN

plan == <<"reddit-account", "itch-account", "publish-sudoku", "phone-test", "publish-rest",
          "reddit-warmup", "reddit-post", "reddit-replies", "affiliate-apply",
          "week6-decision">>
Steps == {plan[n] : n \in DOMAIN plan}

Unknown == -1

\* The sources of an observation, each of which may not answer.
Sources == {"itch_page", "itch_api", "about", "comments_rss", "submitted_rss",
            "comments_json", "submitted_json"}

\* Games published, on the profile page; then as the API counts them, unless that
\* is none.
itchGames(world, blind) == IF "itch_page" \in blind THEN Unknown ELSE world.games
FetchItch(world, blind) == IF "itch_api" \in blind THEN Unknown ELSE world.games

LiveGames(world, blind) ==
    IF ~world.itchUser THEN 0
    ELSE IF FetchItch(world, blind) > 0 THEN FetchItch(world, blind) ELSE itchGames(world, blind)

\* The age from the API, or else from the date a person wrote down.
RedditAgeDays(world, blind) ==
    IF world.redditUser /\ (CreatedOn \/ "about" \notin blind) THEN world.age ELSE Unknown

\* Comments and posts from the feeds, or from the API when the first feed fails.
\* The second request failing leaves Unknown comments in the API's case, but zero
\* posts in the feeds' case.
Unread == [comments |-> Unknown, posts |-> Unknown]

redditActivityRSS(world, blind) ==
    IF "comments_rss" \in blind THEN Unread
    ELSE [comments |-> world.comments,
          posts |-> IF "submitted_rss" \in blind THEN 0 ELSE world.posts]

redditActivity(world, blind) ==
    IF "submitted_json" \in blind THEN Unread
    ELSE [comments |-> IF "comments_json" \in blind THEN Unknown ELSE world.comments,
          posts |-> world.posts]

Observe(world, blind) ==
    LET activity == IF ~world.redditUser THEN Unread
                    ELSE IF redditActivityRSS(world, blind) # Unread
                    THEN redditActivityRSS(world, blind) ELSE redditActivity(world, blind) IN
    [itchUser |-> world.itchUser, redditUser |-> world.redditUser,
     liveGames |-> LiveGames(world, blind),
     redditAgeDays |-> RedditAgeDays(world, blind),
     comments |-> activity.comments, posts |-> activity.posts,
     days |-> world.days, sessions |-> world.sessions]

------------------------------------------------------------------------------

\* Verified of each step that has one: whether the check could run on w, and what
\* it says.
Known(w, s) ==
    \/ s = "reddit-account" /\ w.redditUser /\ w.redditAgeDays >= 0
    \/ s = "itch-account" /\ w.itchUser /\ w.liveGames >= 0
    \/ s \in {"publish-sudoku", "publish-rest"} /\ w.liveGames >= 0
    \/ s = "reddit-warmup" /\ w.comments >= 0
    \/ s = "reddit-post" /\ w.posts >= 0

Holds(w, s) ==
    CASE s = "publish-sudoku" -> w.liveGames >= 1
      [] s = "publish-rest" -> w.liveGames >= totalGames
      [] s = "reddit-warmup" -> w.comments >= 2
      [] s = "reddit-post" -> w.posts >= 1
      [] OTHER -> TRUE

\* Blocker of each step: whether there is a reason it cannot be begun.
BlockedLikeItsNeighbour(w, s) ==
    \/ s = "publish-sudoku" /\ (~w.itchUser \/ w.liveGames <= 0)
    \/ s \in {"phone-test", "publish-rest"} /\ w.liveGames <= 0

Blocked(w, s) ==
    \/ s = "publish-sudoku" /\ ~w.itchUser
    \/ s \in {"phone-test", "publish-rest", "reddit-post", "affiliate-apply"} /\ w.liveGames <= 0
    \/ s = "reddit-warmup" /\ ~w.redditUser
    \/ s = "reddit-post" /\ w.redditAgeDays < redditMinAgeDays
    \/ s \in {"reddit-replies", "affiliate-apply"} /\ w.posts <= 0
    \/ s = "week6-decision" /\ (w.days < decisionAfterDays \/ w.sessions <= 0)

\* Assess: the status of each step, given the steps a person declared done.
IsDone(w, declared, s) == (Known(w, s) /\ Holds(w, s)) \/ (s \in declared /\ ~Known(w, s))

IsConflict(w, declared, s) == s \in declared /\ Known(w, s) /\ ~Holds(w, s)

IsReady(w, declared, s) ==
    ~IsDone(w, declared, s) /\ ~IsConflict(w, declared, s) /\ ~Blocked(w, s)

\* Next: the first step that is ready, if one is.
IsNext(w, declared, n) ==
    /\ IsReady(w, declared, plan[n])
    /\ \A m \in 1..(n - 1) : ~IsReady(w, declared, plan[m])

NextStep(w, declared) == {plan[n] : n \in {m \in DOMAIN plan : IsNext(w, declared, m)}}
==============================================================================
