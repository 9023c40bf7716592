-------------------------- MODULE RuntimeLifecycle --------------------------
(***************************************************************************)
(* Building the application and closing it (runtime.py build_runtime,      *)
(* _adapter, _cleanup_failed_runtime_build, ApplicationRuntime.close;      *)
(* dic/browser.py AsyncChromiumSession).  Each stage may fail or be        *)
(* cancelled, each release may fail: what was acquired has to be released  *)
(* all the same, the workers that use the page before the page.            *)
(*                                                                         *)
(* Data: resources are names.  Stages that acquire nothing are joined with *)
(* a neighbour that is cleaned up in the same way.                         *)
(***************************************************************************)
EXTENDS Integers, Sequences, SequencesExt

VARIABLES
    life,   \* phase; stages to come; the stage that failed; boundaries to release
    held,   \* resources acquired and not released
    kept    \* resources whose release was tried and failed

lifeVars == <<life, held, kept>>

LiveAdapter == <<"playwright", "chromium", "context", "restore">>

(* build_runtime with the mock adapter or with Chromium; bh-dic dic-auth-check
   signs in while building; the responder is for public channels and direct
   messages. *)
Stages(mock, signIn, public) ==
    <<"settings">>
    \o (IF mock THEN <<>> ELSE LiveAdapter \o (IF signIn THEN <<"sign in">> ELSE <<>>))
    \o <<"services", "router", "coordinator">>
    \o (IF public THEN <<"responder">> ELSE <<>>) \o <<"bot">>

LifecycleInit(builds) ==
    /\ held = {} /\ kept = {}
    /\ \E mock \in BOOLEAN, signIn \in BOOLEAN, public \in BOOLEAN :
         /\ ~builds => ~mock /\ ~signIn /\ ~public
         /\ life = [phase |-> IF builds THEN "building" ELSE "over", live |-> ~mock,
                    todo |-> Stages(mock, signIn, public), failed |-> "none", releasing |-> <<>>]
-----------------------------------------------------------------------------
(* What a stage holds once it has succeeded. *)
Gains(stage) ==
    CASE stage = "settings" -> {"database"}
      [] stage \in {"playwright", "chromium", "context", "router", "responder", "bot"} -> {stage}
      [] stage = "sign in" -> {"workers"}
      [] OTHER -> {}

(* What a stage may hold when it fails: the engine is made before the settings
   are looked at, the first operation of the adapter starts its workers. *)
GainsFailing(stage) ==
    CASE stage = "settings" -> {{}, {"database"}}
      [] stage = "sign in"  -> {{}, {"workers"}}
      [] OTHER              -> {{}}

Fails(stage) == stage = life.failed

(* _cleanup_failed_runtime_build, with what each except branch hands to it;
   _adapter closes its own browser. *)
Cleanup(stage) ==
    CASE stage = "settings" -> <<>>
      [] stage \in ToSet(LiveAdapter) \cup {"sign in"} -> <<"browser", "database">>
      [] stage \in {"services", "router"} -> <<"adapter", "browser", "database">>
      [] stage = "coordinator" -> <<"router", "adapter", "browser", "database">>
      [] stage \in {"responder", "bot"} -> <<"responder", "router", "adapter", "browser", "database">>

(* ApplicationRuntime.close *)
Closing == <<"bot", "adapter", "browser", "responder", "router", "database">>

(* What a boundary releases, in order. *)
PartsOf(boundary) ==
    CASE boundary = "adapter" -> <<"workers">>
      [] boundary = "browser" -> <<"context", "chromium", "playwright">>
      [] OTHER -> <<boundary>>

BuildStage ==
    /\ life.phase = "building"
    /\ held' = held \cup Gains(Head(life.todo))
    /\ life' = [life EXCEPT !.todo = Tail(@), !.phase = IF Len(life.todo) = 1 THEN "running" ELSE @]
    /\ UNCHANGED kept

FailStage ==
    /\ life.phase = "building"
    /\ LET stage == Head(life.todo) IN
         /\ \E gained \in GainsFailing(stage) : held' = held \cup gained
         /\ life' = [life EXCEPT !.phase = "releasing", !.failed = stage, !.releasing = Cleanup(stage)]
    /\ UNCHANGED kept

(* The adapter's first operation. *)
Operate ==
    /\ life.phase = "running" /\ life.live /\ "workers" \notin held
    /\ held' = held \cup {"workers"}
    /\ UNCHANGED <<life, kept>>

(* The gateway ends, of itself or by an error; the bot may be closed by then. *)
StopRunning(closed) ==
    /\ life.phase = "running"
    /\ held' = IF closed THEN held \ {"bot"} ELSE held
    /\ life' = [life EXCEPT !.phase = "releasing", !.releasing = Closing]
    /\ UNCHANGED kept

StopsAtFailure(todo, released) == IF released THEN Tail(todo) ELSE <<>>    \* fault: no further attempt

(* attempt, and the loop of the cleanup: an error, or a cancellation, does not
   end the releasing. *)
GoesOn(todo, released) == Tail(todo)

(* A boundary stops at the first of its parts that does not close; what is not
   held is passed over. *)
Release ==
    /\ life.phase = "releasing" /\ life.releasing # <<>>
    /\ LET parts == PartsOf(Head(life.releasing)) IN
       \E n \in 0..Len(parts) :
         /\ n < Len(parts) => parts[n + 1] \in held
         /\ held' = held \ {parts[i] : i \in 1..n}
         /\ kept' = kept \cup (held \cap {parts[i] : i \in n + 1..Len(parts)})
         /\ life' = [life EXCEPT !.releasing = GoesOn(@, n = Len(parts))]

EndRelease ==
    /\ life.phase = "releasing" /\ life.releasing = <<>>
    /\ life' = [life EXCEPT !.phase = "over"]
    /\ UNCHANGED <<held, kept>>

LifecycleNext ==
    \/ BuildStage \/ FailStage \/ Operate
    \/ \E closed \in BOOLEAN : StopRunning(closed)
    \/ Release \/ EndRelease
-----------------------------------------------------------------------------
Resources == {"database", "playwright", "chromium", "context", "workers", "router", "responder", "bot"}

LifecycleTypeOK ==
    /\ life.phase \in {"building", "running", "releasing", "over"}
    /\ held \subseteq Resources /\ kept \subseteq held

(* The build that fails while signing in has started the adapter's workers and
   leaves them; one that fails on its settings leaves the engine it made. *)
Forgotten ==
    (IF Fails("sign in") THEN {"workers"} ELSE {}) \cup (IF Fails("settings") THEN {"database"} ELSE {})

(* "Release every boundary acquired": in the end nothing is held but what was
   tried and would not close, apart from what is forgotten; and no worker of
   the adapter runs on beside a page that was taken from it. *)
NothingIsLeft ==
    /\ life.phase = "over" => held \subseteq kept \cup Forgotten
    /\ "workers" \in held /\ "context" \notin held => "workers" \in kept \cup Forgotten
=============================================================================
