---------------------------- MODULE AicoreConfig ----------------------------
(***************************************************************************)
(* aicore: threads call completion(), one thread watches the mounted       *)
(* secret, and the program may change the content filter.  They share the  *)
(* environment variables of the process, which a reload writes one by one  *)
(* and litellm reads one by one, and the installed filter.  No lock        *)
(* protects either.  A request that still has a token of litellm's cache   *)
(* does not read the environment and is left out.                          *)
(***************************************************************************)
EXTENDS Integers

CONSTANTS
    Completions,  \* the threads that call completion or acompletion
    Rotations     \* bound: how often the secret is rotated

Watcher == 0  \* aicore-secret-watcher

AicoreAssumption == Watcher \notin Completions /\ Rotations \in Nat

VARIABLES
    aicoreMode, \* "direct" or "destination"
    mounted,    \* version of the secret in the volume, or in the destination
    usable,     \* the versions AI Core accepts
    env,        \* AICORE_CLIENT_ID, AICORE_CLIENT_SECRET
    watched,    \* last_mtime of the watcher
    filter,     \* _active_cfg
    job         \* per thread

aicoreVars == <<aicoreMode, mounted, usable, env, watched, filter, job>>

Secrets == 0..Rotations
Pairs == [id: Secrets, secret: Secrets]
Both(v) == [id |-> v, secret |-> v]

\* a ContentFiltering, which is the one of the environment after a reload; or None
Filters == {"on", "off"}

\* pair: the credentials it has read, from the secret or the environment;
\* seen: current_mtime; filter: the one in its request
NoJob == [pc |-> "ended", tried |-> FALSE, pair |-> Both(0), seen |-> 0,
          filter |-> "off", wrapped |-> FALSE,
          calm |-> FALSE] \* history: no reload was under way when it was called, and
                          \* since then nobody met a rotation or a failure to read

Init ==
    /\ aicoreMode \in {"direct", "destination"}
    /\ mounted = 0 /\ usable = {0} /\ env = Both(0) /\ watched = 0
    /\ filter = "on"
    /\ job = [t \in Completions \cup {Watcher} |-> NoJob]

\* ended: with an answer, a ContentFilteredError, or another error; refused: with
\* the second AuthenticationError; rawInput, rawStream: with a refusal of the input
\* filter, or of the output filter in a stream, that is not a ContentFilteredError
Ends == {"ended", "refused", "rawInput", "rawStream"}
At(t, label) == job[t].pc = label
End(t, label) == job' = [job EXCEPT ![t] = [NoJob EXCEPT !.pc = label, !.calm = job[t].calm /\ label = "refused"]]
Disturbed == [t \in DOMAIN job |-> [job[t] EXCEPT !.calm = FALSE]]
Goto(t, label) == job' = [job EXCEPT ![t].pc = label]
Reloading(t) == job[t].pc \in {"read", "writeId", "readSecret", "writeSecret", "refilter"}

-----------------------------------------------------------------------------
(* set_aicore_config *)

\* mutant: the reload keeps the secret there is
WriteIdOnly(t) ==
    /\ At(t, "writeId")
    /\ env' = [env EXCEPT !.id = job[t].pair.id]
    /\ Goto(t, "refilter")
    /\ UNCHANGED <<aicoreMode, mounted, usable, watched, filter>>

\* a destination has both at once
Read(t) ==
    /\ At(t, "read")
    /\ job' = [job EXCEPT ![t].pc = "writeId",
           ![t].pair = IF aicoreMode = "destination" THEN Both(mounted)
                       ELSE [@ EXCEPT !.id = mounted]]
    /\ UNCHANGED <<aicoreMode, mounted, usable, env, watched, filter>>

\* a file that cannot be read leaves what the environment has; without the
\* destination, or one of the two in it, the reload raises
ReadFails(t) ==
    /\ At(t, "read")
    /\ job' = IF aicoreMode = "destination" THEN [Disturbed EXCEPT ![t] = NoJob]
              ELSE [Disturbed EXCEPT ![t].pair.id = env.id, ![t].pc = "writeId"]
    /\ UNCHANGED <<aicoreMode, mounted, usable, env, watched, filter>>

WriteId(t) ==
    /\ At(t, "writeId")
    /\ env' = [env EXCEPT !.id = job[t].pair.id]
    /\ Goto(t, IF aicoreMode = "destination" THEN "writeSecret" ELSE "readSecret")
    /\ UNCHANGED <<aicoreMode, mounted, usable, watched, filter>>

ReadSecret(t) ==
    /\ At(t, "readSecret")
    /\ \/ job' = [job EXCEPT ![t].pc = "writeSecret", ![t].pair.secret = mounted]
       \/ job' = [Disturbed EXCEPT ![t].pc = "writeSecret", ![t].pair.secret = env.secret]
    /\ UNCHANGED <<aicoreMode, mounted, usable, env, watched, filter>>

WriteSecret(t) ==
    /\ At(t, "writeSecret")
    /\ env' = [env EXCEPT !.secret = job[t].pair.secret]
    /\ job' = [job EXCEPT ![t].pc = "refilter", ![t].pair = Both(0)]
    /\ UNCHANGED <<aicoreMode, mounted, usable, watched, filter>>

\* set_filtering() with nothing; then the request again, or the next interval
Refilter(t) ==
    /\ At(t, "refilter")
    /\ filter' = "on"
    /\ Goto(t, IF t = Watcher THEN "remember" ELSE "readEnv")
    /\ UNCHANGED <<aicoreMode, mounted, usable, env, watched>>

Reload(t) ==
    Read(t) \/ ReadFails(t) \/ WriteId(t) \/ ReadSecret(t) \/ WriteSecret(t) \/ Refilter(t)

-----------------------------------------------------------------------------
(* watch_aicore_config: nobody else writes last_mtime *)

Watch ==
    /\ job[Watcher].pc \in Ends
    /\ watched # mounted
    /\ job' = [job EXCEPT ![Watcher] = [NoJob EXCEPT !.pc = "read", !.seen = mounted]]
    /\ UNCHANGED <<aicoreMode, mounted, usable, env, watched, filter>>

\* only after a reload that did not raise
RememberMtime ==
    /\ At(Watcher, "remember")
    /\ watched' = job[Watcher].seen
    /\ End(Watcher, "ended")
    /\ UNCHANGED <<aicoreMode, mounted, usable, env, filter>>

-----------------------------------------------------------------------------
(* completion, acompletion, and litellm with the patched transport *)

Complete(t) ==
    /\ job[t].pc \in Ends
    /\ job' = [job EXCEPT ![t] = [NoJob EXCEPT !.pc = "readEnv",
                    !.calm = \A u \in DOMAIN job : ~Reloading(u)]]
    /\ UNCHANGED <<aicoreMode, mounted, usable, env, watched, filter>>

ReadEnv(t) ==
    /\ At(t, "readEnv")
    /\ job' = [job EXCEPT ![t].pc = "readEnvSecret", ![t].pair.id = env.id]
    /\ UNCHANGED <<aicoreMode, mounted, usable, env, watched, filter>>

ReadEnvSecret(t) ==
    /\ At(t, "readEnvSecret")
    /\ job' = [job EXCEPT ![t].pc = "transform", ![t].pair.secret = env.secret]
    /\ UNCHANGED <<aicoreMode, mounted, usable, env, watched, filter>>

\* transform_request looks at _active_cfg twice; the second time it may be None
Transform(t) ==
    /\ At(t, "transform")
    /\ job' = [job EXCEPT ![t].filter = "off",
                          ![t].pc = IF filter = "off" THEN "send" ELSE "attach"]
    /\ UNCHANGED <<aicoreMode, mounted, usable, env, watched, filter>>

Attach(t) ==
    /\ At(t, "attach")
    /\ IF filter = "off" THEN End(t, "ended")
       ELSE job' = [job EXCEPT ![t].filter = filter, ![t].pc = "send"]
    /\ UNCHANGED <<aicoreMode, mounted, usable, env, watched, filter>>

Authentic(t) == job[t].pair \in {Both(v) : v \in usable}

\* AuthenticationError: the first time, reload and try again
Unauthorized(t) ==
    /\ At(t, "send") /\ ~Authentic(t)
    /\ IF job[t].tried THEN End(t, "refused")
       ELSE job' = [job EXCEPT ![t] = [NoJob EXCEPT !.pc = "read", !.tried = TRUE, !.calm = job[t].calm]]
    /\ UNCHANGED <<aicoreMode, mounted, usable, env, watched, filter>>

\* the input filter refuses the prompt: an exception of litellm, which becomes a
\* ContentFilteredError in the handler beside the retry
InputBlocked(t) ==
    /\ At(t, "send") /\ Authentic(t) /\ job[t].filter # "off"
    /\ End(t, IF job[t].tried THEN "rawInput" ELSE "ended")
    /\ UNCHANGED <<aicoreMode, mounted, usable, env, watched, filter>>

\* a buffered answer, a ContentFilteredError of transform_response if the output
\* filter refused it, or, whatever the credentials are, another error
Answered(t) ==
    /\ At(t, "send")
    /\ End(t, "ended")
    /\ UNCHANGED <<aicoreMode, mounted, usable, env, watched, filter>>

\* a stream, which is wrapped if a filter is installed by now
Streams(t) ==
    /\ At(t, "send") /\ Authentic(t)
    /\ job' = [job EXCEPT ![t].pc = "streaming", ![t].pair = Both(0),
                          ![t].wrapped = filter # "off"]
    /\ UNCHANGED <<aicoreMode, mounted, usable, env, watched, filter>>

\* the stream ends, with an error or without; if the output filter ends it, the
\* wrapper makes that a ContentFilteredError
StreamEnds(t) ==
    /\ At(t, "streaming")
    /\ \/ End(t, "ended")
       \/ job[t].filter # "off" /\ ~job[t].wrapped /\ End(t, "rawStream")
    /\ UNCHANGED <<aicoreMode, mounted, usable, env, watched, filter>>

Request(t) ==
    \/ ReadEnv(t) \/ ReadEnvSecret(t) \/ Transform(t) \/ Attach(t) \/ Unauthorized(t)
    \/ InputBlocked(t) \/ Answered(t) \/ Streams(t) \/ StreamEnds(t)

-----------------------------------------------------------------------------
(* the program, and the platform *)

\* set_filtering(config), disable_filtering()
SetFiltering(f) ==
    /\ filter' = f
    /\ UNCHANGED <<aicoreMode, mounted, usable, env, watched, job>>

RotateSecret ==
    /\ mounted < Rotations
    /\ mounted' = mounted + 1 /\ usable' = usable \cup {mounted + 1}
    /\ job' = Disturbed
    /\ UNCHANGED <<aicoreMode, env, watched, filter>>

RevokeOld ==
    /\ usable' = {mounted}
    /\ UNCHANGED <<aicoreMode, mounted, env, watched, filter, job>>

Next ==
    \/ \E t \in Completions :
          \/ Request(t) \/ Reload(t)
          \/ Complete(t)
    \/ Watch \/ Reload(Watcher) \/ RememberMtime
    \/ \E f \in Filters : SetFiltering(f)
    \/ RotateSecret \/ RevokeOld

Spec == Init /\ [][Next]_aicoreVars

-----------------------------------------------------------------------------
(* Properties *)

TypeOK ==
    /\ aicoreMode \in {"direct", "destination"}
    /\ mounted \in Secrets /\ usable \subseteq Secrets /\ mounted \in usable
    /\ env \in Pairs /\ watched \in Secrets
    /\ filter \in Filters
    /\ \A t \in DOMAIN job : job[t].pair \in Pairs /\ job[t].filter \in Filters

\* However reloads interleave, a completion is not refused twice if since its call
\* the secret was not rotated and could be read, and no reload was under way then
\* that may have read an older one.
LoneCompletionRecovers == \A t \in Completions : job[t].calm => ~At(t, "refused")

\* A refusal of the input filter reaches the caller as a ContentFilteredError, so that
\* "callers can rely on a single exception type for "filter blocked you""
\* (aicore/completion.py, module docstring).  A stream is another matter: it is
\* wrapped only if output filtering is still active when it starts.
InputRefusalsAreTyped == \A t \in Completions : ~At(t, "rawInput")

=============================================================================
