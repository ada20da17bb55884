----------------------------- MODULE ModelClient -----------------------------
(***************************************************************************)
(* How the verifier reaches the model (phase0/verifier.py): CachedClient,  *)
(* a response cache that is a file of rows read when the client is made,   *)
(* in front of either AnthropicClient, which makes one call of the         *)
(* vendor's SDK and believes what it gets, or OpenAICompatibleClient, which *)
(* retries a call that failed transiently, otherwise falls back to a less   *)
(* structured mode, and gives back only what it could parse.               *)
(*                                                                         *)
(* One process uses a cache file at a time.  It may be killed at any       *)
(* moment (the job that runs it has a time limit), in the middle of the    *)
(* write of a row too, and is then run again on the same file.             *)
(***************************************************************************)
EXTENDS Naturals, Sequences

CONSTANTS
    Keys,              \* ModelRequest.key(): digests of requests
    Responses,         \* what the model may answer, differently each time
    Usable,            \* the answers that _extract accepts, whole or salvaged
    MaxAttempts        \* max_attempts

ASSUME ClientAssumption == MaxAttempts \in Nat \ {0} /\ Usable \subseteq Responses

Modes == {"json_schema", "json_object", "text"}

VARIABLES
    provider,          \* --provider: "anthropic" or "openai-compatible"
    phase,             \* "idle", "sdk", "post", "append", "down", or "broken"
    request,           \* {} or the set of the key being completed
    answer,            \* {} or the set of the answer being stored
    mem,               \* CachedClient._mem, as a set of <<key, response>>
    rows,              \* the complete rows of the cache file
    torn,              \* the file ends in part of a row
    mode,              \* _mode: {} for None, or the set of one mode
    toTry,             \* the modes that this call has yet to try
    attempts,          \* POSTs in the current mode
    returned           \* history: every <<key, response>> a caller was given

callVars == <<request, answer, toTry, attempts>>
fileVars == <<provider, rows, torn>>
clientVars == <<phase, callVars, mem, fileVars, mode, returned>>

Init ==
    /\ provider \in {"anthropic", "openai-compatible"}
    /\ phase = "idle"
    /\ request = {} /\ answer = {} /\ toTry = << >> /\ attempts = 0
    /\ mem = {} /\ rows = {} /\ torn = FALSE
    /\ mode = {}
    /\ returned = {}
-----------------------------------------------------------------------------
\* The keys that a set of <<key, response>> holds
Known(S) == {row[1] : row \in S}

Hit(k) ==
    /\ phase = "idle"
    /\ \E row \in mem : row[1] = k /\ returned' = returned \union {row}
    /\ UNCHANGED <<phase, callVars, mem, fileVars, mode>>

\* A miss asks the model, in the mode that worked before if there is one.
Miss(k) ==
    /\ phase = "idle"
    /\ k \notin Known(mem)
    /\ request' = {k}
    /\ \/ /\ provider = "anthropic"
          /\ phase' = "sdk"
          /\ UNCHANGED <<toTry, attempts>>
       \/ /\ provider = "openai-compatible"
          /\ phase' = "post"
          /\ toTry' \in IF mode = {} THEN {<<"json_schema", "json_object", "text">>}
                                     ELSE {<<m>> : m \in mode}
          /\ attempts' = 1
    /\ UNCHANGED <<answer, mem, fileVars, mode, returned>>

\* The call raises; the caller drops the task or its arm.
Raise ==
    /\ phase' = "idle"
    /\ request' = {} /\ answer' = {} /\ toTry' = << >> /\ attempts' = 0

\* AnthropicClient.complete: the text as it is, cut off at max_tokens perhaps
SdkAnswers(v) ==
    /\ phase = "sdk"
    /\ phase' = "append"
    /\ answer' = {v}
    /\ UNCHANGED <<request, toTry, attempts, mem, fileVars, mode, returned>>

\* A refusal, no text at all, or an error of the SDK
SdkRaises ==
    /\ phase = "sdk"
    /\ Raise
    /\ UNCHANGED <<mem, fileVars, mode, returned>>

PostAnswers(v) ==
    /\ phase = "post" /\ v \in Usable
    /\ mode' = {Head(toTry)}
    /\ phase' = "append"
    /\ answer' = {v}
    /\ UNCHANGED <<request, toTry, attempts, mem, fileVars, returned>>

\* Variant: one attempt too many
PostTransientOnceMore ==
    /\ phase = "post"
    /\ IF attempts <= MaxAttempts
       THEN attempts' = attempts + 1 /\ UNCHANGED <<phase, request, answer, toTry>>
       ELSE Raise
    /\ UNCHANGED <<mem, fileVars, mode, returned>>

\* _post_with_retry: the same request again, up to the limit
PostTransient ==
    /\ phase = "post"
    /\ IF attempts < MaxAttempts
       THEN attempts' = attempts + 1 /\ UNCHANGED <<phase, request, answer, toTry>>
       ELSE Raise
    /\ UNCHANGED <<mem, fileVars, mode, returned>>

\* Variant: the last mode is not recognised as the last.
PostUnusablePastLast ==
    /\ phase = "post"
    /\ IF toTry # << >>
       THEN toTry' = Tail(toTry) /\ attempts' = 1 /\ UNCHANGED <<phase, request, answer>>
       ELSE Raise
    /\ UNCHANGED <<mem, fileVars, mode, returned>>

\* Variant: a remembered mode that fails is tried again.
PostUnusableAgain ==
    /\ phase = "post"
    /\ IF Tail(toTry) # << >>
       THEN toTry' = Tail(toTry) /\ attempts' = 1 /\ UNCHANGED <<phase, request, answer>>
       ELSE toTry' = <<"json_schema", "text">> /\ attempts' = 1 /\ UNCHANGED <<phase, request, answer>>
    /\ UNCHANGED <<mem, fileVars, mode, returned>>

\* A final HTTP error, or text that _extract makes nothing of
PostUnusable ==
    /\ phase = "post"
    /\ IF Tail(toTry) # << >>
       THEN toTry' = Tail(toTry) /\ attempts' = 1 /\ UNCHANGED <<phase, request, answer>>
       ELSE Raise
    /\ UNCHANGED <<mem, fileVars, mode, returned>>

\* A reply of a shape that the fallback does not catch (content null, no choices)
PostRaises ==
    /\ phase = "post"
    /\ Raise
    /\ UNCHANGED <<mem, fileVars, mode, returned>>

\* Variant: the row is kept in memory only.
StoreAnswerInMemory ==
    /\ phase = "append"
    /\ mem' = mem \union (request \X answer)
    /\ returned' = returned \union (request \X answer)
    /\ Raise
    /\ UNCHANGED <<fileVars, mode>>

\* The row is kept in memory, appended to the file, and the text returned.
StoreAnswer ==
    /\ phase = "append"
    /\ mem' = mem \union (request \X answer)
    /\ rows' = rows \union (request \X answer)
    /\ returned' = returned \union (request \X answer)
    /\ Raise
    /\ UNCHANGED <<provider, torn, mode>>
-----------------------------------------------------------------------------
Forget ==
    /\ phase' = "down"
    /\ request' = {} /\ answer' = {} /\ toTry' = << >> /\ attempts' = 0
    /\ mem' = {} /\ mode' = {}
    /\ UNCHANGED returned

\* The process ends: none of a row that is being written has reached the file,
\* or all of it.
Crash ==
    /\ phase \in {"idle", "sdk", "post", "append"}
    /\ Forget
    /\ \/ UNCHANGED rows
       \/ phase = "append" /\ rows' = rows \union (request \X answer)
    /\ UNCHANGED <<provider, torn>>

\* Or a part of it
CrashInRow ==
    /\ phase = "append"
    /\ Forget
    /\ torn' = TRUE
    /\ UNCHANGED <<provider, rows>>

\* Variant: the file is appended to and never read.
RestartEmpty ==
    /\ phase = "down"
    /\ phase' = "idle"
    /\ UNCHANGED <<callVars, mem, fileVars, mode, returned>>

\* CachedClient.__init__: every row is parsed; one that is not JSON raises.
Restart ==
    /\ phase = "down"
    /\ IF torn THEN phase' = "broken" /\ UNCHANGED mem
               ELSE phase' = "idle" /\ mem' = rows
    /\ UNCHANGED <<callVars, fileVars, mode, returned>>
-----------------------------------------------------------------------------
Work ==
    \/ \E v \in Responses : SdkAnswers(v) \/ PostAnswers(v)
    \/ SdkRaises \/ PostTransient \/ PostUnusable \/ PostRaises
    \/ StoreAnswer

Next ==
    \/ \E k \in Keys : Hit(k) \/ Miss(k)
    \/ Work
    \/ Crash
    \/ Restart

TearingSpec == Init /\ [][Next \/ CrashInRow]_clientVars
-----------------------------------------------------------------------------
TypeOK ==
    /\ provider \in {"anthropic", "openai-compatible"}
    /\ phase \in {"idle", "sdk", "post", "append", "down", "broken"}
    /\ request \subseteq Keys /\ answer \subseteq Responses
    /\ mem \subseteq Keys \X Responses
    /\ rows \subseteq Keys \X Responses
    /\ returned \subseteq Keys \X Responses
    /\ torn \in BOOLEAN
    /\ mode \subseteq Modes
    /\ toTry \in Seq(Modes)
    /\ attempts \in 0 .. MaxAttempts

\* A request is answered the same way for ever, before and after any number of
\* restarts, although the model need not answer it so.
StableAnswers ==
    \A p, q \in returned : p[1] = q[1] => p = q

\* (docs/DECISIONS.md, D36: "every call that succeeded is served from the
\* content-addressed cache and only the failed calls are made") The model is
\* never asked what a caller has been told, by this process or an earlier one.
NeverAskedAgain ==
    phase \in {"sdk", "post", "append"} => request \intersect Known(returned) = {}

\* A call makes no more POSTs than the modes and attempts allow, and a mode is
\* remembered only to be the one that is tried.
CallBounded ==
    /\ phase = "post" => attempts \in 1 .. MaxAttempts /\ toTry # << >>
    /\ phase = "append" /\ provider = "openai-compatible" => mode = {Head(toTry)}

\* (docs/DECISIONS.md, D36) A run that was killed can be resumed from its cache.
ResumeSucceeds == phase # "broken"
=============================================================================
