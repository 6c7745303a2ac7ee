------------------------------- MODULE Routing ------------------------------
(***************************************************************************)
(* The chat's last resort for a message no rule understands, app.py        *)
(* 4723-4890 and 10800-10880: a model names a command and the arguments it *)
(* found in the message.  The command is kept in a cache that all people   *)
(* share, the reply it came from in one attribute; the arguments are read  *)
(* out of that attribute afterwards.                                       *)
(***************************************************************************)
EXTENDS Naturals, FiniteSets

CONSTANTS
    Askers,         \* people, each with one request at a time
    Texts, Contexts,    \* what is written, and what the chat said before
    RouteLimit,     \* calls a person may cause in a minute
    Equipped        \* people whose provider may be asked

ASSUME RoutingAssumption == RouteLimit \in Nat /\ Equipped \subseteq Askers

Messages == Texts \X Contexts

VARIABLES
    routeCache,     \* what is kept for each message
    lastRaw,        \* the message whose reply is kept
    asker,          \* what each request is doing
    routed,         \* calls each person caused in this minute
    delivered       \* history: for which message the last results were made

rtVars == <<routeCache, lastRaw, asker, routed, delivered>>

NoMessage == <<>>
Nothing   == [kept |-> "absent"]
NoCommand == [kept |-> "none"]
\* What a message's command came from.
Command(m) == [kept |-> "command", of |-> m]
Entries    == {Nothing, NoCommand} \cup [kept : {"command"}, of : Messages]

NotAsking == [at |-> "idle"]
Doings == {NotAsking} \cup [at : {"look", "ask"}, of : Messages]
         \cup [at : {"stash"}, of : Messages]
         \cup [at : {"args"}, of : Messages, command : Entries]

RtInit ==
    /\ routeCache = [m \in Messages |-> Nothing]
    /\ lastRaw = NoMessage
    /\ asker = [a \in Askers |-> NotAsking]
    /\ routed = [a \in Askers |-> 0]
    /\ delivered = [a \in Askers |-> <<>>]

\* _chat_router_cache_key; it does not say who asks.
Key(m) == m

Kept(m) == routeCache[Key(m)]
Keep(m, entry) == routeCache' = [routeCache EXCEPT ![Key(m)] = entry]

Does(a, r) == asker' = [asker EXCEPT ![a] = r]

RouteMessage(a, m) ==
    /\ asker[a] = NotAsking /\ Does(a, [at |-> "look", of |-> m])
    /\ UNCHANGED <<routeCache, lastRaw, routed, delivered>>

\* A hit returns what is kept, also that there is no command.  Without a
\* provider, the person's or the operator's, that is kept for everyone.
Look(a) ==
    /\ asker[a].at = "look"
    /\ LET m == asker[a].of
       IN \/ /\ Kept(m) # Nothing
             /\ Does(a, [at |-> "args", of |-> m, command |-> Kept(m)])
             /\ UNCHANGED <<routeCache, routed>>
          \/ /\ Kept(m) = Nothing /\ a \notin Equipped
             /\ Keep(m, NoCommand)
             /\ Does(a, NotAsking) /\ UNCHANGED routed
          \/ /\ Kept(m) = Nothing /\ a \in Equipped
             /\ IF routed[a] >= RouteLimit THEN Does(a, NotAsking) /\ UNCHANGED routed
                ELSE /\ routed' = [routed EXCEPT ![a] = @ + 1]
                     /\ Does(a, [at |-> "ask", of |-> m])
             /\ UNCHANGED routeCache
    /\ UNCHANGED <<lastRaw, delivered>>

\* The model fails, or the cap is reached: no command, and that is kept.
AskFails(a) ==
    /\ asker[a].at = "ask"
    /\ Keep(asker[a].of, NoCommand)
    /\ Does(a, NotAsking)
    /\ UNCHANGED <<lastRaw, routed, delivered>>

\* The reply is kept in the attribute, then the command in the cache
\* (_chat_router_cache_put).
AskAnswers(a) ==
    /\ asker[a].at = "ask"
    /\ lastRaw' = asker[a].of
    /\ Does(a, [at |-> "stash", of |-> asker[a].of])
    /\ UNCHANGED <<routeCache, routed, delivered>>

Stash(a) ==
    /\ asker[a].at = "stash"
    /\ Keep(asker[a].of, Command(asker[a].of))
    /\ Does(a, [at |-> "args", of |-> asker[a].of, command |-> Command(asker[a].of)])
    /\ UNCHANGED <<lastRaw, routed, delivered>>

\* The arguments read for message m.
Arguments(m) == lastRaw

\* chat_ai_route_full: no command, no arguments; else those of the reply kept.
ReadArgs(a) ==
    /\ asker[a].at = "args"
    /\ LET m == asker[a].of c == asker[a].command
       IN delivered' = IF c = NoCommand THEN delivered
                       ELSE [delivered EXCEPT ![a] = <<m, c.of, Arguments(m)>>]
    /\ Does(a, NotAsking)
    /\ UNCHANGED <<routeCache, lastRaw, routed>>

\* Ten minutes, or a thousand other messages.
CacheForgets(m) ==
    /\ routeCache[m] # Nothing
    /\ routeCache' = [routeCache EXCEPT ![m] = Nothing]
    /\ UNCHANGED <<lastRaw, asker, routed, delivered>>

MinutePasses ==
    /\ routed' = [a \in Askers |-> 0]
    /\ UNCHANGED <<routeCache, lastRaw, asker, delivered>>

RtNext ==
    \/ \E a \in Askers :
         \/ \E m \in Messages : RouteMessage(a, m)
         \/ Look(a) \/ AskFails(a) \/ AskAnswers(a) \/ Stash(a) \/ ReadArgs(a)
    \/ \E m \in Messages : CacheForgets(m)
    \/ MinutePasses

RtSpec == RtInit /\ [][RtNext]_rtVars

RtTypeOK ==
    /\ routeCache \in [Messages -> Entries] /\ lastRaw \in Messages \cup {NoMessage}
    /\ asker \in [Askers -> Doings] /\ routed \in [Askers -> 0..RouteLimit]
    /\ \A a \in Askers : delivered[a] \in {<<>>} \cup (Messages \X Messages \X Messages)

\* The command a person is offered is the one the model named for her own
\* message, whoever asked first and whatever fails in between.
CommandFits == \A a \in Askers : delivered[a] # <<>> => delivered[a][2] = delivered[a][1]

\* The arguments filled in for a person are those the model found in her own
\* message ("verbatim from the user message", app.py:10815; the reply "is held
\* in the cache next to the parsed command id", app.py:4762).
ArgumentsFit == \A a \in Askers : delivered[a] # <<>> => delivered[a][3] = delivered[a][1]
=============================================================================
