------------------------------- MODULE MCChat -------------------------------
(* Instances of Chat for TLC: a user who tries every word, one whose role can *)
(* be widened by a level, one who mixes in commands, one who is re-classified *)
(* meanwhile, and one with two tabs.                                          *)
EXTENDS Chat

CONSTANTS t1, t2, health

\* One word of each kind.
Guided   == {"find a job", "yes", "skip", "cancel", "auto", health, "1"}
Words    == Guided \cup
            {"nurse", "berli", "no", "weiter", "stop", "reset", "done", "any level",
             "related", "build", "<cv>", "i need a cv", "letter", "help", "retry"}
Senior   == (Guided \ {health}) \cup {"senior clerk", "any level", "weiter"}
Commands == (Guided \ {health}) \cup {"nurse"}
\* Two tabs press the same buttons, or one of them cancels.
Tabs     == {"find a job", "yes", "skip", "auto"}
Cancels  == {"find a job", "skip", "auto"}

HabitsAll == {"words", "senior", "commands", "profile", "tabs", "cancels"}
SaysAll ==
    [h \in Habits |->
       [t \in Threads |->
          CASE t = t1 /\ h = "words"    -> Words
            [] t = t1 /\ h = "senior"   -> Senior
            [] t = t1 /\ h = "commands" -> Commands
            [] t = t1 /\ h = "profile"  -> Guided
            [] t = t1 /\ h = "tabs"     -> Tabs
            [] t = t1 /\ h = "cancels"  -> Cancels
            [] t # t1 /\ h = "tabs"     -> {"yes"}
            [] t # t1 /\ h = "cancels"  -> {"yes", "cancel"}
            [] OTHER -> {}]]
=============================================================================
