-------------------------------- MODULE Notifier ---------------------------------
(*****************************************************************************)
(* The notifier (notifier/): the endpoint the topic pushes to, the summaries *)
(* the scheduler asks for, and what is posted to Slack.  An answer of 200    *)
(* takes a message off the topic; any other leaves it to be delivered again. *)
(* The bot token is looked up when the first notification is posted and      *)
(* kept, found or not, for the life of the instance.                         *)
(*                                                                           *)
(* All that deliveries share is the token and the channel, so a delivery is  *)
(* one step.  The producers publish nothing that parse cannot read.          *)
(*****************************************************************************)
EXTENDS Topic

VARIABLES
    secret,             \* whether the secret of the bot token has a version
    token,              \* Slack.token: "unasked", "none" or "found"
    due,                \* summaries asked for and not answered with 200
    channel,            \* history: the reports posted
    unsaid              \* history: the reports answered with 200 and not posted

notifierVars == <<secret, token, due, channel, unsaid>>

Summaries == {[event |-> "daily_summary"], [event |-> "weekly_summary"]}

NotifierInit ==
    /\ secret \in BOOLEAN /\ token = "unasked"
    /\ due = {} /\ channel = {} /\ unsaid = {}

\* quality.build: only a report of a failure is worth a notification.
WorthSaying(m) == m.event = "quality_report" /\ ~m.passed

\* 200 takes the message off the topic, or ends the scheduler's attempts.
Acknowledged(m) == topic' = topic \ {m} /\ due' = due \ {m}

\* (mutant) a transient failure is acknowledged like a defect
Dropped(m) == Acknowledged(m)

\* 500: the sender tries again.
AskedAgain(m) == UNCHANGED <<topic, due>>

Posted(m) == channel' = channel \union ({m} \ Summaries) /\ UNCHANGED unsaid
NotPosted == UNCHANGED <<channel, unsaid>>
GivenUp(m) == unsaid' = unsaid \union ({m} \ Summaries) /\ UNCHANGED channel

\* slack_bot_token: no version is an answer and not a failure.
SecretSays(answer) == secret = (answer = "found")

\* Slack.token: looked up once, and kept even when there is none.
Token(answer) ==
    /\ token = answer \/ (token = "unasked" /\ SecretSays(answer))
    /\ token' = answer

PostDone(m) == Token("found") /\ Posted(m) /\ Acknowledged(m) /\ UNCHANGED faults

\* Posted, and the answer of Slack or of the endpoint is lost.
PostUnheard(m) == Token("found") /\ Fault /\ Posted(m) /\ AskedAgain(m)

\* Slack cannot be reached or limits the rate (_classify).
PostTransient(m) == Token("found") /\ Fault /\ NotPosted /\ AskedAgain(m)

\* The warehouse and Secret Manager are asked before Slack is: a summary needs the one,
\* the first post of an instance the other.
AsksFirst(m) == token = "unasked" \/ m \in Summaries

\* A defect would repeat, whichever of the three it meets: it goes to the channel by
\* report_failure, which needs the token too, and the topic is told 200, the scheduler 500.
PostDefect(m) ==
    /\ Fault
    /\ \/ Token("found")
       \/ AsksFirst(m) /\ (UNCHANGED token \/ Token("none"))
    /\ GivenUp(m)
    /\ IF m \in Summaries THEN AskedAgain(m) ELSE Acknowledged(m)

\* No token: the log gets it.
DryRun(m) == Token("none") /\ GivenUp(m) /\ Acknowledged(m) /\ UNCHANGED faults

\* Secret Manager, or for a summary the warehouse, is unavailable.
Unavailable(m) ==
    /\ AsksFirst(m)
    /\ Fault
    /\ NotPosted /\ AskedAgain(m) /\ UNCHANGED token

Post(m) ==
    \/ PostDone(m) \/ PostUnheard(m) \/ PostTransient(m) \/ PostDefect(m)
    \/ DryRun(m) \/ Unavailable(m)

\* 200 with nothing to say, or an answer that is lost.
Ignore(m) ==
    /\ UNCHANGED <<token, channel, unsaid>>
    /\ \/ Acknowledged(m) /\ UNCHANGED faults
       \/ AskedAgain(m) /\ Fault

\* signals_pubsub with handle.
Deliver(m) ==
    /\ m \in topic
    /\ IF WorthSaying(m) THEN Post(m) ELSE Ignore(m)
    /\ UNCHANGED secret

\* The scheduler calls jobs_daily_summary or jobs_weekly_summary.
Schedule ==
    /\ \E m \in Summaries \ due : due' = due \union {m}
    /\ UNCHANGED <<topicVars, secret, token, channel, unsaid>>

\* _run with run_daily or run_weekly; a day without readings has nothing to say.
Summarise(m) ==
    /\ m \in due
    /\ Post(m) \/ (m.event = "daily_summary" /\ Ignore(m))
    /\ UNCHANGED secret

\* The scheduler's attempts are over.
GiveUp(m) ==
    /\ m \in due
    /\ due' = due \ {m}
    /\ UNCHANGED <<topicVars, secret, token, channel, unsaid>>

\* Another instance answers from now on.
NewInstance ==
    /\ token # "unasked"
    /\ token' = "unasked"
    /\ UNCHANGED <<topicVars, secret, due, channel, unsaid>>

SecretComes ==
    /\ ~secret
    /\ secret' = TRUE
    /\ UNCHANGED <<topicVars, token, due, channel, unsaid>>

NotifierNext ==
    \/ \E m \in topic : Deliver(m)
    \/ \E m \in due : Summarise(m) \/ GiveUp(m)
    \/ Schedule \/ NewInstance \/ SecretComes
==================================================================================
