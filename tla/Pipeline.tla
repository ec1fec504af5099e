------------------------------- MODULE Pipeline -------------------------------
(***************************************************************************)
(* From a saved profile to the search index: the app schema's outbox with    *)
(* its relays (Outbox) feeds the one stream USER_SEARCH_EVENTS that the        *)
(* projector consumes (SearchProjector); the other events of that stream, of    *)
(* the idm schema, come from an outbox of the same shape.                      *)
(*                                                                         *)
(* SearchProjector assumes what the log looks like; here it is what the        *)
(* transactions, the relays and the broker make of it.                         *)
(***************************************************************************)
EXTENDS Outbox, SearchProjector

\* Profiles are those of users; ids fit the projector's bound.
Composed ==
    /\ Aggregates \subseteq Users
    /\ MaxId <= MaxSeq
    /\ "profile.updated" \in Published

pipelineVars == <<outboxVars, vars>>

\* The envelope of an outbox row: its id is the seq.
ProfileEvent(x) == [kind |-> "profile.updated", user |-> x.agg, seq |-> x.id]

PipelineInit == OutboxInit /\ Init

\* Writers, relays and the broker, when nothing is stored in the stream.
Prepare ==
    /\ OutboxNext
    /\ stream' = stream
    /\ UNCHANGED vars

\* A relay's message is stored: it is the next one of the log, a repetition when
\* its id had left the duplicate window.
Feed(x) ==
    /\ OutboxNext
    /\ stream' = Append(stream, x)
    /\ Len(log) < MaxLog
    /\ log' = Append(log, ProfileEvent(x))
    /\ IF InStream(x)
       THEN repeats < MaxRepeats /\ repeats' = repeats + 1
       ELSE UNCHANGED repeats
    /\ UNCHANGED <<consumer, workers, projection, losses, early, restarts>>

\* The relays of the idm schema.
FeedIdm ==
    /\ Publishing
    /\ SchemaOf(log'[Len(log')].kind) = "idm"
    /\ UNCHANGED outboxVars

Consume ==
    /\ Consuming
    /\ UNCHANGED outboxVars

PipelineNext ==
    \/ Prepare
    \/ \E x \in outbox : Feed(x)
    \/ FeedIdm
    \/ Consume

PipelineSpec == PipelineInit /\ [][PipelineNext]_pipelineVars

-------------------------------------------------------------------------------
ProfilesOf(u) == {x \in outbox : x.agg = u}

\* The app part of the log is the relays' stream, no more and no less.
LogIsStream ==
    /\ \A i \in 1..Len(stream) : \E j \in 1..Len(log) : log[j] = ProfileEvent(stream[i])
    /\ \A j \in 1..Len(log) : log[j].kind = "profile.updated" =>
        \E i \in 1..Len(stream) : log[j] = ProfileEvent(stream[i])

\* The index never runs ahead of the database: a row's profile watermark is the
\* id of a committed profile of that user, never of a transaction that was
\* rolled back or is still open.
NothingUncommitted ==
    \A u \in Users : LET n == index[u].seq["app"] IN
        n = 0 \/ \E x \in ProfilesOf(u) : x.id = n

\* No link of the chain loses a profile: a row marked published is in the log,
\* and once its message is acknowledged it is in the index, superseded there, or
\* was given up with an error; whatever relays, broker and workers crash or
\* repeat.
PublishedReachesIndex ==
    \A x \in outbox : x.id \in published =>
        \E j \in 1..Len(log) :
            /\ log[j] = ProfileEvent(x)
            /\ j \in acked => Covered(ProfileEvent(x)) \/ ProfileEvent(x) \in skipped

\* When every profile is published and every message acknowledged, the index
\* shows each user's newest one, if one worker did it all and gave nothing up.
IndexIsCurrent ==
    ( /\ IdsOf(outbox) \subseteq published
      /\ acked = 1..Len(log)
      /\ restarts = 0 /\ Cardinality(Workers) = 1 /\ skipped = {} )
    => \A u \in Users : NewestOf(index[u].cols["display_name"], IdsOf(ProfilesOf(u)))
===============================================================================
