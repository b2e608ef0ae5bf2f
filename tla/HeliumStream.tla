---------------------------- MODULE HeliumStream ----------------------------
(***************************************************************************)
(* A server-sent event stream of Helium (lib/lunula/assets/helium-sse.js,   *)
(* over the request of helium.js): handleSSE reads the body of one response,*)
(* applies every whole event, and when the stream ends may ask for another  *)
(* response after a delay, from the last event id it has seen. Each response*)
(* has a handleSSE of its own. The server numbers its events: asked for what*)
(* follows an id it sends that, and otherwise what is produced from then on.*)
(***************************************************************************)
EXTENDS Integers, Sequences

CONSTANTS
    MaxProduced,      \* bound: events the server produces
    MaxConnections    \* bound: responses asked for

ASSUME StreamAssumption == MaxProduced \in Nat \ {0} /\ MaxConnections \in Nat

VARIABLES
    retryMode,    \* options.retryMode
    current,      \* isCurrent(): the page has not been torn down or mounted anew
    produced,     \* events the server has produced; an event's number is its id
    conn,         \* where the request is: asked for, open, waiting to retry, or over
    resume,       \* the Last-Event-ID it was asked with, 0 for none
    next,         \* the next event on this response
    half,         \* the buffer holds the beginning of that event
    lastId,       \* lastId of the running handleSSE, 0 for null
    seen,         \* events handled, in order
    connections,  \* how much of MaxConnections is used
    barren,       \* a response that ended before any id
    cut           \* an event applied that the end of a response had cut short

streamVars == <<retryMode, current, produced, conn, resume, next, half, lastId, seen,
                connections, barren, cut>>

StreamTypeOK ==
    /\ retryMode \in {"always", "error", "never"}
    /\ current \in BOOLEAN
    /\ produced \in 0..MaxProduced
    /\ conn \in {"asked", "open", "waiting", "over"}
    /\ resume \in 0..produced
    /\ next \in 1..produced + 1
    /\ half \in BOOLEAN
    /\ lastId \in 0..produced
    /\ seen \in Seq(1..produced)
    /\ connections \in 0..MaxConnections
    /\ barren \in BOOLEAN /\ cut \in BOOLEAN

StreamInit ==
    /\ retryMode \in {"always", "error", "never"}
    /\ current = TRUE
    /\ produced \in 0..1
    /\ conn = "asked" /\ resume = 0 /\ next = 1 /\ half = FALSE /\ lastId = 0
    /\ seen = <<>>
    /\ connections = 0 /\ barren = FALSE /\ cut = FALSE

----------------------------------------------------------------------------
(* The server                                                               *)

Produce ==
    /\ produced < MaxProduced
    /\ produced' = produced + 1
    /\ UNCHANGED <<retryMode, current, conn, resume, next, half, lastId, seen, connections,
                   barren, cut>>

\* A handleSSE of its own, which has seen no id yet; it does not read for a page
\* that is gone.
Responds ==
    /\ conn = "asked"
    /\ conn' = IF current THEN "open" ELSE "over"
    /\ lastId' = 0 /\ half' = FALSE
    /\ next' = IF resume # 0 THEN resume + 1 ELSE produced + 1
    /\ UNCHANGED <<retryMode, current, produced, resume, seen, connections, barren, cut>>

\* Anything but an event stream: a page, say, that asks to sign in. It is put where
\* the events would have gone, and the request has succeeded.
RespondsOtherwise ==
    /\ conn = "asked"
    /\ conn' = "over"
    /\ UNCHANGED <<retryMode, current, produced, resume, next, half, lastId, seen,
                   connections, barren, cut>>

----------------------------------------------------------------------------
(* Retrying                                                                 *)

Retries == retryMode \in {"always", "error"} /\ current

\* The request fails, or update throws at what it answers instead of a stream: the handler
\* that asked for it asks again, with the same id; the first of all is nobody's to repeat.
RequestFails ==
    /\ conn = "asked"
    /\ conn' = IF Retries /\ connections > 0 THEN "waiting" ELSE "over"
    /\ UNCHANGED <<retryMode, current, produced, resume, next, half, lastId, seen,
                   connections, barren, cut>>

\* What the next request resumes from
ResumesFrom_Nothing(id) == 0
ResumesFrom(id) == id

Reconnect ==
    /\ conn = "waiting" /\ connections < MaxConnections
    /\ IF current
       THEN /\ conn' = "asked" /\ resume' = ResumesFrom(lastId)
            /\ connections' = connections + 1
       ELSE conn' = "over" /\ UNCHANGED <<resume, connections>>
    /\ UNCHANGED <<retryMode, current, produced, next, half, lastId, seen, barren, cut>>

Ends(how, id) ==
    /\ conn' = IF current /\ (retryMode = "always" \/ (how = "error" /\ retryMode = "error"))
               THEN "waiting" ELSE "over"
    /\ lastId' = id
    /\ half' = FALSE
    /\ barren' = (barren \/ id = 0)

----------------------------------------------------------------------------
(* Reading                                                                  *)

Events_OffByOne(from, to) == [i \in 1..(to - from + 1) |-> from + i]
Events(from, to) == [i \in 1..(to - from + 1) |-> from + i - 1]

\* A chunk with the events up to `to`, and perhaps the beginning of another
Read(to, more) ==
    /\ conn = "open" /\ current
    /\ to >= next - 1 /\ (more => to < produced)
    /\ <<to, more>> # <<next - 1, half>>
    /\ (half /\ to = next - 1) => more
    /\ seen' = seen \o Events(next, to)
    /\ lastId' = IF to >= next THEN to ELSE lastId
    /\ next' = to + 1 /\ half' = more
    /\ UNCHANGED <<retryMode, current, produced, conn, resume, connections, barren, cut>>

\* The update of one of them throws (its event names no valid selector): its id
\* counts, the rest of the chunk is dropped, and it is as if the stream had failed.
ReadThrows(bad) ==
    /\ conn = "open" /\ current
    /\ bad >= next
    /\ seen' = seen \o Events(next, bad)
    /\ next' = bad + 1
    /\ Ends("error", bad)
    /\ UNCHANGED <<retryMode, current, produced, resume, connections, cut>>

\* The response fails: what the buffer holds is forgotten.
ReadFails ==
    /\ conn = "open"
    /\ Ends("error", lastId)
    /\ UNCHANGED <<retryMode, current, produced, resume, next, seen, connections, cut>>

\* The response ends: the buffer is taken for a whole event, whose id may have been
\* read or not, and whose update may throw.
Closed ==
    /\ conn = "open"
    /\ IF half /\ current
       THEN /\ \E id \in {lastId, next}, how \in {"closed", "error"} : Ends(how, id)
            /\ seen' = Append(seen, next)
            /\ cut' = TRUE
       ELSE Ends("closed", lastId) /\ UNCHANGED <<seen, cut>>
    /\ UNCHANGED <<retryMode, current, produced, resume, next, connections>>

\* A chunk after the page is gone: the loop ends, nothing is applied.
ReadInVain ==
    /\ conn = "open" /\ ~current /\ next <= produced
    /\ conn' = "over"
    /\ UNCHANGED <<retryMode, current, produced, resume, next, half, lastId, seen,
                   connections, barren, cut>>

\* helium() again, or heliumTeardown()
Supersede ==
    /\ current
    /\ current' = FALSE
    /\ UNCHANGED <<retryMode, produced, conn, resume, next, half, lastId, seen, connections,
                   barren, cut>>

----------------------------------------------------------------------------

StreamNext ==
    \/ Produce \/ Responds \/ RespondsOtherwise \/ RequestFails \/ Reconnect
    \/ \E to \in 0..produced : (\E more \in BOOLEAN : Read(to, more)) \/ ReadThrows(to)
    \/ ReadFails \/ Closed \/ ReadInVain \/ Supersede

StreamSpec == StreamInit /\ [][StreamNext]_streamVars

----------------------------------------------------------------------------

(***************************************************************************)
(* Over any number of responses that break, fail to come or are cut off in  *)
(* the middle of an event, every event is handled once and in order, from   *)
(* the first one on. Two things spoil it: a response that ends before any id*)
(* (the new handleSSE has forgotten the last one, helium-sse.js:6, and the  *)
(* next request resumes nowhere), and an end in the middle of an event (its *)
(* beginning is applied as if it were the event, helium-sse.js:46).         *)
(***************************************************************************)
NothingMissed ==
    ~barren /\ ~cut =>
        \A i \in 1..Len(seen) - 1 : seen[i + 1] = seen[i] + 1

=============================================================================
