------------------------------ MODULE Clipboard ------------------------------
(***************************************************************************)
(* Text between the macOS pasteboard and the clients' clipboards           *)
(* (clipboard.rs).  Every connection has a backend and a thread that polls *)
(* the pasteboard; all of them send to the one event queue of the server,  *)
(* which outlives them.                                                    *)
(*                                                                         *)
(* A client asks for the data of every format list it gets, at once, and   *)
(* keeps its text if it gets none.  People copy, on either side, while     *)
(* nothing is under way.  pbcopy may not start, and pbpaste may fail; a    *)
(* poll that fails is one that does not happen.                            *)
(***************************************************************************)
EXTENDS Naturals, Sequences

CONSTANTS
    Texts,         \* what can be copied
    Empty,         \* a clipboard without text
    MaxBackends,   \* bound on connections
    MaxCopies,     \* bound on copies by people
    MaxEvents      \* bound on the events in the queue

VARIABLES
    mac,        \* the pasteboard
    client,     \* the client's clipboard, Empty while there is no client
    copies,     \* copies made by people
    backend,    \* the number of the last backend
    link,       \* "down", "up" (channel not ready), "ready"
    known,      \* per backend, known_clipboard
    stop,       \* per backend, the flag its Drop sets
    poller,     \* per backend, its thread and what it has read
    events,     \* the queue of the server
    fromClient, \* clipboard PDUs of the client
    noting,     \* text given to pbcopy and not yet noted as known
    theirs,     \* the pasteboard has the text this connection's client sent last
    raced,      \* a poll overlapped the last write
    newest,     \* the text both sides are to have in the end; Empty: none
    late        \* per backend, events its thread sent after "stop"

clipVars == <<mac, client, copies, backend, link, known, stop, poller, events, fromClient, noting,
              theirs, raced, newest, late>>

Backends == 1 .. MaxBackends
Contents == Texts \cup {Empty}
Msg(kind, text) == [kind |-> kind, text |-> text]
Msgs == [kind : {"copy", "paste", "list", "request", "data", "error"}, text : Contents]

\* The thread of a connection that has ended sends one more event at most.
TypeOK ==
    /\ mac \in Contents /\ client \in Contents /\ noting \in Contents
    /\ newest \in Contents
    /\ copies \in 0 .. MaxCopies
    /\ backend \in 0 .. MaxBackends
    /\ link \in {"down", "up", "ready"}
    /\ known \in [Backends -> Contents]
    /\ stop \in [Backends -> BOOLEAN]
    /\ poller \in [Backends -> [at : {"none", "sleeping", "compare"}, got : Contents, clean : BOOLEAN]]
    /\ events \in Seq(Msgs) /\ Len(events) <= MaxEvents
    /\ fromClient \in Seq(Msgs)
    /\ theirs \in BOOLEAN /\ raced \in BOOLEAN
    /\ late \in [Backends -> 0 .. 1]

NoPoller == [at |-> "none", got |-> Empty, clean |-> FALSE]

Init ==
    /\ mac \in Contents
    /\ client = Empty
    /\ copies = 0
    /\ backend = 0
    /\ link = "down"
    /\ known = [b \in Backends |-> Empty]
    /\ stop = [b \in Backends |-> FALSE]
    /\ poller = [b \in Backends |-> NoPoller]
    /\ events = <<>> /\ fromClient = <<>>
    /\ noting = Empty
    /\ theirs = FALSE
    /\ raced = FALSE
    /\ newest = Empty
    /\ late = [b \in Backends |-> 0]

Send(m) == events' = Append(events, m)

\* advertise_local_clipboard: what it sends, if there is text and it can be read.
Advertised == {<<>>} \cup (IF mac = Empty THEN {} ELSE {<<Msg("copy", Empty)>>})

\* on_remote_copy: only a format list with text is asked for.
Pull(text) == IF text = Empty THEN <<>> ELSE <<Msg("paste", Empty)>>

-----------------------------------------------------------------------------
(* The life of a backend. *)

\* build_cliprdr_backend, for a client with a clipboard of its own.
Build ==
    /\ link = "down"
    /\ backend < MaxBackends
    /\ backend' = backend + 1
    /\ link' = "up"
    /\ client' \in Contents
    /\ \E text \in {mac, Empty} : known' = [known EXCEPT ![backend'] = text]
    /\ poller' = [poller EXCEPT ![backend'].at = "sleeping"]
    /\ UNCHANGED <<mac, copies, stop, events, fromClient, noting, theirs, raced, newest, late>>

\* The first format list of the client makes the channel ready (on_ready) and
\* then counts as a copy (on_remote_copy).  With text on both sides each is
\* told to take the other's: who wins is not claimed.
OnReady ==
    /\ link = "up"
    /\ Len(events) + 2 <= MaxEvents
    /\ link' = "ready"
    /\ \E copy \in Advertised :
          /\ events' = events \o copy \o Pull(client)
          /\ newest' = CASE mac = Empty -> client
                         [] client = Empty /\ copy # <<>> -> mac
                         [] OTHER -> Empty
    /\ UNCHANGED <<mac, client, copies, backend, known, stop, poller, fromClient, noting, theirs, raced, late>>

\* Mutant: the thread is not told.
DropKeepsPolling ==
    /\ link # "down"
    /\ noting = Empty
    /\ link' = "down"
    /\ fromClient' = <<>> /\ client' = Empty /\ newest' = Empty
    /\ theirs' = FALSE /\ raced' = FALSE
    /\ UNCHANGED <<mac, copies, backend, known, stop, poller, events, noting, late>>

\* The connection ends; what is in the queue stays there.
DropBackend ==
    /\ link # "down"
    /\ noting = Empty
    /\ link' = "down"
    /\ stop' = [stop EXCEPT ![backend] = TRUE]
    /\ fromClient' = <<>> /\ client' = Empty /\ newest' = Empty
    /\ theirs' = FALSE /\ raced' = FALSE
    /\ UNCHANGED <<mac, copies, backend, known, poller, events, noting, late>>

\* run takes and discards what is sent while nobody is connected, until the
\* next client is quicker.
Discard ==
    /\ link = "down"
    /\ events # <<>>
    /\ events' = Tail(events)
    /\ UNCHANGED <<mac, client, copies, backend, link, known, stop, poller, fromClient, noting, theirs,
                   raced, newest, late>>

-----------------------------------------------------------------------------
(* The polling thread: check "stop", sleep, read, compare. *)

PollReads(b) ==
    /\ poller[b].at = "sleeping"
    /\ poller' = [poller EXCEPT ![b] = [at |-> "compare", got |-> mac, clean |-> noting = Empty]]
    /\ UNCHANGED <<mac, client, copies, backend, link, known, stop, events, fromClient, noting, theirs, raced,
                   newest, late>>

Loops(b) == poller' = [poller EXCEPT ![b] = [NoPoller EXCEPT !.at = IF stop[b] THEN "none" ELSE "sleeping"]]

\* Mutant: the thread does not remember what it has told.
PollForgets(b) ==
    /\ poller[b].at = "compare"
    /\ Len(events) < MaxEvents
    /\ IF poller[b].got \notin {known[b], Empty} THEN Send(Msg("copy", Empty)) ELSE UNCHANGED events
    /\ raced' = (theirs /\ (raced \/ (b = backend /\ ~poller[b].clean)))
    /\ Loops(b)
    /\ UNCHANGED <<mac, client, copies, backend, link, known, stop, fromClient, noting, theirs, newest, late>>

PollCompares(b) ==
    /\ poller[b].at = "compare"
    /\ Len(events) < MaxEvents
    /\ IF poller[b].got \notin {known[b], Empty}
       THEN /\ known' = [known EXCEPT ![b] = poller[b].got]
            /\ Send(Msg("copy", Empty))
            /\ late' = [late EXCEPT ![b] = IF stop[b] \/ b # backend THEN @ + 1 ELSE @]
       ELSE UNCHANGED <<known, events, late>>
    /\ raced' = (theirs /\ (raced \/ (b = backend /\ ~poller[b].clean)))
    /\ Loops(b)
    /\ UNCHANGED <<mac, client, copies, backend, link, stop, fromClient, noting, theirs, newest>>

-----------------------------------------------------------------------------
(* The task of the connection: clipboard PDUs of the client, and events. *)

\* on_format_data_response holds the task between the write and the note.
TaskRuns == link = "ready" /\ noting = Empty /\ Len(events) < MaxEvents

Handle(kind) ==
    /\ TaskRuns
    /\ fromClient # <<>> /\ Head(fromClient).kind = kind
    /\ fromClient' = Tail(fromClient)
    /\ UNCHANGED <<client, copies, backend, link, known, stop, late>>

OnRemoteCopy ==
    /\ Handle("list")
    /\ events' = events \o Pull(Head(fromClient).text)
    /\ UNCHANGED <<mac, poller, noting, theirs, raced, newest>>

OnFormatDataRequest ==
    /\ Handle("request")
    /\ \/ Send(Msg("data", mac)) /\ UNCHANGED newest
       \/ Send(Msg("error", Empty)) /\ newest' = Empty
    /\ UNCHANGED <<mac, poller, noting, theirs, raced>>

Overlap == poller' = [b \in Backends |-> [poller[b] EXCEPT !.clean = FALSE]]

\* on_format_data_response: an error or no text is ignored, other text goes
\* to the pasteboard, if pbcopy can be started ...
OnFormatDataResponse ==
    /\ Handle("data")
    /\ UNCHANGED events
    /\ \/ /\ Head(fromClient).text = Empty
          /\ UNCHANGED <<mac, poller, noting, theirs, raced, newest>>
       \/ /\ Head(fromClient).text # Empty
          /\ noting' = Head(fromClient).text
          /\ Overlap
          /\ raced' = FALSE
          /\ \/ mac' = noting' /\ theirs' = TRUE /\ UNCHANGED newest
             \/ theirs' = FALSE /\ newest' = Empty /\ UNCHANGED mac

\* Mutant: nothing is noted.
NotesNothing ==
    /\ noting # Empty
    /\ noting' = Empty
    /\ Overlap
    /\ UNCHANGED <<mac, client, copies, backend, link, known, stop, events, fromClient, theirs, raced, newest,
                   late>>

\* ... and then is noted as known in any case.
NotesKnown ==
    /\ noting # Empty
    /\ known' = [known EXCEPT ![backend] = noting]
    /\ noting' = Empty
    /\ Overlap
    /\ UNCHANGED <<mac, client, copies, backend, link, stop, events, fromClient, theirs, raced, newest, late>>


\* dispatch_server_events, and what the client does with the message.  The
\* channel ignores an event it gets before it is ready.
Dispatch ==
    /\ link # "down" /\ noting = Empty
    /\ events # <<>>
    /\ events' = Tail(events)
    /\ LET e == Head(events) IN
         /\ client' = IF link = "ready" /\ e.kind = "data" THEN e.text ELSE client
         /\ fromClient' = CASE link = "up" \/ e.kind \in {"data", "error"} -> fromClient
                            [] e.kind = "copy" -> Append(fromClient, Msg("request", Empty))
                            [] e.kind = "paste" -> Append(fromClient, Msg("data", client))
    /\ UNCHANGED <<mac, copies, backend, link, known, stop, poller, noting, theirs, raced, newest, late>>

-----------------------------------------------------------------------------
(* People. *)

\* Nothing is under way.  (Who copies something other than text while the
\* channel is being set up, and then again the text that was there before,
\* is not heard: the thread knows that text, and on_ready has told nobody.)
Quiet ==
    /\ link # "up"
    /\ events = <<>> /\ fromClient = <<>> /\ noting = Empty
    /\ \A b \in Backends :
          /\ poller[b].at # "none" => mac \in {known[b], Empty}
          /\ poller[b].at = "compare" => poller[b].got = mac

Copies ==
    /\ Quiet
    /\ copies < MaxCopies
    /\ copies' = copies + 1
    /\ UNCHANGED <<backend, link, known, stop, poller, events, noting, late>>

\* Of a text the thread knows already nothing is claimed: it was told, or the
\* telling failed.
MacCopies ==
    /\ Copies
    /\ mac' \in Contents \ {mac}
    /\ theirs' = FALSE /\ raced' = FALSE
    /\ newest' = IF link = "ready" /\ mac' # known[backend] THEN mac' ELSE Empty
    /\ UNCHANGED <<client, fromClient>>

ClientCopies ==
    /\ link = "ready"
    /\ Copies
    /\ client' \in Contents \ {client}
    /\ fromClient' = <<Msg("list", client')>>
    /\ newest' = client'
    /\ UNCHANGED <<mac, theirs, raced>>

Task == OnRemoteCopy \/ OnFormatDataRequest \/ OnFormatDataResponse \/ Dispatch
Poll(b) == PollReads(b) \/ PollCompares(b)

Next ==
    \/ Build
    \/ OnReady
    \/ DropBackend
    \/ Discard
    \/ \E b \in Backends : Poll(b)
    \/ Task
    \/ NotesKnown
    \/ MacCopies
    \/ ClientCopies

Spec == Init /\ [][Next]_clipVars

\* Threads and the task of the connection run, channels get ready.
Fairness ==
    /\ \A b \in Backends : WF_clipVars(Poll(b))
    /\ WF_clipVars(OnReady)
    /\ WF_clipVars(OnRemoteCopy \/ OnFormatDataRequest \/ OnFormatDataResponse)
    /\ WF_clipVars(Dispatch)
    /\ WF_clipVars(NotesKnown)

FairSpec == Spec /\ Fairness

-----------------------------------------------------------------------------

\* "Suppress the inevitable poll echo" (clipboard.rs:125): the thread of a
\* connection tells the client of its own text only if a poll overlapped the
\* write of that text and the note that it is known.
EchoNeedsRace ==
    [][\A b \in Backends :
          b = backend /\ link = "ready" /\ poller[b].at = "compare" /\ poller'[b].at = "sleeping"
          /\ theirs /\ poller[b].got = mac /\ Len(events') > Len(events)
          => raced']_clipVars

\* "updated when we write to the clipboard ourselves so the poller doesn't
\* echo it back" (clipboard.rs:48-49), and no echo of an echo: once people
\* stop copying, both sides stop talking.
FallsSilent == <>[](link = "down" \/ (events = <<>> /\ fromClient = <<>>))

\* Copying on one side replaces the text of the other, across reconnections
\* and whatever the previous connection left in the queue: what a person has
\* copied last, or the only text there was when the client connected, comes to
\* be on both sides, unless a tool fails on the way.
Converges == <>[](link # "ready" \/ newest = Empty \/ (mac = newest /\ client = newest))

==============================================================================
