----------------------------- MODULE Playground -----------------------------
(***************************************************************************)
(* The chat playground of the web front end                                *)
(* (web/default/src/features/playground): the messages on screen, the      *)
(* server-sent event streams that write into them, and the history of      *)
(* conversations kept in IndexedDB behind a debounced save.                *)
(*                                                                         *)
(* JavaScript runs one callback at a time, so every click, stream event,   *)
(* timer and promise callback is one action, together with the rendering   *)
(* and the effects it causes.  A message's text is the set of requests     *)
(* whose chunks it holds: that is what the properties tell apart.          *)
(***************************************************************************)
EXTENDS Integers, Sequences, SequencesExt

CONSTANTS MAX_SESSIONS,   \* conversations kept in the database
          MaxKeys,        \* bound: requests sent
          MaxIds,         \* bound: conversations started
          MaxOps,         \* bound: database operations under way
          MaxMessages,    \* bound: messages of a conversation
          MaxChanges,     \* bound: messages opened for editing or deleted
          UserWaits       \* the user leaves the controls that are not guarded
                          \* by isGenerating alone while it is shown

ASSUME PlaygroundAssumption ==
    /\ MAX_SESSIONS \in Nat \ {0}
    /\ MaxKeys \in Nat /\ MaxIds \in Nat \ {0} /\ MaxOps \in Nat /\ MaxMessages \in Nat
    /\ MaxChanges \in Nat
    /\ UserWaits \in BOOLEAN

VARIABLES messages,   \* the messages state, in the order shown
          open,       \* the requests whose SSE source still delivers events
          ref,        \* sseSourceRef.current: a request, or 0 for null
          complete,   \* isStreamCompleteRef.current
          shown,      \* isGenerating as the last rendering computed it
          editing,    \* editingMessageKey, or NoEdit
          active,     \* activeSessionId
          sessions,   \* the sessions state: the history list shown
          ready,      \* sessionsReady
          timer,      \* the 250 ms save timer is set
          stored,     \* the database, newest first
          ops,        \* database operations under way, in the order issued
          keys,       \* requests sent so far
          ids,        \* conversations started so far
          odd,        \* history: "quiet", a connection has ended in order without [DONE];
                      \* "refused", an IndexedDB request has failed
          changes     \* messages opened for editing or deleted so far

chat == <<open, ref, complete>>
disk == <<stored, ops>>
vars == <<messages, open, ref, complete, shown, editing, active, sessions,
          ready, timer, stored, ops, keys, ids, odd, changes>>

-----------------------------------------------------------------------------
\* Messages.

Statuses == {"none", "loading", "streaming", "complete", "error"}
Message == [key : 1..MaxKeys, from : {"user", "assistant"},
            status : Statuses, text : SUBSET (1..MaxKeys)]
Session == [id : 1..MaxIds, messages : Seq(Message)]
NoEdit == <<0, "none">>

createUserMessage(k) ==
    [key |-> k, from |-> "user", status |-> "none", text |-> {}]

createLoadingAssistantMessage(k) ==
    [key |-> k, from |-> "assistant", status |-> "loading", text |-> {}]

Name(m) == <<m.key, m.from>>
Unsettled(m) == m.status \in {"loading", "streaming"}

\* updateLastAssistantMessage: the updater reaches the last message, and only
\* if it is an assistant's.
Reaches(ms) == ms # <<>> /\ Last(ms).from = "assistant"
updateLastAssistantMessage(ms, m) ==
    IF Reaches(ms) THEN [ms EXCEPT ![Len(ms)] = m] ELSE ms

\* handleStreamUpdate with a chunk of request k.
WithChunk(ms, k) ==
    IF ~Reaches(ms) \/ Last(ms).status = "error" THEN ms
    ELSE updateLastAssistantMessage(ms,
            [Last(ms) EXCEPT !.status = "streaming", !.text = @ \cup {k}])

\* Variant: only a message that has begun to arrive is completed.
CompletedStreaming(ms) ==
    IF Reaches(ms) /\ Last(ms).status = "streaming"
    THEN updateLastAssistantMessage(ms, [Last(ms) EXCEPT !.status = "complete"])
    ELSE ms

\* handleStreamComplete and the updater of stopGeneration: a message that is
\* already complete or in error keeps its state.
Completed(ms) ==
    IF Reaches(ms) /\ Unsettled(Last(ms))
    THEN updateLastAssistantMessage(ms, [Last(ms) EXCEPT !.status = "complete"])
    ELSE ms

\* updateAssistantMessageWithError: the error takes the place of the text.
Errored(ms) ==
    IF Reaches(ms)
    THEN updateLastAssistantMessage(ms,
            [Last(ms) EXCEPT !.status = "error", !.text = {}])
    ELSE ms

\* Variant: a message that was streaming is taken as stable.
SanitizeLoading(ms) ==
    LET stuck == {i \in DOMAIN ms : ms[i].from = "assistant" /\ ms[i].status = "loading"}
    IN  IF stuck = {} THEN ms
        ELSE LET i == CHOOSE j \in stuck : \A n \in stuck : n <= j
             IN  [ms EXCEPT ![i].status = "error"]

\* sanitizeMessagesOnLoad: the last unsettled assistant message is finalised,
\* as an error when nothing of it had arrived.
sanitizeMessagesOnLoad(ms) ==
    LET stuck == {i \in DOMAIN ms : ms[i].from = "assistant" /\ Unsettled(ms[i])}
    IN  IF stuck = {} THEN ms
        ELSE LET i == CHOOSE j \in stuck : \A n \in stuck : n <= j
             IN  [ms EXCEPT ![i].status =
                     IF ms[i].text = {} THEN "error" ELSE "complete"]

-----------------------------------------------------------------------------
\* A rendering: isGenerating is computed from the ref, and the save effect
\* replaces its timer when messages, the conversation or sessionsReady changed.

Render(ms, r) ==
    /\ messages' = ms
    /\ ref' = r
    /\ shown' = (r # 0)
    /\ timer' = (ready /\ ms # <<>>)

\* An updater that returned its argument unchanged: no rendering.
NoRender(r) == ref' = r /\ UNCHANGED <<messages, shown, timer>>

\* onMessageUpdate, with the ref as the caller leaves it.
Update(ms, r) == IF Reaches(messages) THEN Render(ms, r) ELSE NoRender(r)

-----------------------------------------------------------------------------
\* Streams.

\* sendChat and sendStreamRequest for the messages ms, which end in the loading
\* message of the new request.  The source of an earlier request is not closed;
\* source.stream() may throw.
sendChat(ms) ==
    /\ keys' = keys + 1
    /\ complete' = FALSE
    /\ \/ open' = open \cup {keys + 1} /\ Render(ms, keys + 1)
       \/ UNCHANGED open /\ Render(Errored(ms), 0)

\* A chunk arrives and can be parsed.
Chunk(k) ==
    /\ k \in open
    /\ Update(WithChunk(messages, k), ref)
    /\ UNCHANGED <<open, complete, editing, active, sessions, ready, disk, keys, ids, odd, changes>>

\* Variant: the ref is cleared and the source is left running.
CloseRefOnly(k) == UNCHANGED open

\* closeSource closes the request's own source and clears the ref, whichever
\* source it holds.
closeSource(k) == open' = open \ {k}

\* The server sends [DONE].
Done(k) ==
    /\ k \in open
    /\ complete' = TRUE
    /\ closeSource(k)
    /\ Update(Completed(messages), 0)
    /\ UNCHANGED <<editing, active, sessions, ready, disk, keys, ids, odd, changes>>

\* handleError: nothing happens once a stream is complete.
handleError(k) ==
    /\ ~complete
    /\ closeSource(k)
    /\ Update(Errored(messages), 0)

\* A chunk that is not JSON.
BadChunk(k) ==
    /\ k \in open
    /\ \/ handleError(k)
       \/ complete /\ NoRender(ref) /\ UNCHANGED open
    /\ UNCHANGED <<complete, editing, active, sessions, ready, disk, keys, ids, odd, changes>>

\* The connection fails, or the answer is not 200: an error event, after which
\* the library closes the source.
Break(k) ==
    /\ k \in open
    /\ \/ handleError(k)
       \/ complete /\ NoRender(ref) /\ open' = open \ {k}
    /\ UNCHANGED <<complete, editing, active, sessions, ready, disk, keys, ids, odd, changes>>

\* The connection ends in order without [DONE]: the source is closed and no
\* listener does anything.
EndsQuietly(k) ==
    /\ k \in open
    /\ open' = open \ {k}
    /\ odd' = odd \cup {"quiet"}
    /\ UNCHANGED <<messages, ref, complete, shown, editing, active, sessions, ready,
                   timer, disk, keys, ids, changes>>

\* stopStream: only the source in the ref is closed.
stopStream == open' = open \ {ref}

\* The Stop button, shown while isGenerating.
stopGeneration ==
    /\ shown
    /\ stopStream
    /\ Update(Completed(messages), 0)
    /\ UNCHANGED <<complete, editing, active, sessions, ready, disk, keys, ids, odd, changes>>

-----------------------------------------------------------------------------
\* The user's clicks.  A control without a guard of its own is left alone while
\* isGenerating is shown when UserWaits.

Unguarded == ~(UserWaits /\ shown)
CanSend(n) == keys < MaxKeys /\ n <= MaxMessages

\* handleSendMessage: the input is disabled while isGenerating, the suggestion
\* buttons below it are not.
handleSendMessage ==
    /\ Unguarded
    /\ CanSend(Len(messages) + 2)
    /\ sendChat(messages \o <<createUserMessage(keys + 1),
                              createLoadingAssistantMessage(keys + 1)>>)
    /\ UNCHANGED <<editing, active, sessions, ready, disk, ids, odd, changes>>

\* guardAction of the buttons under a message.
guardAction == ~shown

handleRegenerateMessage(i) ==
    /\ guardAction
    /\ messages[i].from = "assistant" /\ ~Unsettled(messages[i])
    /\ CanSend(i)
    /\ sendChat(SubSeq(messages, 1, i - 1)
                    \o <<createLoadingAssistantMessage(keys + 1)>>)
    /\ UNCHANGED <<editing, active, sessions, ready, disk, ids, odd, changes>>

Change == changes < MaxChanges /\ changes' = changes + 1

\* Edit: there is an editor for every message that has content.
HasContent(m) == m.from = "user" \/ m.text # {} \/ m.status = "error"
handleEditMessage(i) ==
    /\ guardAction
    /\ HasContent(messages[i])
    /\ Change
    /\ editing' = Name(messages[i])
    /\ UNCHANGED <<messages, chat, shown, active, sessions, ready, timer, disk, keys, ids, odd>>

\* applyEdit: Save, and Save & Submit for a user message.  Its buttons are not
\* guarded by isGenerating.
applyEdit(submit) ==
    \E i \in DOMAIN messages :
        /\ Unguarded
        /\ Name(messages[i]) = editing
        /\ editing' = NoEdit
        /\ LET updated == [messages EXCEPT ![i].text = {}]
           IN  \/ /\ submit /\ messages[i].from = "user"
                  /\ CanSend(i + 1)
                  /\ sendChat(SubSeq(updated, 1, i)
                                  \o <<createLoadingAssistantMessage(keys + 1)>>)
               \/ /\ ~submit
                  /\ Render(updated, ref)
                  /\ UNCHANGED <<open, complete, keys>>
        /\ UNCHANGED <<active, sessions, ready, disk, ids, odd, changes>>

handleEditOpenChange ==
    /\ editing # NoEdit
    /\ editing' = NoEdit
    /\ UNCHANGED <<messages, chat, shown, active, sessions, ready, timer, disk, keys, ids, odd,
                   changes>>

handleDeleteMessage(i) ==
    /\ guardAction
    /\ Change
    /\ Render(RemoveAt(messages, i), ref)
    /\ UNCHANGED <<open, complete, editing, active, sessions, ready, disk, keys, ids, odd>>

\* The body of handleNewChat in a rendering where isGenerating was generating.
NewChat(generating) ==
    /\ ids < MaxIds
    /\ IF generating THEN stopStream ELSE UNCHANGED open
    /\ Render(<<>>, IF generating THEN 0 ELSE ref)
    /\ editing' = NoEdit
    /\ ids' = ids + 1
    /\ active' = ids + 1

handleNewChat ==
    /\ NewChat(shown)
    /\ UNCHANGED <<complete, sessions, ready, disk, keys, odd, changes>>

\* Variant: another conversation is shown while the stream goes on.
SelectWhileStreaming(s) ==
    /\ s.id # active
    /\ UNCHANGED open
    /\ Render(s.messages, ref)
    /\ editing' = NoEdit
    /\ active' = s.id
    /\ UNCHANGED <<complete, sessions, ready, disk, keys, ids, odd, changes>>

handleSelectSession(s) ==
    /\ s.id # active
    /\ IF shown THEN stopStream ELSE UNCHANGED open
    /\ Render(s.messages, IF shown THEN 0 ELSE ref)
    /\ editing' = NoEdit
    /\ active' = s.id
    /\ UNCHANGED <<complete, sessions, ready, disk, keys, ids, odd, changes>>

\* handleDeleteSession: the callback keeps the rendering of the click, in which
\* isGenerating was false and the conversation was, or was not, the active one.
handleDeleteSession(s) ==
    /\ guardAction
    /\ Len(ops) < MaxOps
    /\ ops' = Append(ops, [kind |-> "delete", id |-> s.id, messages |-> <<>>,
                           wasActive |-> (s.id = active), stage |-> "asked",
                           found |-> <<>>])
    /\ UNCHANGED <<messages, chat, shown, editing, active, sessions, ready, timer,
                   stored, keys, ids, odd, changes>>

-----------------------------------------------------------------------------
\* The history.

\* The save timer fires with the messages of the last rendering.
SaveTimer ==
    /\ timer
    /\ Len(ops) < MaxOps
    /\ timer' = FALSE
    /\ ops' = Append(ops, [kind |-> "save", id |-> active, messages |-> messages,
                           wasActive |-> FALSE, stage |-> "asked", found |-> <<>>])
    /\ UNCHANGED <<messages, chat, shown, editing, active, sessions, ready, stored,
                   keys, ids, odd, changes>>

\* The conversations of db but those in gone, in the same order.
Without(db, gone) ==
    FoldLeft(LAMBDA kept, s : IF s.id \in gone THEN kept ELSE Append(kept, s), <<>>, db)

\* The readwrite transaction of savePlaygroundSession or deletePlaygroundSession.
\* Each operation opens the database anew; the browser serves them in order.
Write(i) ==
    /\ ops[i].stage = "asked"
    /\ \A j \in 1..(i - 1) : ops[j].stage # "asked"
    /\ ops' = [ops EXCEPT ![i].stage = "written"]
    /\ stored' = (IF ops[i].kind = "save"
                  THEN <<[id |-> ops[i].id, messages |-> ops[i].messages]>>
                  ELSE <<>>) \o Without(stored, {ops[i].id})
    /\ UNCHANGED <<messages, chat, shown, editing, active, sessions, ready, timer,
                   keys, ids, odd, changes>>

\* getAllSessions: what is read is sanitised, and ordered newest first.
getAllSessions(i) ==
    /\ ops[i].stage = "written"
    /\ \A j \in 1..(i - 1) : ops[j].stage = "read"
    /\ ops' = [ops EXCEPT ![i].stage = "read",
                          ![i].found = [j \in DOMAIN stored |->
                              [stored[j] EXCEPT !.messages =
                                  sanitizeMessagesOnLoad(@)]]]
    /\ UNCHANGED <<messages, chat, shown, editing, active, sessions, ready, timer,
                   stored, keys, ids, odd, changes>>

\* Variant: one conversation too many is kept.
EvictedFrom(op) ==
    IF op.kind = "save"
    THEN {op.found[j].id : j \in (MAX_SESSIONS + 2)..Len(op.found)} ELSE {}

\* The end of the oldest operation: a save removes what it read beyond
\* MAX_SESSIONS; the list is shown; the load sets sessionsReady; the deletion of
\* the conversation that was active starts a new one.
Evicted(op) ==
    IF op.kind = "save"
    THEN {op.found[j].id : j \in (MAX_SESSIONS + 1)..Len(op.found)} ELSE {}
Deliver ==
    /\ ops # <<>>
    /\ Head(ops).stage = "read"
    /\ LET op == Head(ops)
       IN  /\ stored' = Without(stored, Evicted(op))
           /\ sessions' = Without(op.found, Evicted(op))
           /\ ready' = TRUE
           /\ IF op.wasActive
              THEN NewChat(FALSE)
              ELSE /\ shown' = (ref # 0)
                   /\ timer' = (timer \/ (~ready /\ messages # <<>>))
                   /\ UNCHANGED <<messages, ref, open, editing, active, ids>>
    /\ ops' = Tail(ops)
    /\ UNCHANGED <<complete, keys, odd, changes>>

\* A transaction of the oldest operation fails: what it wrote before stays, a
\* toast is shown, nothing is delivered, and the load counts as ended.
Refuse ==
    /\ ops # <<>>
    /\ ops' = Tail(ops)
    /\ ready' = TRUE
    /\ shown' = IF ready THEN shown ELSE (ref # 0)
    /\ timer' = (timer \/ (~ready /\ messages # <<>>))
    /\ odd' = odd \cup {"refused"}
    /\ UNCHANGED <<messages, chat, editing, active, sessions, stored, keys, ids, changes>>

-----------------------------------------------------------------------------
\* The page opens on an empty conversation and loads the history.

Init ==
    /\ messages = <<>> /\ open = {} /\ ref = 0 /\ complete = FALSE /\ shown = FALSE
    /\ editing = NoEdit /\ active = 1 /\ ids = 1 /\ keys = 0
    /\ sessions = <<>> /\ ready = FALSE /\ timer = FALSE /\ stored = <<>>
    /\ odd = {} /\ changes = 0
    /\ ops = <<[kind |-> "load", id |-> 1, messages |-> <<>>, wasActive |-> FALSE,
                stage |-> "written", found |-> <<>>]>>

StreamEvent ==
    \E k \in open : Chunk(k) \/ Done(k) \/ BadChunk(k) \/ Break(k) \/ EndsQuietly(k)

Click ==
    \/ handleSendMessage \/ stopGeneration \/ handleNewChat \/ handleEditOpenChange
    \/ \E submit \in BOOLEAN : applyEdit(submit)
    \/ \E i \in DOMAIN messages :
           handleRegenerateMessage(i) \/ handleEditMessage(i) \/ handleDeleteMessage(i)
    \/ \E s \in ToSet(sessions) : handleSelectSession(s) \/ handleDeleteSession(s)

Storage == \/ SaveTimer \/ Deliver \/ Refuse
           \/ \E i \in DOMAIN ops : Write(i) \/ getAllSessions(i)

Next == StreamEvent \/ Click \/ Storage
Spec == Init /\ [][Next]_vars

-----------------------------------------------------------------------------
\* State of the playground.
TypeOK ==
    /\ messages \in Seq(Message) /\ Len(messages) <= MaxMessages
    /\ open \subseteq 1..MaxKeys /\ ref \in 0..MaxKeys
    /\ complete \in BOOLEAN /\ shown \in BOOLEAN /\ ready \in BOOLEAN /\ timer \in BOOLEAN
    /\ editing \in {NoEdit} \cup ((1..MaxKeys) \X {"user", "assistant"})
    /\ active \in 1..MaxIds /\ ids \in 1..MaxIds /\ keys \in 0..MaxKeys
    /\ sessions \in Seq(Session) /\ stored \in Seq(Session)
    /\ Len(sessions) <= Len(stored) + MAX_SESSIONS + MaxOps
    /\ \A i \in DOMAIN ops :
           /\ ops[i].kind \in {"load", "save", "delete"}
           /\ ops[i].stage \in {"asked", "written", "read"}
    /\ odd \subseteq {"quiet", "refused"} /\ changes \in 0..MaxChanges

\* Every message on screen holds only what its own request was answered: no
\* chunk of one reply ends up in another, whichever guarded action, conversation
\* or stop the user chose meanwhile (use-message-action-guard: actions are
\* guarded while generation is in progress).
RepliesTheirOwn ==
    \A i \in DOMAIN messages : messages[i].text \subseteq {messages[i].key}

\* A stream that still delivers can be stopped: it is the one in the ref, and
\* the Stop button is shown.
StreamsAttended == open \subseteq {ref} /\ (open # {} => shown)

\* Nothing in the history list is still loading or streaming
\* (sanitizeMessagesOnLoad).
RestoredSettled ==
    \A s \in ToSet(sessions) : \A m \in ToSet(s.messages) : ~Unsettled(m)

\* Once its operations are done the database keeps no more than MAX_SESSIONS conversations, the
\* history list shows every one of them, as sanitizeMessagesOnLoad leaves it, and, if no save is
\* due either, none is an older version of the conversation on screen: however saves, their
\* evictions and deletions overlap, unless the database has refused a request.
HistoryAgrees ==
    ops = <<>> /\ "refused" \notin odd =>
        /\ Len(stored) <= MAX_SESSIONS
        /\ \A s \in ToSet(stored) :
              /\ [s EXCEPT !.messages = sanitizeMessagesOnLoad(@)] \in ToSet(sessions)
              /\ ready /\ ~timer /\ messages # <<>> /\ s.id = active => s.messages = messages

\* Once no operation is under way and no save is due, the conversation on screen is in the database.
SavedAtRest ==
    ops = <<>> /\ "refused" \notin odd /\ ready /\ ~timer /\ messages # <<>> =>
        [id |-> active, messages |-> messages] \in ToSet(stored)

\* A conversation that is left has been saved, or is being saved, as it was
\* (updateMessages: "Update messages with automatic save").
SavedOnLeave ==
    [][active' # active /\ messages # <<>> =>
          \/ [id |-> active, messages |-> messages] \in ToSet(stored)
          \/ \E i \in DOMAIN ops : ops[i].id = active /\ ops[i].messages = messages]_vars

\* A reply that is still loading or streaming has a stream that will end it, unless a
\* connection has ended without saying so, which nothing listens to: however the stream, Stop,
\* another conversation and the history cross, no reply is left waiting for nothing.
RepliesAwaited ==
    "quiet" \notin odd =>
        \A m \in ToSet(messages) : m.from = "assistant" /\ Unsettled(m) => m.key \in open
=============================================================================
