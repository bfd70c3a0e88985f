-------------------------- MODULE PlaygroundProofs --------------------------
(***************************************************************************)
(* For a user who leaves the unguarded controls alone while isGenerating   *)
(* is shown: at most one stream is live and can be stopped, it writes into *)
(* its own reply, no reply is forgotten, and the history comes to agree    *)
(* with the screen, however many requests, conversations and database      *)
(* operations there are.                                                   *)
(***************************************************************************)
EXTENDS Playground, FiniteSetTheorems, SequenceTheorems, TLAPS

\* The one live source is the one in the ref, and the last rendering saw it:
\* isGenerating is computed while rendering, so it may stay shown after the ref
\* was cleared, never the other way round.
IInv ==
    /\ keys \in Nat
    /\ open \subseteq {ref}
    /\ 0 \notin open
    /\ ref # 0 => shown

\* The initial page has no stream.
LEMMA InitIInv == Init => IInv
  BY DEF Init, IInv

\* A rendering shows the ref it is given; without one, both stay.
LEMMA UpdateShows ==
    ASSUME IInv, NEW ms, NEW r, r = 0 \/ r = ref, Update(ms, r)
    PROVE  /\ ref' = r
           /\ ref' # 0 => shown'
  <1>1. CASE Reaches(messages)
    BY <1>1 DEF Update, Render
  <1>2. CASE ~Reaches(messages)
    BY <1>2 DEF Update, NoRender, IInv
  <1> QED BY <1>1, <1>2

\* A request is sent only when no source is live, so its source is the only one.
LEMMA SendKeeps ==
    ASSUME IInv, ~shown, NEW ms, sendChat(ms)
    PROVE  IInv'
  <1>1. ref = 0 /\ open = {} BY DEF IInv
  <1>2. keys' = keys + 1 /\ keys' \in Nat /\ keys + 1 # 0
    BY DEF IInv, sendChat
  <1>3. CASE open' = open \cup {keys + 1} /\ Render(ms, keys + 1)
    BY <1>1, <1>2, <1>3 DEF IInv, Render
  <1>4. CASE open' = open /\ Render(Errored(ms), 0)
    BY <1>1, <1>2, <1>4 DEF IInv, Render
  <1> QED BY <1>3, <1>4 DEF sendChat

\* Whatever a stream delivers, it is the stream in the ref: closing it empties
\* both.
LEMMA StreamKeeps ==
    ASSUME IInv, NEW k \in open,
           Chunk(k) \/ Done(k) \/ BadChunk(k) \/ Break(k) \/ EndsQuietly(k)
    PROVE  IInv'
  <1>k. open = {k} /\ ref = k /\ k # 0 /\ shown BY DEF IInv
  <1>1. CASE Chunk(k)
    <2>1. ref' = ref /\ (ref' # 0 => shown')
      BY <1>1, UpdateShows DEF Chunk
    <2> QED BY <2>1, <1>1 DEF Chunk, IInv
  <1>2. CASE Done(k)
    <2>1. ref' = 0 /\ (ref' # 0 => shown')
      BY <1>2, UpdateShows DEF Done
    <2>2. open' = {} BY <1>2, <1>k DEF Done, closeSource
    <2> QED BY <2>1, <2>2, <1>2 DEF Done, IInv
  <1>3. ASSUME handleError(k), keys' = keys PROVE IInv'
    <2>1. ref' = 0 /\ (ref' # 0 => shown')
      BY <1>3, UpdateShows DEF handleError
    <2>2. open' = {} BY <1>3, <1>k DEF handleError, closeSource
    <2> QED BY <2>1, <2>2, <1>3 DEF IInv
  <1>4. CASE BadChunk(k)
    <2>1. keys' = keys BY <1>4 DEF BadChunk
    <2>2. CASE handleError(k) BY <2>1, <2>2, <1>3
    <2>3. CASE NoRender(ref) /\ UNCHANGED open
      BY <2>1, <2>3 DEF NoRender, IInv
    <2> QED BY <1>4, <2>2, <2>3 DEF BadChunk
  <1>5. CASE Break(k)
    <2>1. keys' = keys BY <1>5 DEF Break
    <2>2. CASE handleError(k) BY <2>1, <2>2, <1>3
    <2>3. CASE NoRender(ref) /\ open' = open \ {k}
      BY <2>1, <2>3 DEF NoRender, IInv
    <2> QED BY <1>5, <2>2, <2>3 DEF Break
  <1>6. CASE EndsQuietly(k)
    BY <1>6 DEF EndsQuietly, IInv
  <1> QED BY <1>1, <1>2, <1>4, <1>5, <1>6

\* Leaving a conversation stops the stream when the rendering shows one; the
\* callback of a deletion, which does not, leaves it in the ref and on screen.
LEMMA LeaveKeeps ==
    ASSUME IInv, NEW g \in BOOLEAN, g => g = shown, NEW ms,
           IF g THEN stopStream ELSE UNCHANGED open,
           Render(ms, IF g THEN 0 ELSE ref), keys' = keys
    PROVE  IInv'
  <1>1. CASE g
    BY <1>1 DEF IInv, stopStream, Render
  <1>2. CASE ~g
    BY <1>2 DEF IInv, Render
  <1> QED BY <1>1, <1>2

\* The clicks.
LEMMA ClickKeeps ==
    ASSUME IInv, UserWaits, shown \in BOOLEAN, Click
    PROVE  IInv'
  <1>1. CASE handleSendMessage
    BY <1>1, SendKeeps DEF handleSendMessage, Unguarded
  <1>2. CASE stopGeneration
    <2>1. ref' = 0 /\ (ref' # 0 => shown')
      BY <1>2, UpdateShows DEF stopGeneration
    <2>2. open' = {} BY <1>2 DEF stopGeneration, stopStream, IInv
    <2> QED BY <2>1, <2>2, <1>2 DEF stopGeneration, IInv
  <1>3. CASE handleNewChat
    BY <1>3, LeaveKeeps DEF handleNewChat, NewChat
  <1>4. CASE handleEditOpenChange
    BY <1>4 DEF handleEditOpenChange, chat, IInv
  <1>5. ASSUME NEW submit \in BOOLEAN, applyEdit(submit) PROVE IInv'
    <2>1. ~shown BY <1>5 DEF applyEdit, Unguarded
    <2>2. (\E ms : sendChat(ms)) \/ (\E ms : Render(ms, ref) /\ UNCHANGED <<open, complete, keys>>)
      BY <1>5 DEF applyEdit
    <2>3. ASSUME NEW ms, Render(ms, ref), UNCHANGED <<open, complete, keys>> PROVE IInv'
      BY <2>3 DEF Render, IInv
    <2> QED BY <2>1, <2>2, <2>3, SendKeeps
  <1>6. ASSUME NEW i \in DOMAIN messages,
               \/ handleRegenerateMessage(i)
               \/ handleEditMessage(i)
               \/ handleDeleteMessage(i)
        PROVE  IInv'
    <2>1. CASE handleRegenerateMessage(i)
      BY <2>1, SendKeeps DEF handleRegenerateMessage, guardAction
    <2>2. CASE handleEditMessage(i)
      BY <2>2 DEF handleEditMessage, chat, IInv
    <2>3. CASE handleDeleteMessage(i)
      BY <2>3 DEF handleDeleteMessage, Render, IInv
    <2> QED BY <1>6, <2>1, <2>2, <2>3
  <1>7. ASSUME NEW s, handleSelectSession(s) \/ handleDeleteSession(s)
        PROVE  IInv'
    <2>1. CASE handleSelectSession(s)
      BY <2>1, LeaveKeeps DEF handleSelectSession
    <2>2. CASE handleDeleteSession(s)
      BY <2>2 DEF handleDeleteSession, chat, IInv
    <2> QED BY <1>7, <2>1, <2>2
  <1> QED BY <1>1, <1>2, <1>3, <1>4, <1>5, <1>6, <1>7 DEF Click

\* The timer and the database.
LEMMA StorageKeeps ==
    ASSUME IInv, Storage
    PROVE  IInv'
  <1>1. CASE SaveTimer BY <1>1 DEF SaveTimer, chat, IInv
  <1>2. CASE Deliver
    <2>1. keys' = keys BY <1>2 DEF Deliver
    <2>2. CASE NewChat(FALSE)
      BY <2>1, <2>2, LeaveKeeps DEF NewChat
    <2>3. CASE shown' = (ref # 0) /\ UNCHANGED <<messages, ref, open, editing, active, ids>>
      BY <2>1, <2>3 DEF IInv
    <2> QED BY <1>2, <2>2, <2>3 DEF Deliver
  <1>3. CASE Refuse
    BY <1>3 DEF Refuse, chat, IInv
  <1>4. ASSUME NEW i \in DOMAIN ops, Write(i) \/ getAllSessions(i) PROVE IInv'
    BY <1>4 DEF Write, getAllSessions, chat, IInv
  <1> QED BY <1>1, <1>2, <1>3, <1>4 DEF Storage

\* What isGenerating is rendered as is a truth value.
LEMMA ShownTyped ==
    ASSUME shown \in BOOLEAN, [Next]_vars
    PROVE  shown' \in BOOLEAN
  <1>1. ASSUME NEW ms, NEW r, Render(ms, r) PROVE shown' \in BOOLEAN
    BY <1>1 DEF Render
  <1>2. ASSUME NEW ms, NEW r, Update(ms, r) PROVE shown' \in BOOLEAN
    BY <1>2 DEF Update, Render, NoRender
  <1>3. ASSUME NEW ms, sendChat(ms) PROVE shown' \in BOOLEAN
    BY <1>1, <1>3 DEF sendChat
  <1>4. CASE StreamEvent
    <2>1. PICK k \in open : Chunk(k) \/ Done(k) \/ BadChunk(k) \/ Break(k) \/ EndsQuietly(k)
      BY <1>4 DEF StreamEvent
    <2> QED BY <2>1, <1>2 DEF Chunk, Done, BadChunk, Break, EndsQuietly, handleError, NoRender
  <1>5. CASE Click
    <2>1. CASE handleSendMessage BY <2>1, <1>3 DEF handleSendMessage
    <2>2. CASE stopGeneration BY <2>2, <1>2 DEF stopGeneration
    <2>3. CASE handleNewChat BY <2>3, <1>1 DEF handleNewChat, NewChat
    <2>4. CASE handleEditOpenChange BY <2>4 DEF handleEditOpenChange
    <2>5. ASSUME NEW submit, applyEdit(submit) PROVE shown' \in BOOLEAN
      BY <2>5, <1>1, <1>3 DEF applyEdit
    <2>6. ASSUME NEW i, handleRegenerateMessage(i) \/ handleEditMessage(i) \/ handleDeleteMessage(i)
          PROVE  shown' \in BOOLEAN
      BY <2>6, <1>1, <1>3 DEF handleRegenerateMessage, handleEditMessage, handleDeleteMessage
    <2>7. ASSUME NEW s, handleSelectSession(s) \/ handleDeleteSession(s)
          PROVE  shown' \in BOOLEAN
      BY <2>7, <1>1 DEF handleSelectSession, handleDeleteSession
    <2> QED BY <1>5, <2>1, <2>2, <2>3, <2>4, <2>5, <2>6, <2>7 DEF Click
  <1>6. CASE Storage
    <2>1. CASE SaveTimer BY <2>1 DEF SaveTimer
    <2>2. CASE Deliver
      <3>1. NewChat(FALSE) \/ shown' = (ref # 0) BY <2>2 DEF Deliver
      <3> QED BY <3>1, <1>1 DEF NewChat
    <2>3. CASE Refuse BY <2>3 DEF Refuse
    <2>4. ASSUME NEW i, Write(i) \/ getAllSessions(i) PROVE shown' \in BOOLEAN
      BY <2>4 DEF Write, getAllSessions
    <2> QED BY <1>6, <2>1, <2>2, <2>3, <2>4 DEF Storage
  <1>7. CASE UNCHANGED vars BY <1>7 DEF vars
  <1> QED BY <1>4, <1>5, <1>6, <1>7 DEF Next

\* Every step keeps the invariant.
LEMMA NextIInv ==
    ASSUME IInv, UserWaits, shown \in BOOLEAN, [Next]_vars
    PROVE  IInv'
  <1>1. CASE StreamEvent BY <1>1, StreamKeeps DEF StreamEvent
  <1>2. CASE Click BY <1>2, ClickKeeps
  <1>3. CASE Storage BY <1>3, StorageKeeps
  <1>4. CASE UNCHANGED vars BY <1>4 DEF vars, IInv
  <1> QED BY <1>1, <1>2, <1>3, <1>4 DEF Next

\* A stream that still delivers is the one the Stop button closes, and the
\* button is shown, as long as the user leaves the suggestions and the editor's
\* buttons alone meanwhile (useStreamRequest, useChatHandler, index.tsx).
THEOREM StreamsCanBeStopped ==
    ASSUME UserWaits
    PROVE  Spec => []StreamsAttended
  <1>1. Init => IInv /\ shown \in BOOLEAN BY InitIInv DEF Init
  <1>2. (IInv /\ shown \in BOOLEAN) /\ [Next]_vars => (IInv /\ shown \in BOOLEAN)'
    BY NextIInv, ShownTyped
  <1>3. IInv => StreamsAttended BY DEF IInv, StreamsAttended
  <1> QED BY <1>1, <1>2, <1>3, PTL DEF Spec

-----------------------------------------------------------------------------
\* The conversations, on screen, in the database, and in between.

\* A message that holds nothing but its own answer; only replies are waited for.
OwnMessage ==
    { m \in Message : m.text \subseteq {m.key} /\ (Unsettled(m) => m.from = "assistant") }

\* Only the last message may be waited for, and then it is the reply to request r.
Fits(ms, r) ==
    /\ ms \in Seq(OwnMessage)
    /\ \A i \in DOMAIN ms : Unsettled(ms[i]) => i = Len(ms) /\ ms[i].key = r

\* What a save writes, and what a load shows: at most one reply is waited for, or none.
Chat == { ms \in Seq(OwnMessage) :
            \A i, j \in DOMAIN ms : Unsettled(ms[i]) /\ Unsettled(ms[j]) => i = j }
Rest == { ms \in Seq(OwnMessage) : Fits(ms, 0) }
StoredSession == [id : 1..MaxIds, messages : Chat]
ShownSession == [id : 1..MaxIds, messages : Rest]
Op == [kind : {"load", "save", "delete"}, id : 1..MaxIds, messages : Chat, wasActive : BOOLEAN,
       stage : {"asked", "written", "read"}, found : Seq(ShownSession)]

\* The stream that is open writes into its own reply, or finds no conversation to write into.
Writes(ms, k) == Reaches(ms) => Last(ms).key = k

\* The conversation on screen and the stream that writes into it.  A reply that is waited for is
\* that of the ref, whose source is open unless a connection ended without saying so.
ScreenInv ==
    /\ complete \in BOOLEAN
    /\ keys \in 0..MaxKeys /\ open \subseteq 1..MaxKeys
    /\ open # {} => ~complete
    /\ Fits(messages, ref)
    /\ \A k \in open : Writes(messages, k)
    /\ "quiet" \notin odd /\ ref # 0 => ref \in open

\* The history: in the database, on its way there and back, and in the list.
HistoryInv ==
    /\ active \in 1..MaxIds /\ ids \in 1..MaxIds
    /\ sessions \in Seq(ShownSession) /\ stored \in Seq(StoredSession) /\ ops \in Seq(Op)

CInv == IInv /\ shown \in BOOLEAN /\ ScreenInv /\ HistoryInv

\* Induction on the subsets of a finite set: a family of them that is not empty has a member
\* from which no element can be taken without leaving the family.
LEMMA Smallest ==
    ASSUME NEW S, IsFiniteSet(S), NEW Bad \in SUBSET (SUBSET S), Bad # {}
    PROVE  \E T \in Bad : \A x \in T : T \ {x} \notin Bad
  <1>1. FiniteSubsetsOf(S) = SUBSET S
    BY FS_Subset DEF FiniteSubsetsOf
  <1>2. IsWellFoundedOn(StrictSubsetOrdering(S), SUBSET S)
    BY <1>1, FS_StrictSubsetOrderingWellFounded
  <1>3. PICK T \in Bad : \A U \in Bad : ~(<<U, T>> \in StrictSubsetOrdering(S))
    BY <1>2, WFMin
  <1>4. ASSUME NEW x \in T, T \ {x} \in Bad PROVE FALSE
    <2>1. <<T \ {x}, T>> \in StrictSubsetOrdering(S)
      BY <1>4 DEF StrictSubsetOrdering
    <2> QED BY <1>3, <1>4, <2>1
  <1> QED BY <1>4

\* A finite set of numbers that is not empty has a greatest one.
LEMMA Greatest ==
    ASSUME NEW S, IsFiniteSet(S), S \subseteq Nat, S # {}
    PROVE  Max(S) \in S /\ \A x \in S : Max(S) >= x
  <1> DEFINE Bad == { T \in SUBSET S : T # {} /\ ~ \E a \in T : \A x \in T : a >= x }
  <1>1. Bad = {}
    <2> SUFFICES ASSUME Bad # {} PROVE FALSE OBVIOUS
    <2>1. PICK T \in Bad : \A x \in T : T \ {x} \notin Bad BY Smallest
    <2>2. PICK b \in T : TRUE OBVIOUS
    <2>3. b \in Nat /\ b >= b OBVIOUS
    <2>4. CASE T = {b} BY <2>1, <2>3, <2>4
    <2>5. CASE T # {b}
      <3>1. T \ {b} \in SUBSET S /\ T \ {b} # {} /\ T \ {b} \notin Bad BY <2>1, <2>2, <2>5
      <3>2. PICK a \in T \ {b} : \A x \in T \ {b} : a >= x BY <3>1
      <3>3. a \in Nat OBVIOUS
      <3>4. CASE a >= b BY <2>1, <3>2, <3>4
      <3>5. CASE ~(a >= b)
        <4>1. \A x \in T : b >= x BY <2>3, <3>2, <3>3, <3>5
        <4> QED BY <2>1, <2>2, <4>1
      <3> QED BY <3>4, <3>5
    <2> QED BY <2>4, <2>5
  <1>2. S \in SUBSET S OBVIOUS
  <1>3. \E a \in S : \A x \in S : a >= x BY <1>1, <1>2
  <1> QED BY <1>3 DEF Max

\* The conversations of db among those with an index in V, but those in gone: the last of them
\* comes after the others.
Steps(f, db, gone, V) ==
    IF V = {} THEN <<>>
    ELSE IF db[Max(V)].id \in gone THEN f[V \ {Max(V)}]
    ELSE Append(f[V \ {Max(V)}], db[Max(V)])

\* The fold of the library is a function on the sets of indices.
LEMMA FoldIs ==
    ASSUME NEW db, NEW gone
    PROVE  Without(db, gone) =
             (CHOOSE f : f = [V \in SUBSET DOMAIN db |-> Steps(f, db, gone, V)])[DOMAIN db]
  BY DEF Without, FoldLeft, MapThenFoldSet, Steps

\* There is such a function.
LEMMA FoldExists ==
    ASSUME NEW S, IsFiniteSet(S), S \subseteq Nat, NEW db, NEW gone
    PROVE  \E f : f = [V \in SUBSET S |-> Steps(f, db, gone, V)]
  <1> DEFINE Bad == { T \in SUBSET S : ~ \E f : f = [V \in SUBSET T |-> Steps(f, db, gone, V)] }
  <1>1. SUFFICES ASSUME Bad # {} PROVE FALSE
    OBVIOUS
  <1>2. PICK T \in Bad : \A x \in T : T \ {x} \notin Bad
    BY <1>1, Smallest
  <1>3. CASE T = {}
    <2> DEFINE f == [V \in SUBSET T |-> <<>>]
    <2>1. f = [V \in SUBSET T |-> Steps(f, db, gone, V)] BY <1>3 DEF Steps
    <2> QED BY <2>1
  <1>4. CASE T # {}
    <2> DEFINE a == Max(T)
    <2>1. IsFiniteSet(T) BY FS_Subset
    <2>2. a \in T /\ \A x \in T : a >= x BY <1>4, <2>1, Greatest
    <2>3. PICK h : h = [V \in SUBSET (T \ {a}) |-> Steps(h, db, gone, V)] BY <1>2, <2>2
    <2> DEFINE f == [V \in SUBSET T |-> IF a \in V THEN Steps(h, db, gone, V) ELSE h[V]]
    <2>4. ASSUME NEW V \in SUBSET T PROVE f[V] = Steps(f, db, gone, V)
      <3>1. CASE a \in V
        <4>1. IsFiniteSet(V) /\ V # {} /\ V \subseteq Nat BY <2>1, <3>1, FS_Subset
        <4>2. Max(V) \in V /\ \A x \in V : Max(V) >= x BY <4>1, Greatest
        <4>3. Max(V) = a
          <5>1. Max(V) \in Nat /\ a \in Nat BY <2>2, <4>2
          <5>2. Max(V) >= a /\ a >= Max(V) BY <2>2, <3>1, <4>2
          <5> QED BY <5>1, <5>2
        <4>4. f[V] = Steps(h, db, gone, V) BY <3>1
        <4>5. V \ {a} \in SUBSET T /\ a \notin V \ {a} OBVIOUS
        <4>6. f[V \ {a}] = h[V \ {a}] BY <4>5
        <4> HIDE DEF a, f
        <4> QED BY <4>3, <4>4, <4>6 DEF Steps
      <3>2. CASE a \notin V
        <4>1. V \in SUBSET (T \ {a}) BY <3>2
        <4>2. f[V] = h[V] BY <3>2
        <4>3. h[V] = Steps(h, db, gone, V) BY <2>3, <4>1
        <4>4. CASE V = {} BY <4>2, <4>3, <4>4 DEF Steps
        <4>5. CASE V # {}
          <5>1. V \ {Max(V)} \in SUBSET T /\ a \notin V \ {Max(V)} BY <3>2
          <5>2. f[V \ {Max(V)}] = h[V \ {Max(V)}] BY <5>1
          <5> HIDE DEF f
          <5> QED BY <4>2, <4>3, <5>2 DEF Steps
        <4> QED BY <4>4, <4>5
      <3> QED BY <3>1, <3>2
    <2>5. f = [V \in SUBSET T |-> Steps(f, db, gone, V)]
      <3>1. f = [V \in SUBSET T |-> f[V]] OBVIOUS
      <3> HIDE DEF f
      <3> QED BY <2>4, <3>1
    <2> HIDE DEF f
    <2> QED BY <2>5
  <1> QED BY <1>3, <1>4

\* What is left of a list of conversations are conversations of the list, and none that is gone.
LEMMA WithoutIs ==
    ASSUME NEW X, NEW db \in Seq(X), NEW gone
    PROVE  Without(db, gone) \in Seq({ s \in X : s.id \notin gone })
  <1> DEFINE S == DOMAIN db
             Y == { s \in X : s.id \notin gone }
             f == CHOOSE g : g = [V \in SUBSET S |-> Steps(g, db, gone, V)]
  <1>1. S = 1..Len(db) /\ Len(db) \in Nat OBVIOUS
  <1>2. IsFiniteSet(S) /\ S \subseteq Nat BY <1>1, FS_Interval
  <1>3. f = [V \in SUBSET S |-> Steps(f, db, gone, V)] BY <1>2, FoldExists
  <1>4. Without(db, gone) = f[S] BY FoldIs
  <1> HIDE DEF f, S
  <1> DEFINE Bad == { V \in SUBSET S : f[V] \notin Seq(Y) }
  <1>5. Bad = {}
    <2> SUFFICES ASSUME Bad # {} PROVE FALSE OBVIOUS
    <2>1. PICK V \in Bad : \A x \in V : V \ {x} \notin Bad BY <1>2, Smallest
    <2>2. f[V] = Steps(f, db, gone, V) BY <1>3
    <2>3. CASE V = {}
      <3>1. f[V] = <<>> BY <2>2, <2>3 DEF Steps
      <3>2. f[V] \notin Seq(Y) BY <2>1
      <3> HIDE DEF Y
      <3>3. <<>> \in Seq(Y) OBVIOUS
      <3> QED BY <3>1, <3>2, <3>3
    <2>4. CASE V # {}
      <3> DEFINE a == Max(V)
      <3>1. IsFiniteSet(V) /\ V \subseteq Nat BY <1>2, FS_Subset
      <3>2. a \in V BY <2>4, <3>1, Greatest
      <3>3. V \ {a} \in SUBSET S /\ V \ {a} \notin Bad BY <2>1, <3>2
      <3>4. f[V \ {a}] \in Seq(Y) BY <3>3
      <3>5. db[a] \in X BY <1>1, <3>2 DEF S
      <3>6. f[V] = IF db[a].id \in gone THEN f[V \ {a}] ELSE Append(f[V \ {a}], db[a])
        BY <2>2, <2>4 DEF Steps
      <3> HIDE DEF a
      <3>7. CASE db[a].id \in gone BY <2>1, <3>4, <3>6, <3>7
      <3>8. CASE db[a].id \notin gone
        <4>1. db[a] \in Y BY <3>5, <3>8
        <4> HIDE DEF Y
        <4>2. Append(f[V \ {a}], db[a]) \in Seq(Y) BY <3>4, <4>1
        <4> QED BY <2>1, <3>6, <3>8, <4>2
      <3> QED BY <3>7, <3>8
    <2> QED BY <2>3, <2>4
  <1>6. S \in SUBSET S OBVIOUS
  <1>7. f[S] \in Seq(Y) BY <1>5, <1>6
  <1> QED BY <1>4, <1>7

-----------------------------------------------------------------------------
\* What the updaters make of a conversation.

\* The last message of a conversation that is not empty.
LEMMA LastIs ==
    ASSUME NEW X, NEW ms \in Seq(X), ms # <<>>
    PROVE  Len(ms) \in DOMAIN ms /\ Len(ms) \in Nat \ {0} /\ Last(ms) = ms[Len(ms)] /\ Last(ms) \in X
  BY EmptySeq DEF Last

\* An updater leaves the length, and all the messages but the last.
LEMMA ReplaceLast ==
    ASSUME NEW X, NEW ms \in Seq(X), Reaches(ms), NEW m \in X
    PROVE  LET new == updateLastAssistantMessage(ms, m)
           IN  /\ new \in Seq(X) /\ Len(new) = Len(ms) /\ DOMAIN new = DOMAIN ms
               /\ new # <<>> /\ Last(new) = m
               /\ \A i \in DOMAIN ms : new[i] = IF i = Len(ms) THEN m ELSE ms[i]
  <1> DEFINE new == updateLastAssistantMessage(ms, m)
  <1>1. ms # <<>> /\ new = [ms EXCEPT ![Len(ms)] = m] BY DEF Reaches, updateLastAssistantMessage
  <1>2. Len(ms) \in DOMAIN ms /\ Len(ms) \in Nat \ {0} /\ DOMAIN ms = 1..Len(ms) BY <1>1, LastIs
  <1>3. new \in Seq(X) /\ Len(new) = Len(ms) /\ DOMAIN new = DOMAIN ms BY <1>1, <1>2
  <1>4. \A i \in DOMAIN ms : new[i] = IF i = Len(ms) THEN m ELSE ms[i] BY <1>1, <1>2
  <1>5. new[Len(new)] = m BY <1>2, <1>3, <1>4
  <1> HIDE DEF new
  <1>6. new # <<>> BY <1>2, <1>3
  <1> QED BY <1>3, <1>4, <1>5, <1>6 DEF new, Last

\* The fields of a message that is its own.
LEMMA OwnFields ==
    ASSUME NEW m \in OwnMessage
    PROVE  /\ m.key \in 1..MaxKeys /\ m.from \in {"user", "assistant"} /\ m.status \in Statuses
           /\ m.text \in SUBSET (1..MaxKeys) /\ m.text \subseteq {m.key}
           /\ Unsettled(m) => m.from = "assistant"
  BY DEF OwnMessage, Message

\* A message whose status and text are replaced.
Changed(m, st, t) == [m EXCEPT !.status = st, !.text = t]
LEMMA OwnChanged ==
    ASSUME NEW m \in OwnMessage, m.from = "assistant", NEW st \in Statuses, NEW t \in SUBSET {m.key}
    PROVE  /\ Changed(m, st, t) \in OwnMessage
           /\ Changed(m, st, t).key = m.key /\ Changed(m, st, t).status = st
  <1> DEFINE n == Changed(m, st, t)
  <1>1. m \in Message /\ m.key \in 1..MaxKeys BY OwnFields DEF OwnMessage
  <1>2. n.key = m.key /\ n.from = m.from /\ n.status = st /\ n.text = t BY <1>1 DEF Message, Changed
  <1>3. t \in SUBSET (1..MaxKeys) BY <1>1
  <1>4. n \in Message BY <1>1, <1>3 DEF Message, Changed
  <1> QED BY <1>2, <1>4 DEF OwnMessage

LEMMA OwnStatus ==
    ASSUME NEW m \in OwnMessage, m.from = "assistant", NEW st \in Statuses
    PROVE  LET n == [m EXCEPT !.status = st]
           IN  n \in OwnMessage /\ n.key = m.key /\ n.from = m.from /\ n.status = st /\ n.text = m.text
  <1> DEFINE n == [m EXCEPT !.status = st]
  <1>1. m \in Message /\ m.text \subseteq {m.key} BY OwnFields DEF OwnMessage
  <1>2. n.key = m.key /\ n.from = m.from /\ n.status = st /\ n.text = m.text BY <1>1 DEF Message
  <1>4. n \in Message BY <1>1 DEF Message
  <1> QED BY <1>1, <1>2, <1>4 DEF OwnMessage

\* A conversation whose last message is replaced by one that is settled, or waited for as before.
LEMMA ReplaceFits ==
    ASSUME NEW ms, NEW r, NEW q, Fits(ms, r), Reaches(ms), NEW m \in OwnMessage,
           Unsettled(m) => m.key = q
    PROVE  Fits(updateLastAssistantMessage(ms, m), q)
  <1> DEFINE new == updateLastAssistantMessage(ms, m)
  <1>1. ms \in Seq(OwnMessage) BY DEF Fits
  <1>2. /\ new \in Seq(OwnMessage) /\ Len(new) = Len(ms) /\ DOMAIN new = DOMAIN ms
        /\ \A i \in DOMAIN ms : new[i] = IF i = Len(ms) THEN m ELSE ms[i]
    BY <1>1, ReplaceLast
  <1> HIDE DEF new
  <1>3. ASSUME NEW i \in DOMAIN new, Unsettled(new[i]) PROVE i = Len(new) /\ new[i].key = q
    <2>1. CASE i = Len(ms) BY <1>2, <1>3, <2>1
    <2>2. CASE i # Len(ms)
      <3>1. Unsettled(ms[i]) /\ i \in DOMAIN ms BY <1>2, <1>3, <2>2
      <3> QED BY <2>2, <3>1 DEF Fits
    <2> QED BY <2>1, <2>2
  <1>4. Fits(new, q) BY <1>2, <1>3 DEF Fits
  <1> QED BY <1>4 DEF new

\* A chunk is added to the reply of its own request.
LEMMA ChunkFits ==
    ASSUME NEW ms, NEW k, Fits(ms, k), Writes(ms, k)
    PROVE  Fits(WithChunk(ms, k), k) /\ Writes(WithChunk(ms, k), k)
  <1>1. CASE ~Reaches(ms) \/ Last(ms).status = "error" BY <1>1 DEF WithChunk
  <1>2. CASE Reaches(ms) /\ Last(ms).status # "error"
    <2> DEFINE m == Last(ms)
               n == Changed(m, "streaming", m.text \cup {k})
    <2>1. ms \in Seq(OwnMessage) /\ ms # <<>> /\ m.from = "assistant" BY <1>2 DEF Fits, Reaches
    <2>2. m \in OwnMessage BY <2>1, LastIs
    <2>3. m.key = k BY <1>2 DEF Writes
    <2>4. m.text \cup {k} \in SUBSET {m.key} BY <2>2, <2>3, OwnFields
    <2>5. "streaming" \in Statuses BY DEF Statuses
    <2>6. n \in OwnMessage /\ n.key = k BY <2>1, <2>2, <2>3, <2>4, <2>5, OwnChanged
    <2>7. WithChunk(ms, k) = updateLastAssistantMessage(ms, n) BY <1>2 DEF WithChunk, Changed
    <2> HIDE DEF n, m
    <2>8. Fits(WithChunk(ms, k), k) BY <1>2, <2>6, <2>7, ReplaceFits
    <2>9. Last(WithChunk(ms, k)) = n BY <1>2, <2>1, <2>6, <2>7, ReplaceLast
    <2> QED BY <2>6, <2>8, <2>9 DEF Writes
  <1> QED BY <1>1, <1>2

\* Where no updater reaches, nothing is waited for.
LEMMA NotReached ==
    ASSUME NEW ms, NEW r, Fits(ms, r), ~Reaches(ms)
    PROVE  Fits(ms, 0)
  <1>1. ms \in Seq(OwnMessage) BY DEF Fits
  <1>2. ASSUME NEW i \in DOMAIN ms, Unsettled(ms[i]) PROVE FALSE
    <2>1. i = Len(ms) BY <1>2 DEF Fits
    <2>2. ms # <<>> BY <1>1
    <2>3. ms[i] \in OwnMessage BY <1>1
    <2>4. ms[i].from = "assistant" BY <1>2, <2>3, OwnFields
    <2> QED BY <2>1, <2>2, <2>4 DEF Reaches, Last
  <1> QED BY <1>1, <1>2 DEF Fits

\* An updater that ends the reply leaves nothing to wait for.
LEMMA CompletedFits ==
    ASSUME NEW ms, NEW r, Fits(ms, r)
    PROVE  Fits(Completed(ms), 0)
  <1>1. ms \in Seq(OwnMessage) BY DEF Fits
  <1>2. CASE Reaches(ms) /\ Unsettled(Last(ms))
    <2> DEFINE m == Last(ms)
               n == [m EXCEPT !.status = "complete"]
    <2>1. m \in OwnMessage /\ m.from = "assistant" BY <1>1, <1>2, LastIs DEF Reaches
    <2>2. "complete" \in Statuses BY DEF Statuses
    <2>3. n \in OwnMessage /\ ~Unsettled(n) BY <2>1, <2>2, OwnStatus DEF Unsettled
    <2>4. Completed(ms) = updateLastAssistantMessage(ms, n) BY <1>2 DEF Completed
    <2> HIDE DEF n
    <2> QED BY <1>2, <2>3, <2>4, ReplaceFits
  <1>3. CASE Reaches(ms) /\ ~Unsettled(Last(ms))
    <2>1. Completed(ms) = ms BY <1>3 DEF Completed
    <2>2. \A i \in DOMAIN ms : ~Unsettled(ms[i]) BY <1>3 DEF Fits, Last
    <2> QED BY <1>1, <2>1, <2>2 DEF Fits
  <1>4. CASE ~Reaches(ms) BY <1>4, NotReached DEF Completed
  <1> QED BY <1>2, <1>3, <1>4

LEMMA ErroredFits ==
    ASSUME NEW ms, NEW r, Fits(ms, r)
    PROVE  Fits(Errored(ms), 0)
  <1>1. ms \in Seq(OwnMessage) BY DEF Fits
  <1>2. CASE Reaches(ms)
    <2> DEFINE m == Last(ms)
               n == Changed(m, "error", {})
    <2>1. m \in OwnMessage /\ m.from = "assistant" BY <1>1, <1>2, LastIs DEF Reaches
    <2>2. "error" \in Statuses BY DEF Statuses
    <2>3. n \in OwnMessage /\ ~Unsettled(n) BY <2>1, <2>2, OwnChanged DEF Unsettled
    <2>4. Errored(ms) = updateLastAssistantMessage(ms, n) BY <1>2 DEF Errored, Changed
    <2> HIDE DEF n
    <2> QED BY <1>2, <2>3, <2>4, ReplaceFits
  <1>3. CASE ~Reaches(ms) BY <1>3, NotReached DEF Errored
  <1> QED BY <1>2, <1>3

\* A conversation at rest that is sent with the loading message of request k.
LEMMA SendFits ==
    ASSUME NEW ms, NEW k \in 1..MaxKeys, Fits(ms, 0)
    PROVE  LET new == ms \o <<createLoadingAssistantMessage(k)>>
           IN  Fits(new, k) /\ Writes(new, k)
  <1> DEFINE m == createLoadingAssistantMessage(k)
             new == ms \o <<m>>
  <1>1. ms \in Seq(OwnMessage) /\ Len(ms) \in Nat BY DEF Fits
  <1>2. m \in OwnMessage /\ m.key = k BY DEF createLoadingAssistantMessage, OwnMessage, Message, Statuses
  <1> HIDE DEF m
  <1>3. /\ new \in Seq(OwnMessage) /\ Len(new) = Len(ms) + 1
        /\ \A i \in 1..Len(ms) : new[i] = ms[i]
        /\ new[Len(ms) + 1] = m
    BY <1>1, <1>2
  <1> HIDE DEF new
  <1>4. DOMAIN new = 1..(Len(ms) + 1) BY <1>1, <1>3
  <1>5. ASSUME NEW i \in DOMAIN new, Unsettled(new[i]) PROVE i = Len(new) /\ new[i].key = k
    <2>1. CASE i \in 1..Len(ms)
      <3>1. Unsettled(ms[i]) /\ i \in DOMAIN ms /\ ms[i] \in OwnMessage BY <1>1, <1>3, <1>5, <2>1
      <3>2. ms[i].key = 0 BY <3>1 DEF Fits
      <3>3. ms[i].key \in 1..MaxKeys BY <3>1, OwnFields
      <3>4. 0 \notin 1..MaxKeys OBVIOUS
      <3> QED BY <3>2, <3>3, <3>4
    <2>2. CASE i = Len(ms) + 1 BY <1>2, <1>3, <2>2
    <2> QED BY <1>1, <1>4, <2>1, <2>2
  <1>6. Fits(new, k) BY <1>3, <1>5 DEF Fits
  <1>7. Last(new).key = k BY <1>2, <1>3 DEF Last
  <1> QED BY <1>6, <1>7 DEF Writes, new, m

\* Nothing is waited for in a conversation at rest.
LEMMA AtRest ==
    ASSUME NEW ms, Fits(ms, 0)
    PROVE  ms \in Seq(OwnMessage) /\ \A i \in DOMAIN ms : ~Unsettled(ms[i])
  <1>1. ms \in Seq(OwnMessage) BY DEF Fits
  <1>2. ASSUME NEW i \in DOMAIN ms, Unsettled(ms[i]) PROVE FALSE
    <2>1. ms[i].key = 0 BY <1>2 DEF Fits
    <2>2. ms[i] \in OwnMessage BY <1>1
    <2>3. ms[i].key \in 1..MaxKeys BY <2>2, OwnFields
    <2>4. 0 \notin 1..MaxKeys OBVIOUS
    <2> QED BY <2>1, <2>3, <2>4
  <1> QED BY <1>1, <1>2

\* A sequence of messages that are settled is at rest.
LEMMA RestFits ==
    ASSUME NEW ms \in Seq(OwnMessage), \A i \in DOMAIN ms : ~Unsettled(ms[i]), NEW r
    PROVE  Fits(ms, r)
  BY DEF Fits

LEMMA AddUser ==
    ASSUME NEW ms, NEW k \in 1..MaxKeys, Fits(ms, 0)
    PROVE  Fits(ms \o <<createUserMessage(k)>>, 0)
  <1> DEFINE m == createUserMessage(k)
             new == ms \o <<m>>
  <1>1. ms \in Seq(OwnMessage) /\ Len(ms) \in Nat /\ \A i \in DOMAIN ms : ~Unsettled(ms[i]) BY AtRest
  <1>2. m \in OwnMessage /\ ~Unsettled(m)
    BY DEF createUserMessage, OwnMessage, Message, Statuses, Unsettled
  <1> HIDE DEF m
  <1>3. /\ new \in Seq(OwnMessage) /\ Len(new) = Len(ms) + 1
        /\ \A i \in 1..Len(ms) : new[i] = ms[i]
        /\ new[Len(ms) + 1] = m
    BY <1>1, <1>2
  <1> HIDE DEF new
  <1>4. DOMAIN new = 1..(Len(ms) + 1) BY <1>1, <1>3
  <1>5. \A i \in DOMAIN new : ~Unsettled(new[i]) BY <1>1, <1>2, <1>3, <1>4
  <1>6. Fits(new, 0) BY <1>3, <1>5, RestFits
  <1> QED BY <1>6 DEF new, m

\* The beginning of a conversation at rest.
LEMMA PrefixFits ==
    ASSUME NEW ms, Fits(ms, 0), NEW i \in DOMAIN ms, NEW j \in {i - 1, i}
    PROVE  Fits(SubSeq(ms, 1, j), 0)
  <1> DEFINE new == SubSeq(ms, 1, j)
  <1>1. ms \in Seq(OwnMessage) /\ Len(ms) \in Nat /\ \A n \in DOMAIN ms : ~Unsettled(ms[n]) BY AtRest
  <1>2. i \in 1..Len(ms) BY <1>1
  <1>3. j \in 0..Len(ms) BY <1>2
  <1>4. new \in Seq(OwnMessage) /\ Len(new) = j /\ \A n \in 1..j : new[n] = ms[n] BY <1>1, <1>3
  <1> HIDE DEF new
  <1>5. \A n \in DOMAIN new : ~Unsettled(new[n]) BY <1>1, <1>3, <1>4
  <1>6. Fits(new, 0) BY <1>4, <1>5, RestFits
  <1> QED BY <1>6 DEF new

\* A message whose text is replaced by the user's.
LEMMA EditFits ==
    ASSUME NEW ms, Fits(ms, 0), NEW i \in DOMAIN ms
    PROVE  /\ Fits([ms EXCEPT ![i].text = {}], 0)
           /\ DOMAIN [ms EXCEPT ![i].text = {}] = DOMAIN ms
  <1> DEFINE m == [ms[i] EXCEPT !.text = {}]
             new == [ms EXCEPT ![i] = m]
  <1>1. ms \in Seq(OwnMessage) /\ Len(ms) \in Nat /\ \A n \in DOMAIN ms : ~Unsettled(ms[n]) BY AtRest
  <1>2. ms[i] \in OwnMessage /\ ~Unsettled(ms[i]) BY <1>1
  <1>3. ms[i] \in Message BY <1>2 DEF OwnMessage
  <1>4. m.status = ms[i].status /\ m.text = {} BY <1>3 DEF Message
  <1>5. m \in Message BY <1>3 DEF Message
  <1>6. ~Unsettled(m) BY <1>2, <1>4 DEF Unsettled
  <1>7. m \in OwnMessage BY <1>4, <1>5, <1>6 DEF OwnMessage
  <1>8. [ms EXCEPT ![i].text = {}] = new OBVIOUS
  <1> HIDE DEF m
  <1>9. /\ new \in Seq(OwnMessage) /\ DOMAIN new = DOMAIN ms
        /\ \A n \in DOMAIN ms : new[n] = IF n = i THEN m ELSE ms[n]
    BY <1>1, <1>7
  <1> HIDE DEF new
  <1>10. \A n \in DOMAIN new : ~Unsettled(new[n]) BY <1>1, <1>6, <1>9
  <1>11. Fits(new, 0) BY <1>9, <1>10, RestFits
  <1> QED BY <1>8, <1>9, <1>11

\* A conversation at rest without one of its messages.
LEMMA RemoveFits ==
    ASSUME NEW ms, Fits(ms, 0), NEW i \in DOMAIN ms
    PROVE  Fits(RemoveAt(ms, i), 0)
  <1> DEFINE a == SubSeq(ms, 1, i - 1)
             b == SubSeq(ms, i + 1, Len(ms))
             new == RemoveAt(ms, i)
  <1>1. ms \in Seq(OwnMessage) /\ Len(ms) \in Nat /\ \A n \in DOMAIN ms : ~Unsettled(ms[n]) BY AtRest
  <1>2. i \in 1..Len(ms) /\ i \in Nat BY <1>1
  <1>3. Fits(a, 0) BY PrefixFits
  <1>4. a \in Seq(OwnMessage) /\ Len(a) \in Nat /\ \A n \in DOMAIN a : ~Unsettled(a[n]) BY <1>3, AtRest
  <1>5. /\ b \in Seq(OwnMessage) /\ Len(b) = Len(ms) - i
        /\ \A n \in 1..(Len(ms) - i) : b[n] = ms[n + i]
    BY <1>1, <1>2
  <1>6. new = a \o b BY DEF RemoveAt
  <1> HIDE DEF a, b, new
  <1>7. ASSUME NEW n \in DOMAIN b PROVE ~Unsettled(b[n])
    <2>1. n \in 1..(Len(ms) - i) BY <1>5
    <2>2. n + i \in DOMAIN ms BY <1>1, <1>2, <2>1
    <2> QED BY <1>1, <1>5, <2>1, <2>2
  <1>8. a \in Seq(OwnMessage) /\ b \in Seq(OwnMessage) BY <1>4, <1>5
  <1>9. /\ new \in Seq(OwnMessage) /\ Len(new) = Len(a) + Len(b)
        /\ \A n \in 1..(Len(a) + Len(b)) : new[n] = IF n <= Len(a) THEN a[n] ELSE b[n - Len(a)]
    BY <1>6, <1>8, ConcatProperties
  <1>10. ASSUME NEW n \in DOMAIN new PROVE ~Unsettled(new[n])
    <2>1. Len(a) \in Nat /\ Len(b) \in Nat /\ n \in 1..(Len(a) + Len(b)) BY <1>4, <1>8, <1>9
    <2>2. CASE n <= Len(a)
      <3>1. n \in DOMAIN a BY <1>4, <2>1, <2>2
      <3> QED BY <1>4, <1>9, <2>1, <2>2, <3>1
    <2>3. CASE ~(n <= Len(a))
      <3>1. n - Len(a) \in DOMAIN b BY <1>8, <2>1, <2>3
      <3> QED BY <1>7, <1>9, <2>1, <2>3, <3>1
    <2> QED BY <2>2, <2>3
  <1>11. Fits(new, 0) BY <1>9, <1>10, RestFits
  <1> QED BY <1>11 DEF new

\* A conversation on screen can be saved.
LEMMA FitsChat ==
    ASSUME NEW ms, NEW r, Fits(ms, r)
    PROVE  ms \in Chat
  <1>1. ms \in Seq(OwnMessage) BY DEF Fits
  <1>2. \A i, j \in DOMAIN ms : Unsettled(ms[i]) /\ Unsettled(ms[j]) => i = j BY DEF Fits
  <1> QED BY <1>1, <1>2 DEF Chat

\* What is loaded is at rest, even if the page was closed while a reply arrived.
LEMMA SanitizedRests ==
    ASSUME NEW ms \in Chat
    PROVE  sanitizeMessagesOnLoad(ms) \in Rest
  <1> DEFINE stuck == {i \in DOMAIN ms : ms[i].from = "assistant" /\ Unsettled(ms[i])}
             i == CHOOSE j \in stuck : \A n \in stuck : n <= j
             st == IF ms[i].text = {} THEN "error" ELSE "complete"
             m == [ms[i] EXCEPT !.status = st]
             new == [ms EXCEPT ![i] = m]
  <1>1. ms \in Seq(OwnMessage) /\ DOMAIN ms = 1..Len(ms) /\ Len(ms) \in Nat BY DEF Chat
  <1>2. \A n \in DOMAIN ms : Unsettled(ms[n]) => n \in stuck
    <2>1. SUFFICES ASSUME NEW n \in DOMAIN ms, Unsettled(ms[n]) PROVE ms[n].from = "assistant"
      OBVIOUS
    <2>2. ms[n] \in OwnMessage BY <1>1
    <2> QED BY <2>1, <2>2, OwnFields
  <1>3. CASE stuck = {}
    <2>1. Fits(ms, 0) BY <1>1, <1>2, <1>3, RestFits
    <2>2. sanitizeMessagesOnLoad(ms) = ms BY <1>3 DEF sanitizeMessagesOnLoad
    <2> QED BY <1>1, <2>1, <2>2 DEF Rest
  <1>4. CASE stuck # {}
    <2>1. PICK x \in stuck : TRUE BY <1>4
    <2>2. \A n \in stuck : n = x BY <2>1 DEF Chat
    <2>3. x \in Nat /\ x <= x BY <1>1, <2>1
    <2>4. i \in stuck BY <2>2, <2>3
    <2>5. i = x BY <2>2, <2>4
    <2>6. sanitizeMessagesOnLoad(ms) = new BY <1>4 DEF sanitizeMessagesOnLoad
    <2>7. ms[i] \in OwnMessage /\ ms[i].from = "assistant" /\ i \in DOMAIN ms BY <1>1, <2>4
    <2>8. st \in Statuses /\ st \notin {"loading", "streaming"} BY DEF Statuses
    <2> HIDE DEF st, i
    <2>9. m \in OwnMessage /\ ~Unsettled(m) BY <2>7, <2>8, OwnStatus DEF Unsettled
    <2> HIDE DEF m
    <2>10. /\ new \in Seq(OwnMessage) /\ DOMAIN new = DOMAIN ms
           /\ \A n \in DOMAIN ms : new[n] = IF n = i THEN m ELSE ms[n]
      BY <1>1, <2>7, <2>9
    <2>11. \A n \in DOMAIN new : ~Unsettled(new[n])
      <3> HIDE DEF new
      <3> QED BY <1>2, <2>2, <2>5, <2>9, <2>10
    <2>12. Fits(new, 0) BY <2>10, <2>11, RestFits
    <2> QED BY <2>6, <2>10, <2>12 DEF Rest
  <1> QED BY <1>3, <1>4

-----------------------------------------------------------------------------
\* The screen.

LEMMA EmptyFits ==
    ASSUME NEW r
    PROVE  Fits(<<>>, r) /\ ~Reaches(<<>>)
  BY DEF Fits, Reaches

\* While isGenerating is not shown there is no stream, and nothing is waited for.
LEMMA ScreenRests ==
    ASSUME IInv, ScreenInv, ~shown
    PROVE  ref = 0 /\ open = {} /\ Fits(messages, 0)
  BY DEF IInv, ScreenInv

\* A conversation at rest, shown without a stream.
LEMMA RestScreen ==
    ASSUME ScreenInv, open' = {}, ref' = 0, Fits(messages', 0), complete' \in BOOLEAN,
           keys' \in 0..MaxKeys
    PROVE  ScreenInv'
  BY DEF ScreenInv

LEMMA SendScreen ==
    ASSUME IInv, ScreenInv, ~shown, keys < MaxKeys, NEW ms, Fits(ms, 0),
           sendChat(ms \o <<createLoadingAssistantMessage(keys + 1)>>)
    PROVE  ScreenInv'
  <1> DEFINE k == keys + 1
             new == ms \o <<createLoadingAssistantMessage(k)>>
  <1>1. ref = 0 /\ open = {} BY ScreenRests
  <1>2. k \in 1..MaxKeys /\ k \in 0..MaxKeys /\ keys' = k /\ complete' = FALSE
    BY PlaygroundAssumption DEF ScreenInv, sendChat
  <1>3. Fits(new, k) /\ Writes(new, k) BY <1>2, SendFits
  <1>4. CASE open' = open \cup {k} /\ Render(new, k)
    <2>1. open' = {k} /\ ref' = k /\ messages' = new BY <1>1, <1>4 DEF Render
    <2> HIDE DEF k, new
    <2> QED BY <1>2, <1>3, <2>1 DEF ScreenInv
  <1>5. CASE open' = open /\ Render(Errored(new), 0)
    <2>1. open' = {} /\ ref' = 0 /\ messages' = Errored(new) BY <1>1, <1>5 DEF Render
    <2> HIDE DEF k, new
    <2>2. Fits(messages', 0) BY <1>3, <2>1, ErroredFits
    <2> QED BY <1>2, <2>1, <2>2, RestScreen
  <1> QED BY <1>4, <1>5 DEF sendChat

\* The end of the stream settles what was waited for.
LEMMA EndScreen ==
    ASSUME ScreenInv, NEW ms, Fits(ms, 0), Update(ms, 0), open' = {}, complete' \in BOOLEAN,
           keys' = keys
    PROVE  ScreenInv'
  <1>1. Fits(messages, ref) /\ keys' \in 0..MaxKeys BY DEF ScreenInv
  <1>2. CASE Reaches(messages)
    <2>1. messages' = ms /\ ref' = 0 BY <1>2 DEF Update, Render
    <2> QED BY <1>1, <2>1, RestScreen
  <1>3. CASE ~Reaches(messages)
    <2>1. messages' = messages /\ ref' = 0 BY <1>3 DEF Update, NoRender
    <2>2. Fits(messages, 0) BY <1>1, <1>3, NotReached
    <2> QED BY <1>1, <2>1, <2>2, RestScreen
  <1> QED BY <1>2, <1>3

LEMMA StreamScreen ==
    ASSUME IInv, ScreenInv, NEW k \in open,
           Chunk(k) \/ Done(k) \/ BadChunk(k) \/ Break(k) \/ EndsQuietly(k)
    PROVE  ScreenInv'
  <1>k. open = {k} /\ ref = k /\ ~complete /\ complete \in BOOLEAN /\ Fits(messages, k)
        /\ Writes(messages, k)
    BY DEF IInv, ScreenInv
  <1>1. CASE Chunk(k)
    <2>1. UNCHANGED <<open, complete, keys, odd>> /\ Update(WithChunk(messages, k), ref)
      BY <1>1 DEF Chunk
    <2>2. ref' = ref /\ messages' \in {messages, WithChunk(messages, k)}
      BY <2>1 DEF Update, Render, NoRender
    <2>3. Fits(messages', k) /\ Writes(messages', k) BY <1>k, <2>2, ChunkFits
    <2> QED BY <1>k, <2>1, <2>2, <2>3 DEF ScreenInv
  <1>2. CASE Done(k)
    <2>1. open' = {} /\ complete' = TRUE /\ keys' = keys /\ Update(Completed(messages), 0)
      BY <1>2, <1>k DEF Done, closeSource
    <2>2. Fits(Completed(messages), 0) BY <1>k, CompletedFits
    <2> QED BY <2>1, <2>2, EndScreen
  <1>3. CASE BadChunk(k) \/ Break(k)
    <2>1. handleError(k) /\ UNCHANGED <<complete, keys>> BY <1>3, <1>k DEF BadChunk, Break
    <2>2. open' = {} /\ Update(Errored(messages), 0) BY <2>1, <1>k DEF handleError, closeSource
    <2>3. Fits(Errored(messages), 0) BY <1>k, ErroredFits
    <2> QED BY <1>k, <2>1, <2>2, <2>3, EndScreen
  <1>4. CASE EndsQuietly(k)
    <2>1. open' = {} /\ odd' = odd \cup {"quiet"} /\ UNCHANGED <<messages, ref, complete, keys>>
      BY <1>4, <1>k DEF EndsQuietly
    <2> QED BY <1>k, <2>1 DEF ScreenInv
  <1> QED BY <1>1, <1>2, <1>3, <1>4

\* What is on screen may change otherwise only to a conversation at rest, or to none.
LEMMA ClickScreen ==
    ASSUME IInv, ScreenInv, HistoryInv, UserWaits, shown \in BOOLEAN, Click
    PROVE  ScreenInv'
  <1>t. complete \in BOOLEAN /\ keys \in 0..MaxKeys /\ Fits(messages, ref) BY DEF ScreenInv
  <1>1. CASE handleSendMessage
    <2> DEFINE u == createUserMessage(keys + 1)
               l == createLoadingAssistantMessage(keys + 1)
    <2>1. ~shown /\ keys < MaxKeys /\ sendChat(messages \o <<u, l>>)
      BY <1>1 DEF handleSendMessage, Unguarded, CanSend
    <2>2. Fits(messages, 0) BY <2>1, ScreenRests
    <2>3. keys + 1 \in 1..MaxKeys BY <1>t, <2>1, PlaygroundAssumption
    <2>4. Fits(messages \o <<u>>, 0) BY <2>2, <2>3, AddUser
    <2>5. messages \o <<u, l>> = (messages \o <<u>>) \o <<l>>
      <3>1. messages \in Seq(OwnMessage) BY <2>2 DEF Fits
      <3>2. u \in OwnMessage /\ l \in OwnMessage
        BY <2>3 DEF createUserMessage, createLoadingAssistantMessage, OwnMessage, Message, Statuses,
                    Unsettled
      <3> HIDE DEF u, l
      <3>3. <<u>> \in Seq(OwnMessage) /\ <<l>> \in Seq(OwnMessage) BY <3>2
      <3>4. <<u>> \o <<l>> = Append(<<u>>, l) BY <3>2, <3>3, AppendIsConcat
      <3>5. <<u, l>> = Append(<<u>>, l) BY <3>2
      <3>6. \A p, q \in Seq(OwnMessage) : messages \o (p \o q) = (messages \o p) \o q
        BY <3>1, ConcatAssociative
      <3>7. messages \o (<<u>> \o <<l>>) = (messages \o <<u>>) \o <<l>> BY <3>3, <3>6
      <3>8. <<u, l>> = <<u>> \o <<l>> BY <3>4, <3>5
      <3> QED BY <3>7, <3>8, Zenon
    <2> QED BY <2>1, <2>4, <2>5, SendScreen
  <1>2. CASE stopGeneration
    <2>1. open' = {} /\ UNCHANGED <<complete, keys>> /\ Update(Completed(messages), 0)
      BY <1>2 DEF stopGeneration, stopStream, IInv
    <2>2. Fits(Completed(messages), 0) BY <1>t, CompletedFits
    <2> QED BY <1>t, <2>1, <2>2, EndScreen
  <1>3. ASSUME NEW ms, Fits(ms, 0), UNCHANGED <<complete, keys>>,
               IF shown THEN stopStream ELSE UNCHANGED open, Render(ms, IF shown THEN 0 ELSE ref)
        PROVE  ScreenInv'
    <2>1. open' = {} /\ ref' = 0 /\ messages' = ms
      <3>1. CASE shown BY <1>3, <3>1 DEF stopStream, Render, IInv
      <3>2. CASE ~shown BY <1>3, <3>2, ScreenRests DEF Render
      <3> QED BY <3>1, <3>2
    <2> QED BY <1>t, <1>3, <2>1, RestScreen
  <1>4. CASE handleNewChat BY <1>3, <1>4, EmptyFits DEF handleNewChat, NewChat
  <1>5. CASE handleEditOpenChange BY <1>5 DEF handleEditOpenChange, chat, ScreenInv
  <1>6. ASSUME NEW submit \in BOOLEAN, applyEdit(submit) PROVE ScreenInv'
    <2>1. PICK i \in DOMAIN messages :
             /\ Unguarded
             /\ LET updated == [messages EXCEPT ![i].text = {}]
                IN  \/ /\ CanSend(i + 1)
                       /\ sendChat(SubSeq(updated, 1, i)
                                       \o <<createLoadingAssistantMessage(keys + 1)>>)
                    \/ /\ Render(updated, ref)
                       /\ UNCHANGED <<open, complete, keys>>
      BY <1>6 DEF applyEdit
    <2> DEFINE updated == [messages EXCEPT ![i].text = {}]
    <2>2. ~shown BY <2>1 DEF Unguarded
    <2>3. ref = 0 /\ open = {} /\ Fits(messages, 0) BY <2>2, ScreenRests
    <2>4. Fits(updated, 0) /\ i \in DOMAIN updated BY <2>3, EditFits
    <2>5. CASE keys < MaxKeys /\ sendChat(SubSeq(updated, 1, i)
                                              \o <<createLoadingAssistantMessage(keys + 1)>>)
      <3> HIDE DEF updated
      <3>1. Fits(SubSeq(updated, 1, i), 0) BY <2>4, PrefixFits
      <3> QED BY <2>2, <2>5, <3>1, SendScreen
    <2>6. CASE Render(updated, ref) /\ UNCHANGED <<open, complete, keys>>
      <3> HIDE DEF updated
      <3>1. open' = {} /\ ref' = 0 /\ messages' = updated BY <2>3, <2>6 DEF Render
      <3> QED BY <1>t, <2>4, <2>6, <3>1, RestScreen
    <2> QED BY <2>1, <2>5, <2>6 DEF CanSend
  <1>7. ASSUME NEW i \in DOMAIN messages, handleRegenerateMessage(i) PROVE ScreenInv'
    <2>1. /\ ~shown /\ keys < MaxKeys
          /\ sendChat(SubSeq(messages, 1, i - 1) \o <<createLoadingAssistantMessage(keys + 1)>>)
      BY <1>7 DEF handleRegenerateMessage, guardAction, CanSend
    <2>2. Fits(messages, 0) BY <2>1, ScreenRests
    <2>3. Fits(SubSeq(messages, 1, i - 1), 0) BY <2>2, PrefixFits
    <2> QED BY <2>1, <2>3, SendScreen
  <1>8. ASSUME NEW i \in DOMAIN messages, handleEditMessage(i) PROVE ScreenInv'
    BY <1>8 DEF handleEditMessage, chat, ScreenInv
  <1>9. ASSUME NEW i \in DOMAIN messages, handleDeleteMessage(i) PROVE ScreenInv'
    <2>1. ~shown /\ Render(RemoveAt(messages, i), ref) /\ UNCHANGED <<open, complete, keys>>
      BY <1>9 DEF handleDeleteMessage, guardAction
    <2>2. ref = 0 /\ open = {} /\ Fits(messages, 0) BY <2>1, ScreenRests
    <2>3. Fits(RemoveAt(messages, i), 0) BY <2>2, RemoveFits
    <2>4. open' = {} /\ ref' = 0 /\ messages' = RemoveAt(messages, i) BY <2>1, <2>2 DEF Render
    <2> QED BY <1>t, <2>1, <2>3, <2>4, RestScreen
  <1>10. ASSUME NEW s \in ToSet(sessions), handleSelectSession(s) PROVE ScreenInv'
    <2>1. s \in ShownSession BY DEF ToSet, HistoryInv
    <2>2. Fits(s.messages, 0) BY <2>1 DEF ShownSession, Rest
    <2> QED BY <1>3, <1>10, <2>2 DEF handleSelectSession
  <1>11. ASSUME NEW s \in ToSet(sessions), handleDeleteSession(s) PROVE ScreenInv'
    BY <1>11 DEF handleDeleteSession, chat, ScreenInv
  <1> QED BY <1>1, <1>2, <1>4, <1>5, <1>6, <1>7, <1>8, <1>9, <1>10, <1>11 DEF Click

LEMMA StorageScreen ==
    ASSUME ScreenInv, Storage
    PROVE  ScreenInv'
  <1>1. CASE SaveTimer BY <1>1 DEF SaveTimer, chat, ScreenInv
  <1>2. CASE Deliver
    <2>1. UNCHANGED <<complete, keys, odd>> BY <1>2 DEF Deliver
    <2>2. CASE NewChat(FALSE)
      <3>1. UNCHANGED <<open, ref>> /\ messages' = <<>> BY <2>2 DEF NewChat, Render
      <3>2. Fits(messages', ref') /\ \A k \in open' : Writes(messages', k)
        BY <3>1, EmptyFits DEF Writes
      <3> QED BY <2>1, <3>1, <3>2 DEF ScreenInv
    <2>3. CASE UNCHANGED <<messages, ref, open>> BY <2>1, <2>3 DEF ScreenInv
    <2> QED BY <1>2, <2>2, <2>3 DEF Deliver
  <1>3. CASE Refuse BY <1>3 DEF Refuse, chat, ScreenInv
  <1>4. ASSUME NEW i \in DOMAIN ops, Write(i) \/ getAllSessions(i) PROVE ScreenInv'
    BY <1>4 DEF Write, getAllSessions, chat, ScreenInv
  <1> QED BY <1>1, <1>2, <1>3, <1>4 DEF Storage

-----------------------------------------------------------------------------
\* The history.

\* An operation as its callbacks see it: it moves on, and holds what it has read.
Asked(kind, id, ms, was) ==
    [kind |-> kind, id |-> id, messages |-> ms, wasActive |-> was, stage |-> "asked", found |-> <<>>]
Found(op, list) == [op EXCEPT !.stage = "read", !.found = list]

LEMMA OpTyped ==
    /\ \A kind \in {"load", "save", "delete"}, id \in 1..MaxIds, ms \in Chat, was \in BOOLEAN :
          Asked(kind, id, ms, was) \in Op
    /\ \A op \in Op : [op EXCEPT !.stage = "written"] \in Op
    /\ \A op \in Op, list \in Seq(ShownSession) : Found(op, list) \in Op
  <1>1. <<>> \in Seq(ShownSession) OBVIOUS
  <1>2. ASSUME NEW kind \in {"load", "save", "delete"}, NEW id \in 1..MaxIds, NEW ms \in Chat,
               NEW was \in BOOLEAN
        PROVE  Asked(kind, id, ms, was) \in Op
    BY <1>1 DEF Asked, Op
  <1>3. ASSUME NEW op \in Op PROVE [op EXCEPT !.stage = "written"] \in Op BY DEF Op
  <1>4. ASSUME NEW op \in Op, NEW list \in Seq(ShownSession) PROVE Found(op, list) \in Op
    BY DEF Found, Op
  <1> QED BY <1>2, <1>3, <1>4

\* A list of conversations without some of them.
LEMMA WithoutTyped ==
    ASSUME NEW X, NEW db \in Seq(X), NEW gone
    PROVE  Without(db, gone) \in Seq(X)
  <1> DEFINE Y == { s \in X : s.id \notin gone }
             w == Without(db, gone)
  <1>1. w \in Seq(Y) /\ Y \subseteq X BY WithoutIs
  <1> HIDE DEF w, Y
  <1>2. Len(w) \in Nat /\ \A n \in 1..Len(w) : w[n] \in X BY <1>1
  <1>3. w = [n \in 1..Len(w) |-> w[n]] BY <1>1
  <1>4. w \in Seq(X) BY <1>2, <1>3
  <1> QED BY <1>4 DEF w

\* What a load reads is at rest.
LEMMA ReadTyped ==
    ASSUME NEW db \in Seq(StoredSession)
    PROVE  [j \in DOMAIN db |-> [db[j] EXCEPT !.messages = sanitizeMessagesOnLoad(@)]]
              \in Seq(ShownSession)
  <1> DEFINE e(j) == [db[j] EXCEPT !.messages = sanitizeMessagesOnLoad(db[j].messages)]
  <1>1. DOMAIN db = 1..Len(db) /\ Len(db) \in Nat OBVIOUS
  <1>2. ASSUME NEW j \in 1..Len(db) PROVE e(j) \in ShownSession
    <2>1. db[j] \in StoredSession OBVIOUS
    <2>2. sanitizeMessagesOnLoad(db[j].messages) \in Rest BY <2>1, SanitizedRests DEF StoredSession
    <2> QED BY <2>1, <2>2 DEF StoredSession, ShownSession
  <1> HIDE DEF e
  <1>3. [j \in 1..Len(db) |-> e(j)] \in Seq(ShownSession) BY <1>1, <1>2
  <1> QED BY <1>1, <1>3 DEF e

LEMMA StreamHistory ==
    ASSUME HistoryInv, NEW k \in open,
           Chunk(k) \/ Done(k) \/ BadChunk(k) \/ Break(k) \/ EndsQuietly(k)
    PROVE  HistoryInv'
  BY DEF Chunk, Done, BadChunk, Break, EndsQuietly, disk, HistoryInv

LEMMA ClickHistory ==
    ASSUME HistoryInv, shown \in BOOLEAN, Click
    PROVE  HistoryInv'
  <1>1. CASE handleSendMessage BY <1>1 DEF handleSendMessage, disk, HistoryInv
  <1>2. CASE stopGeneration BY <1>2 DEF stopGeneration, disk, HistoryInv
  <1>3. CASE handleNewChat
    <2>1. /\ ids < MaxIds /\ ids' = ids + 1 /\ active' = ids + 1
          /\ UNCHANGED <<sessions, stored, ops>>
      BY <1>3 DEF handleNewChat, NewChat, disk
    <2>2. ids + 1 \in 1..MaxIds BY <2>1, PlaygroundAssumption DEF HistoryInv
    <2> QED BY <2>1, <2>2 DEF HistoryInv
  <1>4. CASE handleEditOpenChange BY <1>4 DEF handleEditOpenChange, disk, HistoryInv
  <1>5. ASSUME NEW submit \in BOOLEAN, applyEdit(submit) PROVE HistoryInv'
    <2>1. UNCHANGED <<active, sessions, disk, ids>> BY <1>5 DEF applyEdit
    <2> QED BY <2>1 DEF disk, HistoryInv
  <1>6. ASSUME NEW i \in DOMAIN messages,
               handleRegenerateMessage(i) \/ handleEditMessage(i) \/ handleDeleteMessage(i)
        PROVE  HistoryInv'
    BY <1>6 DEF handleRegenerateMessage, handleEditMessage, handleDeleteMessage, disk, HistoryInv
  <1>7. ASSUME NEW s \in ToSet(sessions), handleSelectSession(s) \/ handleDeleteSession(s)
        PROVE  HistoryInv'
    <2>1. s \in ShownSession BY DEF ToSet, HistoryInv
    <2>2. s.id \in 1..MaxIds BY <2>1 DEF ShownSession
    <2>3. CASE handleSelectSession(s) BY <2>2, <2>3 DEF handleSelectSession, disk, HistoryInv
    <2>4. CASE handleDeleteSession(s)
      <3> DEFINE op == Asked("delete", s.id, <<>>, s.id = active)
      <3>1. <<>> \in Chat BY EmptyFits, FitsChat
      <3>2. (s.id = active) \in BOOLEAN OBVIOUS
      <3>3. op \in Op BY <2>2, <3>1, <3>2, OpTyped
      <3>4. ops' = Append(ops, op) /\ UNCHANGED <<active, sessions, stored, ids>>
        BY <2>4 DEF handleDeleteSession, Asked
      <3> HIDE DEF op
      <3> QED BY <3>3, <3>4 DEF HistoryInv
    <2> QED BY <1>7, <2>3, <2>4
  <1> QED BY <1>1, <1>2, <1>3, <1>4, <1>5, <1>6, <1>7 DEF Click

LEMMA StorageHistory ==
    ASSUME ScreenInv, HistoryInv, Storage
    PROVE  HistoryInv'
  <1>t. /\ active \in 1..MaxIds /\ ids \in 1..MaxIds /\ ops \in Seq(Op)
        /\ stored \in Seq(StoredSession) /\ sessions \in Seq(ShownSession)
    BY DEF HistoryInv
  <1>1. CASE SaveTimer
    <2> DEFINE op == Asked("save", active, messages, FALSE)
    <2>1. messages \in Chat BY FitsChat DEF ScreenInv
    <2>2. op \in Op BY <1>t, <2>1, OpTyped
    <2>3. ops' = Append(ops, op) /\ UNCHANGED <<active, sessions, stored, ids>>
      BY <1>1 DEF SaveTimer, Asked
    <2> HIDE DEF op
    <2> QED BY <2>2, <2>3 DEF HistoryInv
  <1>2. ASSUME NEW i \in DOMAIN ops, Write(i) PROVE HistoryInv'
    <2> DEFINE op == ops[i]
               head == IF op.kind = "save" THEN <<[id |-> op.id, messages |-> op.messages]>> ELSE <<>>
               tail == Without(stored, {op.id})
    <2>1. op \in Op BY <1>t
    <2>2. [id |-> op.id, messages |-> op.messages] \in StoredSession BY <2>1 DEF Op, StoredSession
    <2>3. head \in Seq(StoredSession) BY <2>2
    <2>4. tail \in Seq(StoredSession) BY <1>t, WithoutTyped
    <2>5. [op EXCEPT !.stage = "written"] \in Op BY <2>1, OpTyped
    <2>6. ops' = [ops EXCEPT ![i] = [op EXCEPT !.stage = "written"]] BY <1>2 DEF Write
    <2>7. stored' = head \o tail /\ UNCHANGED <<active, sessions, ids>> BY <1>2 DEF Write
    <2>8. ops' \in Seq(Op) BY <1>t, <2>5, <2>6
    <2> HIDE DEF head, tail
    <2>9. stored' \in Seq(StoredSession) BY <2>3, <2>4, <2>7
    <2> QED BY <2>7, <2>8, <2>9 DEF HistoryInv
  <1>3. ASSUME NEW i \in DOMAIN ops, getAllSessions(i) PROVE HistoryInv'
    <2> DEFINE list == [j \in DOMAIN stored |->
                           [stored[j] EXCEPT !.messages = sanitizeMessagesOnLoad(@)]]
    <2>1. list \in Seq(ShownSession) BY <1>t, ReadTyped
    <2>2. ops[i] \in Op BY <1>t
    <2>3. Found(ops[i], list) \in Op BY <2>1, <2>2, OpTyped
    <2>4. ops' = [ops EXCEPT ![i].stage = "read", ![i].found = list] BY <1>3 DEF getAllSessions
    <2> HIDE DEF list
    <2>5. ops' = [ops EXCEPT ![i] = Found(ops[i], list)] BY <1>t, <2>4 DEF Found
    <2>6. ops' \in Seq(Op) BY <1>t, <2>3, <2>5
    <2> QED BY <1>3, <2>6 DEF getAllSessions, HistoryInv
  <1>4. CASE Deliver
    <2> DEFINE op == Head(ops)
    <2>1. /\ ops # <<>> /\ ops' = Tail(ops)
          /\ stored' = Without(stored, Evicted(op)) /\ sessions' = Without(op.found, Evicted(op))
      BY <1>4 DEF Deliver
    <2>2. op \in Op /\ ops' \in Seq(Op) BY <1>t, <2>1
    <2>3. op.found \in Seq(ShownSession) BY <2>2 DEF Op
    <2>4. stored' \in Seq(StoredSession) /\ sessions' \in Seq(ShownSession)
      BY <1>t, <2>1, <2>3, WithoutTyped
    <2>5. CASE NewChat(FALSE)
      <3>1. ids < MaxIds /\ ids' = ids + 1 /\ active' = ids + 1 BY <2>5 DEF NewChat
      <3>2. ids + 1 \in 1..MaxIds BY <1>t, <3>1, PlaygroundAssumption
      <3> QED BY <2>2, <2>4, <3>1, <3>2 DEF HistoryInv
    <2>6. CASE UNCHANGED <<active, ids>> BY <2>2, <2>4, <2>6 DEF HistoryInv
    <2> QED BY <1>4, <2>5, <2>6 DEF Deliver
  <1>5. CASE Refuse
    <2>1. ops # <<>> /\ ops' = Tail(ops) /\ UNCHANGED <<active, sessions, stored, ids>>
      BY <1>5 DEF Refuse
    <2>2. ops' \in Seq(Op) BY <1>t, <2>1
    <2> QED BY <2>1, <2>2 DEF HistoryInv
  <1> QED BY <1>1, <1>2, <1>3, <1>4, <1>5 DEF Storage

-----------------------------------------------------------------------------
\* The conversations.

LEMMA InitCInv == Init => CInv
  <1> SUFFICES ASSUME Init PROVE CInv OBVIOUS
  <1>1. IInv /\ shown \in BOOLEAN BY InitIInv DEF Init
  <1>2. ScreenInv
    <2>1. messages = <<>> /\ open = {} /\ ref = 0 /\ complete = FALSE /\ keys = 0 BY DEF Init
    <2>2. keys \in 0..MaxKeys BY <2>1, PlaygroundAssumption
    <2> QED BY <2>1, <2>2, EmptyFits DEF ScreenInv
  <1>3. HistoryInv
    <2> DEFINE op == [kind |-> "load", id |-> 1, messages |-> <<>>, wasActive |-> FALSE,
                      stage |-> "written", found |-> <<>>]
    <2>1. 1 \in 1..MaxIds BY PlaygroundAssumption
    <2>2. <<>> \in Chat BY EmptyFits, FitsChat
    <2>3. <<>> \in Seq(ShownSession) /\ <<>> \in Seq(StoredSession) OBVIOUS
    <2>4. op \in Op BY <2>1, <2>2, <2>3 DEF Op
    <2>5. ops = <<op>> /\ active = 1 /\ ids = 1 /\ sessions = <<>> /\ stored = <<>> BY DEF Init
    <2> HIDE DEF op
    <2>6. <<op>> \in Seq(Op) BY <2>4
    <2> QED BY <2>1, <2>3, <2>5, <2>6 DEF HistoryInv
  <1> QED BY <1>1, <1>2, <1>3 DEF CInv

LEMMA NextCInv ==
    ASSUME CInv, UserWaits, [Next]_vars
    PROVE  CInv'
  <1>1. IInv /\ shown \in BOOLEAN /\ ScreenInv /\ HistoryInv BY DEF CInv
  <1>2. IInv' /\ shown' \in BOOLEAN BY <1>1, NextIInv, ShownTyped
  <1>3. CASE StreamEvent
    <2>1. PICK k \in open : Chunk(k) \/ Done(k) \/ BadChunk(k) \/ Break(k) \/ EndsQuietly(k)
      BY <1>3 DEF StreamEvent
    <2> QED BY <1>1, <1>2, <2>1, StreamScreen, StreamHistory DEF CInv
  <1>4. CASE Click BY <1>1, <1>2, <1>4, ClickScreen, ClickHistory DEF CInv
  <1>5. CASE Storage BY <1>1, <1>2, <1>5, StorageScreen, StorageHistory DEF CInv
  <1>6. CASE UNCHANGED vars BY <1>1, <1>2, <1>6 DEF vars, CInv, ScreenInv, HistoryInv
  <1> QED BY <1>3, <1>4, <1>5, <1>6 DEF Next

LEMMA ConversationsKept ==
    ASSUME UserWaits
    PROVE  Spec => []CInv
  <1>1. CInv /\ [Next]_vars => CInv' BY NextCInv
  <1> QED BY <1>1, InitCInv, PTL DEF Spec

\* No chunk of one reply ends up in another, whatever the user clicks between two chunks, and
\* whichever conversations are shown, saved, loaded and deleted meanwhile (use-stream-request,
\* use-playground-state, index.tsx): for any number of requests and conversations.
THEOREM NoReplyMixed ==
    ASSUME UserWaits
    PROVE  Spec => []RepliesTheirOwn
  <1>1. ASSUME CInv PROVE RepliesTheirOwn
    <2>1. messages \in Seq(OwnMessage) BY <1>1 DEF CInv, ScreenInv, Fits
    <2>2. ASSUME NEW i \in DOMAIN messages PROVE messages[i].text \subseteq {messages[i].key}
      <3>1. messages[i] \in OwnMessage BY <2>1
      <3> QED BY <3>1, OwnFields
    <2> QED BY <2>2 DEF RepliesTheirOwn
  <1> QED BY <1>1, ConversationsKept, PTL

\* Nothing in the history list is loading or streaming, although a save may write a reply that is
\* (saveMessages while the stream goes on): one pass of sanitizeMessagesOnLoad, which settles a
\* single message, is enough because no conversation ever waits for two.
THEOREM HistorySettled ==
    ASSUME UserWaits
    PROVE  Spec => []RestoredSettled
  <1>1. ASSUME CInv PROVE RestoredSettled
    <2> SUFFICES ASSUME NEW s \in ToSet(sessions), NEW m \in ToSet(s.messages)
                 PROVE  ~Unsettled(m)
      BY DEF RestoredSettled
    <2>1. s \in ShownSession BY <1>1 DEF ToSet, CInv, HistoryInv
    <2>2. Fits(s.messages, 0) BY <2>1 DEF ShownSession, Rest
    <2>3. \A i \in DOMAIN s.messages : ~Unsettled(s.messages[i]) BY <2>2, AtRest
    <2> QED BY <2>3 DEF ToSet
  <1> QED BY <1>1, ConversationsKept, PTL

\* A reply that is still loading or streaming has an open source that will end it, unless a
\* connection ended without [DONE] (use-stream-request listens to no such event).
THEOREM NoReplyForgotten ==
    ASSUME UserWaits
    PROVE  Spec => []RepliesAwaited
  <1>1. ASSUME CInv PROVE RepliesAwaited
    <2> SUFFICES ASSUME "quiet" \notin odd, NEW m \in ToSet(messages), Unsettled(m)
                 PROVE  m.key \in open
      BY DEF RepliesAwaited
    <2>1. Fits(messages, ref) BY <1>1 DEF CInv, ScreenInv
    <2>2. PICK i \in DOMAIN messages : m = messages[i] BY DEF ToSet
    <2>3. m.key = ref BY <2>1, <2>2 DEF Fits
    <2>4. m \in OwnMessage BY <2>1, <2>2 DEF Fits
    <2>5. m.key \in 1..MaxKeys BY <2>4, OwnFields
    <2>6. ref # 0
      <3>1. 0 \notin 1..MaxKeys OBVIOUS
      <3> QED BY <2>3, <2>5, <3>1
    <2> QED BY <1>1, <2>3, <2>6 DEF CInv, ScreenInv
  <1> QED BY <1>1, ConversationsKept, PTL

-----------------------------------------------------------------------------
\* The history at rest, however the database operations overlap.

\* What a save would write now, and that none is due.
OnScreen == [id |-> active, messages |-> messages]
Settled == ready /\ ~timer /\ messages # <<>>

\* The operations write in the order they were asked for, and read in that order.
Ordered(q) ==
    \A i, j \in DOMAIN q : i < j =>
        /\ q[j].stage = "read" => q[i].stage = "read"
        /\ q[j].stage # "asked" => q[i].stage # "asked"

\* The database holds one version of a conversation.
Distinct(db) == \A i, j \in DOMAIN db : db[i].id = db[j].id => i = j

\* What an operation has read covers the database as long as no save may follow it: deletions and
\* evictions only take away.
Sane(s) == [s EXCEPT !.messages = sanitizeMessagesOnLoad(@)]
Shows(list, db) == \A s \in ToSet(db) : Sane(s) \in ToSet(list)
NoSaveAfter(q, i) == \A j \in DOMAIN q : j > i => q[j].kind # "save"
Covered(q, db) ==
    \A i \in DOMAIN q : q[i].stage = "read" /\ NoSaveAfter(q, i) => Shows(q[i].found, db)

\* With no save under way the database keeps its bound.
Bounded(q, db) == (\A i \in DOMAIN q : q[i].kind # "save") => Len(db) <= MAX_SESSIONS

\* When no save is due, the last save of what is on screen that is still to be written writes it as
\* it is; when there is none, the database has it as it is or not at all.
SaveOf(op, id) == op.kind = "save" /\ op.stage = "asked" /\ op.id = id
LastSaveOf(q, i, id) == SaveOf(q[i], id) /\ \A j \in DOMAIN q : j > i => ~SaveOf(q[j], id)
Fresh(q, db, now, settled) ==
    settled =>
        /\ \A i \in DOMAIN q : LastSaveOf(q, i, now.id) => q[i].messages = now.messages
        /\ (\A i \in DOMAIN q : ~SaveOf(q[i], now.id))
              => \A s \in ToSet(db) : s.id = now.id => s.messages = now.messages

RestInv ==
    /\ ready \in BOOLEAN /\ Ordered(ops) /\ Distinct(stored)
    /\ "refused" \notin odd =>
          /\ ops = <<>> => Shows(sessions, stored)
          /\ Covered(ops, stored) /\ Bounded(ops, stored)
          /\ Fresh(ops, stored, OnScreen, Settled)

\* What is left of a list is no longer than the part of it that is not gone.
LEMMA WithoutShort ==
    ASSUME NEW X, NEW db \in Seq(X), NEW gone, NEW M \in Nat,
           \A j \in DOMAIN db : j > M => db[j].id \in gone
    PROVE  Len(Without(db, gone)) <= M
  <1> DEFINE S == DOMAIN db
             f == CHOOSE g : g = [V \in SUBSET S |-> Steps(g, db, gone, V)]
             Kept(V) == V \cap (1..M)
  <1>1. S = 1..Len(db) /\ Len(db) \in Nat OBVIOUS
  <1>2. IsFiniteSet(S) /\ S \subseteq Nat BY <1>1, FS_Interval
  <1>3. f = [V \in SUBSET S |-> Steps(f, db, gone, V)] BY <1>2, FoldExists
  <1>4. Without(db, gone) = f[S] BY FoldIs
  <1>5. \A V : IsFiniteSet(Kept(V)) /\ Cardinality(Kept(V)) \in Nat /\ Cardinality(Kept(V)) <= M
    <2>1. IsFiniteSet(1..M) /\ Cardinality(1..M) = M BY FS_Interval
    <2> QED BY <2>1, FS_Subset, FS_CardinalityType
  <1> HIDE DEF f, S
  <1> DEFINE Bad == { V \in SUBSET S : ~(f[V] \in Seq(X) /\ Len(f[V]) <= Cardinality(Kept(V))) }
  <1>6. Bad = {}
    <2> SUFFICES ASSUME Bad # {} PROVE FALSE OBVIOUS
    <2>1. PICK V \in Bad : \A x \in V : V \ {x} \notin Bad BY <1>2, Smallest
    <2>2. f[V] = Steps(f, db, gone, V) BY <1>3
    <2>3. CASE V = {}
      <3>1. f[V] = <<>> /\ Kept(V) = {} BY <2>2, <2>3 DEF Steps
      <3>2. Cardinality(Kept(V)) = 0 BY <3>1, FS_EmptySet
      <3>3. ~(f[V] \in Seq(X) /\ Len(f[V]) <= Cardinality(Kept(V))) BY <2>1
      <3>4. <<>> \in Seq(X) /\ Len(<<>>) = 0 OBVIOUS
      <3> HIDE DEF Kept
      <3> QED BY <3>1, <3>2, <3>3, <3>4
    <2>4. CASE V # {}
      <3> DEFINE a == Max(V)
                 W == V \ {a}
      <3>1. IsFiniteSet(V) /\ V \subseteq Nat BY <1>2, FS_Subset
      <3>2. a \in V BY <2>4, <3>1, Greatest
      <3>3. W \in SUBSET S /\ W \notin Bad BY <2>1, <3>2
      <3>4. f[W] \in Seq(X) /\ Len(f[W]) <= Cardinality(Kept(W)) BY <3>3
      <3>5. db[a] \in X /\ a \in S /\ a \in Nat \ {0} BY <1>1, <3>2 DEF S
      <3>6. f[V] = IF db[a].id \in gone THEN f[W] ELSE Append(f[W], db[a])
        BY <2>2, <2>4 DEF Steps
      <3>7. ~(f[V] \in Seq(X) /\ Len(f[V]) <= Cardinality(Kept(V))) BY <2>1
      <3> HIDE DEF a
      <3>8. CASE db[a].id \in gone
        <4>1. Kept(W) \subseteq Kept(V) OBVIOUS
        <4>2. Cardinality(Kept(W)) <= Cardinality(Kept(V)) BY <1>5, <4>1, FS_Subset
        <4>3. f[V] = f[W] /\ Len(f[W]) \in Nat BY <3>4, <3>6, <3>8
        <4>4. Cardinality(Kept(W)) \in Nat /\ Cardinality(Kept(V)) \in Nat BY <1>5
        <4> HIDE DEF Kept, W
        <4> QED BY <3>4, <3>7, <4>2, <4>3, <4>4
      <3>9. CASE db[a].id \notin gone
        <4>1. ~(a > M) BY <3>5, <3>9 DEF S
        <4>2. a \in Kept(V) /\ Kept(W) = Kept(V) \ {a} BY <3>2, <3>5, <4>1
        <4>3. Cardinality(Kept(W)) = Cardinality(Kept(V)) - 1
          <5> DEFINE K == Kept(V)
          <5>1. IsFiniteSet(K) /\ a \in K BY <1>5, <4>2
          <5>2. Kept(W) = K \ {a} BY <4>2
          <5> HIDE DEF K
          <5>3. Cardinality(K \ {a}) = Cardinality(K) - 1 BY <5>1, FS_RemoveElement
          <5> HIDE DEF Kept, W
          <5> QED BY <5>2, <5>3 DEF K
        <4>4. f[V] \in Seq(X) /\ Len(f[V]) = Len(f[W]) + 1 /\ Len(f[W]) \in Nat
          BY <3>4, <3>5, <3>6, <3>9
        <4>5. Cardinality(Kept(W)) \in Nat /\ Cardinality(Kept(V)) \in Nat BY <1>5
        <4> HIDE DEF Kept, W
        <4> QED BY <3>4, <3>7, <4>3, <4>4, <4>5
      <3> QED BY <3>8, <3>9
    <2> QED BY <2>3, <2>4
  <1>7. S \in SUBSET S OBVIOUS
  <1>8. f[S] \in Seq(X) /\ Len(f[S]) <= Cardinality(Kept(S)) BY <1>6, <1>7
  <1>9. Cardinality(Kept(S)) \in Nat /\ Cardinality(Kept(S)) <= M BY <1>5
  <1> HIDE DEF Kept
  <1> QED BY <1>4, <1>8, <1>9

\* What is not gone is left.
LEMMA WithoutKeeps ==
    ASSUME NEW X, NEW db \in Seq(X), NEW gone, NEW j \in DOMAIN db, db[j].id \notin gone
    PROVE  db[j] \in ToSet(Without(db, gone))
  <1> DEFINE S == DOMAIN db
             f == CHOOSE g : g = [V \in SUBSET S |-> Steps(g, db, gone, V)]
  <1>1. S = 1..Len(db) /\ Len(db) \in Nat OBVIOUS
  <1>2. IsFiniteSet(S) /\ S \subseteq Nat BY <1>1, FS_Interval
  <1>3. f = [V \in SUBSET S |-> Steps(f, db, gone, V)] BY <1>2, FoldExists
  <1>4. Without(db, gone) = f[S] BY FoldIs
  <1> HIDE DEF f, S
  <1> DEFINE Bad == { V \in SUBSET S : ~(f[V] \in Seq(X)
                         /\ (j \in V => \E n \in 1..Len(f[V]) : f[V][n] = db[j])) }
  <1>6. Bad = {}
    <2> SUFFICES ASSUME Bad # {} PROVE FALSE OBVIOUS
    <2>1. PICK V \in Bad : \A x \in V : V \ {x} \notin Bad BY <1>2, Smallest
    <2>2. f[V] = Steps(f, db, gone, V) BY <1>3
    <2>3. CASE V = {}
      <3>1. f[V] = <<>> /\ j \notin V BY <2>2, <2>3 DEF Steps
      <3>2. f[V] \notin Seq(X) BY <2>1, <3>1
      <3>3. <<>> \in Seq(X) OBVIOUS
      <3> QED BY <3>1, <3>2, <3>3
    <2>4. CASE V # {}
      <3> DEFINE a == Max(V)
                 W == V \ {a}
      <3>1. IsFiniteSet(V) /\ V \subseteq Nat BY <1>2, FS_Subset
      <3>2. a \in V BY <2>4, <3>1, Greatest
      <3>3. W \in SUBSET S /\ W \notin Bad BY <2>1, <3>2
      <3>4. f[W] \in Seq(X) /\ (j \in W => \E n \in 1..Len(f[W]) : f[W][n] = db[j]) BY <3>3
      <3>5. db[a] \in X BY <1>1, <3>2 DEF S
      <3>6. f[V] = IF db[a].id \in gone THEN f[W] ELSE Append(f[W], db[a])
        BY <2>2, <2>4 DEF Steps
      <3>7. ~(f[V] \in Seq(X) /\ (j \in V => \E n \in 1..Len(f[V]) : f[V][n] = db[j])) BY <2>1
      <3> HIDE DEF a
      <3>8. CASE db[a].id \in gone
        <4>1. j # a BY <3>8
        <4>2. f[V] = f[W] /\ (j \in V => j \in W) BY <3>6, <3>8, <4>1
        <4> HIDE DEF W
        <4> QED BY <3>4, <3>7, <4>2
      <3>9. CASE db[a].id \notin gone
        <4>1. f[V] = Append(f[W], db[a]) BY <3>6, <3>9
        <4>2. f[V] \in Seq(X) /\ Len(f[V]) = Len(f[W]) + 1 /\ Len(f[W]) \in Nat
              /\ f[V][Len(f[V])] = db[a] /\ \A n \in 1..Len(f[W]) : f[V][n] = f[W][n]
          <5> HIDE DEF W
          <5> QED BY <3>4, <3>5, <4>1
        <4>3. CASE j = a BY <3>7, <4>2, <4>3
        <4>4. CASE j # a
          <5>1. j \in V => j \in W BY <4>4
          <5> HIDE DEF W
          <5>2. \A n \in 1..Len(f[W]) : n \in 1..Len(f[V]) BY <4>2
          <5> QED BY <3>4, <3>7, <4>2, <5>1, <5>2
        <4> QED BY <4>3, <4>4
      <3> QED BY <3>8, <3>9
    <2> QED BY <2>3, <2>4
  <1>7. S \in SUBSET S /\ j \in S BY DEF S
  <1>8. f[S] \in Seq(X) /\ \E n \in 1..Len(f[S]) : f[S][n] = db[j] BY <1>6, <1>7
  <1> QED BY <1>4, <1>8 DEF ToSet

\* What is left of a list was in it, and is not gone.
LEMMA WithoutFrom ==
    ASSUME NEW X, NEW db \in Seq(X), NEW gone
    PROVE  \A s \in ToSet(Without(db, gone)) : s \in ToSet(db) /\ s.id \notin gone
  <1> DEFINE Y == { s \in ToSet(db) : s.id \notin gone }
             w == Without(db, gone)
  <1>1. db \in Seq(ToSet(db))
    <2>1. \A n \in 1..Len(db) : db[n] \in ToSet(db) BY DEF ToSet
    <2>2. db = [n \in 1..Len(db) |-> db[n]] /\ Len(db) \in Nat OBVIOUS
    <2> QED BY <2>1, <2>2
  <1>2. w \in Seq(Y) BY <1>1, WithoutIs
  <1> HIDE DEF w, Y
  <1>3. \A s \in ToSet(w) : s \in Y BY <1>2 DEF ToSet
  <1> QED BY <1>3 DEF w, Y

\* One version of a conversation stays one.
LEMMA WithoutDistinct ==
    ASSUME NEW X, NEW db \in Seq(X), NEW gone, Distinct(db)
    PROVE  Distinct(Without(db, gone))
  <1> DEFINE S == DOMAIN db
             f == CHOOSE g : g = [V \in SUBSET S |-> Steps(g, db, gone, V)]
             Part(q, V) == /\ q \in Seq(X) /\ Distinct(q)
                           /\ \A n \in DOMAIN q : \E j \in V : q[n] = db[j]
  <1>1. S = 1..Len(db) /\ Len(db) \in Nat OBVIOUS
  <1>2. IsFiniteSet(S) /\ S \subseteq Nat BY <1>1, FS_Interval
  <1>3. f = [V \in SUBSET S |-> Steps(f, db, gone, V)] BY <1>2, FoldExists
  <1>4. Without(db, gone) = f[S] BY FoldIs
  <1> HIDE DEF f, S
  <1> DEFINE Bad == { V \in SUBSET S : ~Part(f[V], V) }
  <1>5. Bad = {}
    <2> SUFFICES ASSUME Bad # {} PROVE FALSE OBVIOUS
    <2>1. PICK V \in Bad : \A x \in V : V \ {x} \notin Bad BY <1>2, Smallest
    <2>2. f[V] = Steps(f, db, gone, V) /\ ~Part(f[V], V) BY <1>3, <2>1
    <2>3. CASE V = {}
      <3>1. f[V] = <<>> BY <2>2, <2>3 DEF Steps
      <3>2. <<>> \in Seq(X) /\ DOMAIN <<>> = {} OBVIOUS
      <3>3. Part(<<>>, V) BY <3>2 DEF Distinct
      <3> QED BY <2>2, <3>1, <3>3
    <2>4. CASE V # {}
      <3> DEFINE a == Max(V)
                 W == V \ {a}
      <3>1. IsFiniteSet(V) /\ V \subseteq Nat BY <1>2, FS_Subset
      <3>2. a \in V BY <2>4, <3>1, Greatest
      <3>3. W \in SUBSET S /\ W \notin Bad BY <2>1, <3>2
      <3>4. Part(f[W], W) BY <3>3
      <3>5. db[a] \in X /\ a \in S BY <1>1, <3>2 DEF S
      <3>6. f[V] = IF db[a].id \in gone THEN f[W] ELSE Append(f[W], db[a])
        BY <2>2, <2>4 DEF Steps
      <3>7. W \subseteq V /\ W \subseteq S /\ a \notin W BY <3>3
      <3> HIDE DEF a, W
      <3>8. CASE db[a].id \in gone
        <4>1. f[V] = f[W] BY <3>6, <3>8
        <4>2. Part(f[W], V) BY <3>4, <3>7
        <4> QED BY <2>2, <4>1, <4>2
      <3>9. CASE db[a].id \notin gone
        <4> DEFINE q == f[W]
                   r == Append(q, db[a])
        <4>1. f[V] = r BY <3>6, <3>9
        <4>2. q \in Seq(X) /\ Distinct(q) /\ \A n \in DOMAIN q : \E j \in W : q[n] = db[j]
          BY <3>4
        <4>3. \A n \in DOMAIN q : q[n].id # db[a].id
          <5>1. \A j \in W : db[j].id # db[a].id BY <3>5, <3>7 DEF Distinct, S
          <5> QED BY <4>2, <5>1
        <4> HIDE DEF q
        <4>4. /\ r \in Seq(X) /\ DOMAIN q = 1..Len(q) /\ Len(q) \in Nat
              /\ DOMAIN r = 1..(Len(q) + 1)
              /\ r[Len(q) + 1] = db[a] /\ \A n \in 1..Len(q) : r[n] = q[n]
          BY <3>5, <4>2
        <4> HIDE DEF r
        <4>5. \A n \in DOMAIN r : n \in DOMAIN q \/ n = Len(q) + 1 BY <4>4
        <4>6. Distinct(r) BY <4>2, <4>3, <4>4, <4>5 DEF Distinct
        <4>7. \A n \in DOMAIN r : \E j \in V : r[n] = db[j]
          BY <3>2, <3>7, <4>2, <4>4, <4>5 DEF a
        <4>8. Part(r, V) BY <4>4, <4>6, <4>7
        <4> QED BY <2>2, <4>1, <4>8
      <3> QED BY <3>8, <3>9
    <2> QED BY <2>3, <2>4
  <1>6. S \in SUBSET S OBVIOUS
  <1>7. Part(f[S], S) BY <1>5, <1>6
  <1> QED BY <1>4, <1>7

\* Conversations that are all among the first M of a list are M at most.
LEMMA AmongFirst ==
    ASSUME NEW X, NEW db \in Seq(X), Distinct(db), NEW M \in Nat, NEW list,
           \A j \in DOMAIN db : \E k \in 1..M : list[k].id = db[j].id
    PROVE  Len(db) <= M
  <1> DEFINE f == [j \in DOMAIN db |-> CHOOSE k \in 1..M : list[k].id = db[j].id]
  <1>1. \A j \in DOMAIN db : f[j] \in 1..M /\ list[f[j]].id = db[j].id OBVIOUS
  <1>2. f \in [DOMAIN db -> 1..M] BY <1>1
  <1>3. DOMAIN db = 1..Len(db) /\ Len(db) \in Nat OBVIOUS
  <1>4. /\ IsFiniteSet(DOMAIN db) /\ Cardinality(DOMAIN db) = Len(db)
        /\ IsFiniteSet(1..M) /\ Cardinality(1..M) = M
    <2>1. ASSUME NEW n \in Nat PROVE IsFiniteSet(1..n) /\ Cardinality(1..n) = n
      <3>1. IsFiniteSet(1..n) /\ Cardinality(1..n) = (IF 1 > n THEN 0 ELSE n - 1 + 1)
        BY FS_Interval
      <3> QED BY <3>1
    <2> QED BY <1>3, <2>1
  <1> HIDE DEF f
  <1>5. ASSUME M < Len(db) PROVE FALSE
    <2>1. \E x, y \in DOMAIN db : x # y /\ f[x] = f[y]
      BY <1>2, <1>4, <1>5, FS_PigeonHole
    <2> QED BY <1>1, <2>1 DEF Distinct
  <1> QED BY <1>3, <1>5

\* A step that leaves the database alone: what is on screen stays, or a save of it becomes due.
LEMMA ScreenRestInv ==
    ASSUME RestInv, UNCHANGED <<ops, stored, sessions, ready>>, odd' \subseteq odd \cup {"quiet"},
           odd \subseteq odd',
           UNCHANGED <<messages, active, timer>> \/ \E ms, r : Render(ms, r)
    PROVE  RestInv'
  <1>1. "refused" \notin odd' => "refused" \notin odd OBVIOUS
  <1>2. CASE UNCHANGED <<messages, active, timer>>
    BY <1>1, <1>2 DEF RestInv, Settled, OnScreen
  <1>3. CASE \E ms, r : Render(ms, r)
    <2>1. timer' = (ready /\ messages' # <<>>) BY <1>3 DEF Render
    <2>2. ~Settled' BY <2>1 DEF Settled, RestInv
    <2> QED BY <1>1, <2>2 DEF RestInv, Fresh
  <1> QED BY <1>2, <1>3

LEMMA StreamRestInv ==
    ASSUME RestInv, NEW k \in open,
           Chunk(k) \/ Done(k) \/ BadChunk(k) \/ Break(k) \/ EndsQuietly(k)
    PROVE  RestInv'
  <1>1. /\ UNCHANGED <<ops, stored, sessions, ready, active>>
        /\ odd' \subseteq odd \cup {"quiet"} /\ odd \subseteq odd'
    BY DEF Chunk, Done, BadChunk, Break, EndsQuietly, disk
  <1>2. ASSUME NEW ms, NEW r, Update(ms, r)
        PROVE  UNCHANGED <<messages, timer>> \/ \E xs, q : Render(xs, q)
    BY <1>2 DEF Update, NoRender
  <1>3. UNCHANGED <<messages, timer>> \/ \E ms, r : Render(ms, r)
    BY <1>2 DEF Chunk, Done, BadChunk, Break, EndsQuietly, handleError, NoRender
  <1> QED BY <1>1, <1>3, ScreenRestInv

\* An operation is asked for behind those under way.
LEMMA AskedRestInv ==
    ASSUME RestInv, HistoryInv, NEW op \in Op, op.stage = "asked", op.kind \in {"save", "delete"},
           ops' = Append(ops, op), UNCHANGED <<messages, active, stored, ready, odd>>,
           \/ op.kind = "delete" /\ UNCHANGED timer
           \/ op.kind = "save" /\ op.id = active /\ op.messages = messages
    PROVE  RestInv'
  <1>1. /\ ops \in Seq(Op) /\ Len(ops) \in Nat /\ DOMAIN ops = 1..Len(ops)
        /\ DOMAIN ops' = 1..(Len(ops) + 1)
        /\ ops'[Len(ops) + 1] = op /\ \A i \in DOMAIN ops : ops'[i] = ops[i]
        /\ ops' # <<>>
    BY DEF HistoryInv
  <1>2. \A i \in DOMAIN ops' : i \in DOMAIN ops \/ i = Len(ops) + 1 BY <1>1
  <1>3. \A i \in DOMAIN ops : i \in DOMAIN ops' /\ i < Len(ops) + 1 /\ Len(ops) + 1 > i BY <1>1
  <1>4. Len(ops) + 1 \in DOMAIN ops' BY <1>1
  <1>5. Ordered(ops') BY <1>1, <1>2 DEF RestInv, Ordered
  <1>6. ASSUME "refused" \notin odd
        PROVE  Covered(ops', stored) /\ Bounded(ops', stored) /\ Fresh(ops', stored, OnScreen', Settled')
    <2>0. Covered(ops, stored) /\ Bounded(ops, stored) /\ Fresh(ops, stored, OnScreen, Settled)
      BY <1>6 DEF RestInv
    <2>1. \A i \in DOMAIN ops : NoSaveAfter(ops', i) => NoSaveAfter(ops, i)
      BY <1>1, <1>3 DEF NoSaveAfter
    <2>2. Covered(ops', stored)
      <3> SUFFICES ASSUME NEW i \in DOMAIN ops', ops'[i].stage = "read", NoSaveAfter(ops', i)
                   PROVE  Shows(ops'[i].found, stored)
        BY DEF Covered
      <3>1. i \in DOMAIN ops BY <1>1, <1>2
      <3> QED BY <1>1, <2>0, <2>1, <3>1 DEF Covered
    <2>3. Bounded(ops', stored) BY <1>1, <1>3, <2>0 DEF Bounded
    <2>4. OnScreen' = OnScreen BY DEF OnScreen
    <2>5. CASE op.kind = "delete" /\ UNCHANGED timer
      <3>1. Settled' => Settled BY <2>5 DEF Settled
      <3>2. \A id : ~SaveOf(op, id) BY <2>5 DEF SaveOf
      <3>3. \A id : \A i \in DOMAIN ops' :
               LastSaveOf(ops', i, id) => i \in DOMAIN ops /\ LastSaveOf(ops, i, id)
        BY <1>1, <1>2, <1>3, <3>2 DEF LastSaveOf
      <3>4. \A id : (\A i \in DOMAIN ops' : ~SaveOf(ops'[i], id)) => \A i \in DOMAIN ops : ~SaveOf(ops[i], id)
        BY <1>1, <1>3
      <3>5. Fresh(ops', stored, OnScreen', Settled')
        BY <1>1, <2>0, <2>4, <3>1, <3>3, <3>4 DEF Fresh
      <3> QED BY <2>2, <2>3, <3>5
    <2>6. CASE op.kind = "save" /\ op.id = active /\ op.messages = messages
      <3>1. SaveOf(op, active) /\ OnScreen.id = active /\ OnScreen.messages = messages
        BY <2>6 DEF SaveOf, OnScreen
      <3>2. \A i \in DOMAIN ops' : LastSaveOf(ops', i, active) => i = Len(ops) + 1
        BY <1>1, <1>2, <1>3, <1>4, <3>1 DEF LastSaveOf
      <3>3. Fresh(ops', stored, OnScreen', Settled')
        BY <1>1, <1>4, <2>4, <2>6, <3>1, <3>2 DEF Fresh
      <3> QED BY <2>2, <2>3, <3>3
    <2> QED BY <2>5, <2>6
  <1> QED BY <1>1, <1>5, <1>6 DEF RestInv

LEMMA ClickRestInv ==
    ASSUME RestInv, HistoryInv, Click
    PROVE  RestInv'
  <1>r. ASSUME NEW ms, sendChat(ms) PROVE \E xs, q : Render(xs, q) BY <1>r DEF sendChat
  <1>1. CASE handleSendMessage
    <2>1. UNCHANGED <<ops, stored, sessions, ready, odd>> /\ \E ms, r : Render(ms, r)
      BY <1>1, <1>r DEF handleSendMessage, disk
    <2> QED BY <2>1, ScreenRestInv
  <1>2. CASE stopGeneration
    <2>1. UNCHANGED <<ops, stored, sessions, ready, odd, active>> BY <1>2 DEF stopGeneration, disk
    <2>2. UNCHANGED <<messages, timer>> \/ \E ms, r : Render(ms, r)
      BY <1>2 DEF stopGeneration, Update, NoRender
    <2> QED BY <2>1, <2>2, ScreenRestInv
  <1>3. CASE handleNewChat
    <2>1. UNCHANGED <<ops, stored, sessions, ready, odd>> /\ \E ms, r : Render(ms, r)
      BY <1>3 DEF handleNewChat, NewChat, disk
    <2> QED BY <2>1, ScreenRestInv
  <1>4. CASE handleEditOpenChange
    <2>1. UNCHANGED <<ops, stored, sessions, ready, odd, messages, active, timer>>
      BY <1>4 DEF handleEditOpenChange, disk
    <2> QED BY <2>1, ScreenRestInv
  <1>5. ASSUME NEW submit \in BOOLEAN, applyEdit(submit) PROVE RestInv'
    <2>1. UNCHANGED <<ops, stored, sessions, ready, odd>> BY <1>5 DEF applyEdit, disk
    <2>2. \E ms, r : Render(ms, r) BY <1>5, <1>r DEF applyEdit
    <2> QED BY <2>1, <2>2, ScreenRestInv
  <1>6. ASSUME NEW i \in DOMAIN messages,
               handleRegenerateMessage(i) \/ handleEditMessage(i) \/ handleDeleteMessage(i)
        PROVE  RestInv'
    <2>1. UNCHANGED <<ops, stored, sessions, ready, odd>>
      BY <1>6 DEF handleRegenerateMessage, handleEditMessage, handleDeleteMessage, disk
    <2>2. UNCHANGED <<messages, active, timer>> \/ \E ms, r : Render(ms, r)
      BY <1>6, <1>r DEF handleRegenerateMessage, handleEditMessage, handleDeleteMessage
    <2> QED BY <2>1, <2>2, ScreenRestInv
  <1>7. ASSUME NEW s \in ToSet(sessions), handleSelectSession(s) PROVE RestInv'
    <2>1. UNCHANGED <<ops, stored, sessions, ready, odd>> /\ \E ms, r : Render(ms, r)
      BY <1>7 DEF handleSelectSession, disk
    <2> QED BY <2>1, ScreenRestInv
  <1>8. ASSUME NEW s \in ToSet(sessions), handleDeleteSession(s) PROVE RestInv'
    <2> DEFINE op == Asked("delete", s.id, <<>>, s.id = active)
    <2>1. ops' = Append(ops, op) /\ UNCHANGED <<messages, active, stored, ready, timer, odd>>
      BY <1>8 DEF handleDeleteSession, Asked
    <2>2. op.stage = "asked" /\ op.kind = "delete" BY DEF Asked
    <2>3. op \in Op
      <3>1. s \in ShownSession BY DEF ToSet, HistoryInv
      <3>2. s.id \in 1..MaxIds BY <3>1 DEF ShownSession
      <3>3. <<>> \in Chat /\ (s.id = active) \in BOOLEAN BY EmptyFits, FitsChat
      <3> QED BY <3>2, <3>3, OpTyped
    <2> HIDE DEF op
    <2> QED BY <2>1, <2>2, <2>3, AskedRestInv
  <1> QED BY <1>1, <1>2, <1>3, <1>4, <1>5, <1>6, <1>7, <1>8 DEF Click

\* What a write makes of the database.
LEMMA Written ==
    ASSUME HistoryInv, Distinct(stored), NEW i \in DOMAIN ops, Write(i)
    PROVE  /\ Distinct(stored')
           /\ \A s \in ToSet(stored') :
                 \/ s \in ToSet(stored) /\ s.id # ops[i].id
                 \/ ops[i].kind = "save" /\ s.id = ops[i].id /\ s.messages = ops[i].messages
           /\ ops[i].kind # "save" /\ Len(stored) <= MAX_SESSIONS => Len(stored') <= MAX_SESSIONS
  <1> DEFINE op == ops[i]
             sv == [id |-> op.id, messages |-> op.messages]
             kept == Without(stored, {op.id})
  <1>1. ops \in Seq(Op) /\ stored \in Seq(StoredSession) /\ MAX_SESSIONS \in Nat
    BY PlaygroundAssumption DEF HistoryInv
  <1>2. op \in Op BY <1>1
  <1>3. stored' = (IF op.kind = "save" THEN <<sv>> ELSE <<>>) \o kept BY DEF Write
  <1>4. kept \in Seq(StoredSession) /\ Distinct(kept) BY <1>1, WithoutTyped, WithoutDistinct
  <1>5. \A s \in ToSet(kept) : s \in ToSet(stored) /\ s.id # op.id
    <2>1. \A s \in ToSet(Without(stored, {op.id})) : s \in ToSet(stored) /\ s.id \notin {op.id}
      BY <1>1, WithoutFrom
    <2> QED BY <2>1
  <1>6. sv \in StoredSession /\ sv.id = op.id /\ sv.messages = op.messages
    BY <1>2 DEF Op, StoredSession
  <1>7. CASE op.kind = "save"
    <2> HIDE DEF sv, kept, op
    <2>1. stored' = <<sv>> \o kept BY <1>3, <1>7
    <2>2. /\ DOMAIN stored' = 1..(Len(kept) + 1) /\ Len(kept) \in Nat /\ DOMAIN kept = 1..Len(kept)
          /\ stored'[1] = sv /\ \A j \in 2..(Len(kept) + 1) : stored'[j] = kept[j - 1]
      BY <1>4, <1>6, <2>1
    <2>3. \A j \in DOMAIN stored' : j = 1 \/ (j \in 2..(Len(kept) + 1) /\ j - 1 \in DOMAIN kept)
      BY <2>2
    <2>4. \A j \in DOMAIN kept : kept[j].id # op.id BY <1>5 DEF ToSet
    <2>5. Distinct(stored')
      <3> SUFFICES ASSUME NEW j \in DOMAIN stored', NEW k \in DOMAIN stored',
                          stored'[j].id = stored'[k].id
                   PROVE  j = k
        BY DEF Distinct
      <3>1. CASE j = 1 \/ k = 1 BY <1>6, <2>2, <2>3, <2>4, <3>1
      <3>2. CASE j # 1 /\ k # 1
        <4>1. j - 1 = k - 1 BY <1>4, <2>2, <2>3, <3>2 DEF Distinct
        <4> QED BY <2>2, <4>1
      <3> QED BY <3>1, <3>2
    <2>6. ASSUME NEW s \in ToSet(stored')
          PROVE  \/ s \in ToSet(stored) /\ s.id # op.id
                 \/ s.id = op.id /\ s.messages = op.messages
      <3>1. PICK j \in DOMAIN stored' : s = stored'[j] BY DEF ToSet
      <3>2. CASE j = 1 BY <1>6, <2>2, <3>1, <3>2
      <3>3. CASE j # 1
        <4>1. s \in ToSet(kept) BY <2>2, <2>3, <3>1, <3>3 DEF ToSet
        <4> QED BY <1>5, <4>1
      <3> QED BY <3>2, <3>3
    <2> QED BY <1>7, <2>5, <2>6 DEF op
  <1>8. CASE op.kind # "save"
    <2> HIDE DEF sv
    <2>1. stored' = kept BY <1>3, <1>4, <1>8
    <2>2. ASSUME Len(stored) <= MAX_SESSIONS PROVE Len(stored') <= MAX_SESSIONS
      <3>1. \A j \in DOMAIN stored : ~(j > MAX_SESSIONS) BY <1>1, <2>2
      <3> QED BY <1>1, <2>1, <3>1, WithoutShort
    <2> HIDE DEF kept, op
    <2> QED BY <1>4, <1>5, <1>8, <2>1, <2>2 DEF op
  <1> QED BY <1>7, <1>8

LEMMA WriteRestInv ==
    ASSUME RestInv, HistoryInv, NEW i \in DOMAIN ops, Write(i)
    PROVE  RestInv'
  <1> DEFINE op == ops[i]
             new == [op EXCEPT !.stage = "written"]
  <1>1. ops \in Seq(Op) /\ stored \in Seq(StoredSession) /\ DOMAIN ops = 1..Len(ops) /\ Len(ops) \in Nat
    BY DEF HistoryInv
  <1>2. op \in Op BY <1>1
  <1>3. /\ op.stage = "asked" /\ ops' = [ops EXCEPT ![i] = new]
        /\ \A j \in 1..(i - 1) : ops[j].stage # "asked"
        /\ UNCHANGED <<messages, active, sessions, ready, timer, odd>>
    BY DEF Write
  <1>4. /\ new.kind = op.kind /\ new.id = op.id /\ new.messages = op.messages /\ new.stage = "written"
    BY <1>2 DEF Op
  <1>5. /\ DOMAIN ops' = DOMAIN ops /\ ops'[i] = new /\ \A j \in DOMAIN ops : j # i => ops'[j] = ops[j]
        /\ ops' # <<>>
    <2>1. DOMAIN ops' = DOMAIN ops /\ ops'[i] = new /\ \A j \in DOMAIN ops : j # i => ops'[j] = ops[j]
      BY <1>1, <1>3
    <2>2. ops' # <<>> BY <2>1
    <2> QED BY <2>1, <2>2
  <1>6. \A j \in DOMAIN ops : j < i => ops[j].stage # "asked"
    BY <1>1, <1>3
  <1>7. \A j \in DOMAIN ops : i < j => ops[j].stage = "asked" BY <1>3 DEF RestInv, Ordered
  <1> HIDE DEF new, op
  <1>8. Ordered(ops') BY <1>1, <1>3, <1>4, <1>5, <1>6, <1>7 DEF RestInv, Ordered, op
  <1>9. /\ Distinct(stored')
        /\ \A s \in ToSet(stored') :
              \/ s \in ToSet(stored) /\ s.id # op.id
              \/ op.kind = "save" /\ s.id = op.id /\ s.messages = op.messages
        /\ op.kind # "save" /\ Len(stored) <= MAX_SESSIONS => Len(stored') <= MAX_SESSIONS
    BY Written DEF RestInv, op
  <1>10. ASSUME "refused" \notin odd
         PROVE  Covered(ops', stored') /\ Bounded(ops', stored') /\ Fresh(ops', stored', OnScreen', Settled')
    <2>0. Covered(ops, stored) /\ Bounded(ops, stored) /\ Fresh(ops, stored, OnScreen, Settled)
      BY <1>10 DEF RestInv
    <2>k. \A j \in DOMAIN ops : ops'[j].kind = ops[j].kind BY <1>4, <1>5 DEF op
    <2>1. ASSUME NEW j \in DOMAIN ops', ops'[j].stage = "read", NoSaveAfter(ops', j)
          PROVE  Shows(ops'[j].found, stored')
      <3>1. j # i BY <1>4, <1>5, <2>1
      <3>2. j < i /\ j \in DOMAIN ops /\ ops'[j] = ops[j]
        <4>1. j \in DOMAIN ops /\ ops'[j] = ops[j] /\ i \in Nat /\ j \in Nat BY <1>1, <1>5, <3>1
        <4>2. ~(i < j) BY <1>7, <2>1, <4>1
        <4> QED BY <3>1, <4>1, <4>2
      <3>3. NoSaveAfter(ops, j) BY <1>5, <2>1, <2>k DEF NoSaveAfter
      <3>4. op.kind # "save" BY <1>1, <3>2, <3>3 DEF NoSaveAfter, op
      <3>5. Shows(ops[j].found, stored) BY <2>0, <2>1, <3>2, <3>3 DEF Covered
      <3> QED BY <1>9, <3>2, <3>4, <3>5 DEF Shows
    <2>2. Covered(ops', stored') BY <2>1 DEF Covered
    <2>3. Bounded(ops', stored')
      <3> SUFFICES ASSUME \A j \in DOMAIN ops' : ops'[j].kind # "save"
                   PROVE  Len(stored') <= MAX_SESSIONS
        BY DEF Bounded
      <3>1. \A j \in DOMAIN ops : ops[j].kind # "save" BY <1>5, <2>k
      <3> QED BY <1>9, <2>0, <3>1 DEF Bounded, op
    <2>4. Settled' = Settled /\ OnScreen' = OnScreen BY <1>3 DEF Settled, OnScreen
    <2>5. \A id : \A j \in DOMAIN ops : SaveOf(ops'[j], id) <=> j # i /\ SaveOf(ops[j], id)
      BY <1>4, <1>5 DEF SaveOf
    <2>6. ASSUME Settled, NEW j \in DOMAIN ops', LastSaveOf(ops', j, OnScreen.id)
          PROVE  ops'[j].messages = OnScreen.messages
      <3>1. j \in DOMAIN ops /\ j # i /\ ops'[j] = ops[j] /\ SaveOf(ops[j], OnScreen.id)
        BY <1>5, <2>5, <2>6 DEF LastSaveOf
      <3>2. ~(j < i) BY <1>6, <3>1 DEF SaveOf
      <3>3. \A k \in DOMAIN ops : k > j => k # i BY <1>1, <3>1, <3>2
      <3>4. \A k \in DOMAIN ops : k > j => ~SaveOf(ops[k], OnScreen.id)
        BY <1>5, <2>5, <2>6, <3>3 DEF LastSaveOf
      <3> QED BY <2>0, <2>6, <3>1, <3>4 DEF Fresh, LastSaveOf
    <2>7. ASSUME Settled, \A j \in DOMAIN ops' : ~SaveOf(ops'[j], OnScreen.id),
                 NEW s \in ToSet(stored'), s.id = OnScreen.id
          PROVE  s.messages = OnScreen.messages
      <3>1. \A j \in DOMAIN ops : j # i => ~SaveOf(ops[j], OnScreen.id) BY <1>5, <2>5, <2>7
      <3>2. CASE s \in ToSet(stored) /\ s.id # op.id
        <4>1. ~SaveOf(ops[i], OnScreen.id) BY <2>7, <3>2 DEF SaveOf, op
        <4>2. \A j \in DOMAIN ops : ~SaveOf(ops[j], OnScreen.id) BY <3>1, <4>1
        <4> QED BY <2>0, <2>7, <3>2, <4>2 DEF Fresh
      <3>3. CASE op.kind = "save" /\ s.id = op.id /\ s.messages = op.messages
        <4>1. SaveOf(ops[i], OnScreen.id) BY <1>3, <2>7, <3>3 DEF SaveOf, op
        <4>2. \A j \in DOMAIN ops : j > i => j # i BY <1>1
        <4>3. LastSaveOf(ops, i, OnScreen.id) BY <3>1, <4>1, <4>2 DEF LastSaveOf
        <4> QED BY <2>0, <2>7, <3>3, <4>3 DEF Fresh, op
      <3> QED BY <1>9, <3>2, <3>3
    <2>8. Fresh(ops', stored', OnScreen', Settled') BY <2>4, <2>6, <2>7 DEF Fresh
    <2> QED BY <2>2, <2>3, <2>8
  <1> QED BY <1>3, <1>5, <1>8, <1>9, <1>10 DEF RestInv

LEMMA ReadRestInv ==
    ASSUME RestInv, HistoryInv, NEW i \in DOMAIN ops, getAllSessions(i)
    PROVE  RestInv'
  <1> DEFINE op == ops[i]
             list == [j \in DOMAIN stored |-> [stored[j] EXCEPT !.messages = sanitizeMessagesOnLoad(@)]]
             new == Found(op, list)
  <1>1. ops \in Seq(Op) /\ stored \in Seq(StoredSession) /\ DOMAIN ops = 1..Len(ops) /\ Len(ops) \in Nat
    BY DEF HistoryInv
  <1>2. op \in Op BY <1>1
  <1>3. Shows(list, stored)
    <2> SUFFICES ASSUME NEW s \in ToSet(stored) PROVE Sane(s) \in ToSet(list) BY DEF Shows
    <2>1. PICK j \in DOMAIN stored : s = stored[j] BY DEF ToSet
    <2>2. j \in DOMAIN list /\ list[j] = Sane(s) BY <2>1 DEF Sane
    <2> HIDE DEF list
    <2> QED BY <2>2 DEF ToSet
  <1>4. /\ op.stage = "written" /\ ops' = [ops EXCEPT ![i].stage = "read", ![i].found = list]
        /\ \A j \in 1..(i - 1) : ops[j].stage = "read"
        /\ UNCHANGED <<messages, active, sessions, stored, ready, timer, odd>>
    BY DEF getAllSessions
  <1> HIDE DEF list
  <1>5. ops' = [ops EXCEPT ![i] = new] BY <1>1, <1>4 DEF Found
  <1>6. /\ new.kind = op.kind /\ new.id = op.id /\ new.messages = op.messages
        /\ new.stage = "read" /\ new.found = list
    BY <1>2 DEF Op, Found
  <1> HIDE DEF new
  <1>7. /\ DOMAIN ops' = DOMAIN ops /\ ops'[i] = new /\ \A j \in DOMAIN ops : j # i => ops'[j] = ops[j]
        /\ ops' # <<>>
    <2>1. DOMAIN ops' = DOMAIN ops /\ ops'[i] = new /\ \A j \in DOMAIN ops : j # i => ops'[j] = ops[j]
      BY <1>1, <1>5
    <2>2. ops' # <<>> BY <2>1
    <2> QED BY <2>1, <2>2
  <1>8. \A j \in DOMAIN ops : j < i => ops[j].stage = "read" BY <1>1, <1>4
  <1> HIDE DEF op
  <1>9. Ordered(ops') BY <1>1, <1>4, <1>6, <1>7, <1>8 DEF RestInv, Ordered, op
  <1>10. ASSUME "refused" \notin odd
         PROVE  Covered(ops', stored) /\ Bounded(ops', stored) /\ Fresh(ops', stored, OnScreen', Settled')
    <2>0. Covered(ops, stored) /\ Bounded(ops, stored) /\ Fresh(ops, stored, OnScreen, Settled)
      BY <1>10 DEF RestInv
    <2>k. \A j \in DOMAIN ops : ops'[j].kind = ops[j].kind BY <1>6, <1>7 DEF op
    <2>1. ASSUME NEW j \in DOMAIN ops', ops'[j].stage = "read", NoSaveAfter(ops', j)
          PROVE  Shows(ops'[j].found, stored)
      <3>1. CASE j = i BY <1>3, <1>6, <1>7, <3>1
      <3>2. CASE j # i
        <4>1. NoSaveAfter(ops, j) BY <1>7, <2>1, <2>k DEF NoSaveAfter
        <4> QED BY <1>7, <2>0, <2>1, <3>2, <4>1 DEF Covered
      <3> QED BY <3>1, <3>2
    <2>2. Covered(ops', stored) BY <2>1 DEF Covered
    <2>3. Bounded(ops', stored) BY <1>7, <2>0, <2>k DEF Bounded
    <2>4. Settled' = Settled /\ OnScreen' = OnScreen BY <1>4 DEF Settled, OnScreen
    <2>5. \A id : \A j \in DOMAIN ops : SaveOf(ops'[j], id) <=> SaveOf(ops[j], id)
      BY <1>4, <1>6, <1>7 DEF SaveOf, op
    <2>6. \A j \in DOMAIN ops : ops'[j].messages = ops[j].messages BY <1>6, <1>7 DEF op
    <2>7. \A id : \A j \in DOMAIN ops : LastSaveOf(ops', j, id) => LastSaveOf(ops, j, id)
      BY <1>7, <2>5 DEF LastSaveOf
    <2>8. Fresh(ops', stored, OnScreen', Settled')
      BY <1>7, <2>0, <2>4, <2>5, <2>6, <2>7 DEF Fresh
    <2> QED BY <2>2, <2>3, <2>8
  <1> QED BY <1>4, <1>7, <1>9, <1>10 DEF RestInv

\* The oldest operation leaves; the others stay in their order.
LEMMA Left ==
    ASSUME NEW q \in Seq(Op), q # <<>>
    PROVE  /\ Tail(q) \in Seq(Op) /\ Head(q) = q[1] /\ q[1] \in Op /\ 1 \in DOMAIN q
           /\ \A i \in DOMAIN Tail(q) : i + 1 \in DOMAIN q /\ i + 1 > 1 /\ Tail(q)[i] = q[i + 1]
           /\ \A i \in DOMAIN q : i # 1 => i - 1 \in DOMAIN Tail(q) /\ Tail(q)[i - 1] = q[i]
           /\ DOMAIN q \subseteq Nat /\ DOMAIN Tail(q) \subseteq Nat
  <1>1. /\ Len(q) \in Nat /\ Len(q) >= 1 /\ DOMAIN q = 1..Len(q)
        /\ Tail(q) \in Seq(Op) /\ Len(Tail(q)) = Len(q) - 1
        /\ DOMAIN Tail(q) = 1..(Len(q) - 1) /\ \A i \in 1..(Len(q) - 1) : Tail(q)[i] = q[i + 1]
    OBVIOUS
  <1>2. Head(q) = q[1] /\ 1 \in DOMAIN q /\ q[1] \in Op BY <1>1
  <1>3. \A i \in DOMAIN Tail(q) : i + 1 \in DOMAIN q /\ i + 1 > 1 /\ Tail(q)[i] = q[i + 1] BY <1>1
  <1>4. \A i \in DOMAIN q : i # 1 => i - 1 \in DOMAIN Tail(q) /\ Tail(q)[i - 1] = q[i]
    <2> SUFFICES ASSUME NEW i \in DOMAIN q, i # 1
                 PROVE  i - 1 \in DOMAIN Tail(q) /\ Tail(q)[i - 1] = q[i]
      OBVIOUS
    <2>1. i - 1 \in 1..(Len(q) - 1) /\ (i - 1) + 1 = i BY <1>1
    <2> QED BY <1>1, <2>1
  <1> QED BY <1>1, <1>2, <1>3, <1>4

\* What held of the operations and the database holds when the oldest has left and conversations
\* have been taken out.
LEMMA LeftRestInv ==
    ASSUME NEW q \in Seq(Op), q # <<>>, q[1].stage # "asked", NEW db, NEW db2,
           ToSet(db2) \subseteq ToSet(db), NEW now, NEW settled \in BOOLEAN,
           Covered(q, db), Fresh(q, db, now, settled)
    PROVE  Covered(Tail(q), db2) /\ Fresh(Tail(q), db2, now, settled)
  <1> DEFINE t == Tail(q)
  <1>1. /\ \A i \in DOMAIN t : i + 1 \in DOMAIN q /\ t[i] = q[i + 1]
        /\ \A i \in DOMAIN q : i # 1 => i - 1 \in DOMAIN t /\ t[i - 1] = q[i]
        /\ DOMAIN q \subseteq Nat /\ DOMAIN t \subseteq Nat /\ 1 \in DOMAIN q
    BY Left
  <1> HIDE DEF t
  <1>2. ASSUME NEW i \in DOMAIN t, NEW j \in DOMAIN q, j > i + 1
        PROVE  j - 1 \in DOMAIN t /\ j - 1 > i /\ t[j - 1] = q[j]
    <2>1. i \in Nat /\ j \in Nat BY <1>1
    <2>2. j # 1 /\ j - 1 > i BY <1>2, <2>1
    <2> QED BY <1>1, <2>2
  <1>3. \A i \in DOMAIN t : NoSaveAfter(t, i) => NoSaveAfter(q, i + 1)
    BY <1>2 DEF NoSaveAfter
  <1>4. \A id : \A i \in DOMAIN t : LastSaveOf(t, i, id) => LastSaveOf(q, i + 1, id)
    BY <1>1, <1>2 DEF LastSaveOf
  <1>5. \A id : (\A i \in DOMAIN t : ~SaveOf(t[i], id)) => \A i \in DOMAIN q : ~SaveOf(q[i], id)
    <2> SUFFICES ASSUME NEW id, \A i \in DOMAIN t : ~SaveOf(t[i], id), NEW i \in DOMAIN q
                 PROVE  ~SaveOf(q[i], id)
      OBVIOUS
    <2>1. CASE i = 1 BY <2>1 DEF SaveOf
    <2>2. CASE i # 1 BY <1>1, <2>2
    <2> QED BY <2>1, <2>2
  <1>6. Covered(t, db2)
    <2> SUFFICES ASSUME NEW i \in DOMAIN t, t[i].stage = "read", NoSaveAfter(t, i)
                 PROVE  Shows(t[i].found, db2)
      BY DEF Covered
    <2>1. i + 1 \in DOMAIN q /\ t[i] = q[i + 1] /\ NoSaveAfter(q, i + 1) BY <1>1, <1>3
    <2>2. Shows(q[i + 1].found, db) BY <2>1 DEF Covered
    <2> QED BY <2>1, <2>2 DEF Shows
  <1>7. Fresh(t, db2, now, settled)
    <2> SUFFICES ASSUME settled
                 PROVE  /\ \A i \in DOMAIN t : LastSaveOf(t, i, now.id) => t[i].messages = now.messages
                        /\ (\A i \in DOMAIN t : ~SaveOf(t[i], now.id))
                              => \A s \in ToSet(db2) : s.id = now.id => s.messages = now.messages
      BY DEF Fresh
    <2>1. \A i \in DOMAIN t : LastSaveOf(t, i, now.id) => t[i].messages = now.messages
      BY <1>1, <1>4 DEF Fresh
    <2>2. (\A i \in DOMAIN t : ~SaveOf(t[i], now.id))
             => \A s \in ToSet(db2) : s.id = now.id => s.messages = now.messages
      BY <1>5 DEF Fresh
    <2> QED BY <2>1, <2>2
  <1> QED BY <1>6, <1>7 DEF t

\* The oldest operation leaves the others in order.
LEMMA LeftOrdered ==
    ASSUME HistoryInv, Ordered(ops), ops # <<>>, ops' = Tail(ops)
    PROVE  Ordered(ops')
  <1>1. ops \in Seq(Op) BY DEF HistoryInv
  <1>2. /\ \A i \in DOMAIN ops' : i + 1 \in DOMAIN ops /\ ops'[i] = ops[i + 1]
        /\ DOMAIN ops' \subseteq Nat
    BY <1>1, Left
  <1>3. \A i, j \in DOMAIN ops' : i < j => i + 1 < j + 1 BY <1>2
  <1> QED BY <1>2, <1>3 DEF Ordered

\* The end of an operation: it takes out of the database what it has read beyond MAX_SESSIONS.
LEMMA DeliverRestInv ==
    ASSUME RestInv, HistoryInv, Deliver
    PROVE  RestInv'
  <1> DEFINE op == Head(ops)
             gone == Evicted(op)
  <1>1. /\ ops \in Seq(Op) /\ stored \in Seq(StoredSession) /\ MAX_SESSIONS \in Nat
    BY PlaygroundAssumption DEF HistoryInv
  <1>2. /\ ops # <<>> /\ op.stage = "read" /\ ops' = Tail(ops) /\ ready' = TRUE /\ odd' = odd
        /\ stored' = Without(stored, gone) /\ sessions' = Without(op.found, gone)
    BY DEF Deliver
  <1>3. op = ops[1] /\ op \in Op /\ 1 \in DOMAIN ops /\ DOMAIN ops \subseteq Nat
    BY <1>1, <1>2, Left
  <1>l. \A j \in DOMAIN ops : j # 1 => j - 1 \in DOMAIN ops' /\ ops'[j - 1] = ops[j]
    BY <1>1, <1>2, Left
  <1>4. /\ stored' \in Seq(StoredSession) /\ Distinct(stored')
        /\ \A s \in ToSet(stored') : s \in ToSet(stored) /\ s.id \notin gone
    BY <1>1, <1>2, WithoutTyped, WithoutDistinct, WithoutFrom DEF RestInv
  <1>5. Ordered(ops') BY <1>2, LeftOrdered DEF RestInv
  <1>6. op.found \in Seq(ShownSession) BY <1>3 DEF Op
  <1>7. \A s \in ToSet(stored) : Sane(s).id = s.id
    <2>1. \A s \in StoredSession : Sane(s).id = s.id BY DEF StoredSession, Sane
    <2> QED BY <1>1, <2>1 DEF ToSet
  <1> HIDE DEF op
  <1>8. ASSUME "refused" \notin odd
        PROVE  /\ ops' = <<>> => Shows(sessions', stored')
               /\ Covered(ops', stored') /\ Bounded(ops', stored')
               /\ Fresh(ops', stored', OnScreen', Settled')
    <2>0. Covered(ops, stored) /\ Bounded(ops, stored) /\ Fresh(ops, stored, OnScreen, Settled)
      BY <1>8 DEF RestInv
    <2>1. (\A j \in DOMAIN ops' : ops'[j].kind # "save") => NoSaveAfter(ops, 1)
      <3> SUFFICES ASSUME \A j \in DOMAIN ops' : ops'[j].kind # "save",
                          NEW j \in DOMAIN ops, j > 1
                   PROVE  ops[j].kind # "save"
        BY DEF NoSaveAfter
      <3>1. j # 1 BY <1>3
      <3> QED BY <1>l, <3>1
    <2>2. NoSaveAfter(ops, 1) => Shows(op.found, stored) BY <1>2, <1>3, <2>0 DEF Covered
    <2>3. ASSUME ops' = <<>> PROVE Shows(sessions', stored')
      <3>1. DOMAIN ops' = {} BY <2>3
      <3>2. Shows(op.found, stored) BY <2>1, <2>2, <3>1
      <3> SUFFICES ASSUME NEW s \in ToSet(stored') PROVE Sane(s) \in ToSet(sessions')
        BY DEF Shows
      <3>3. s \in ToSet(stored) /\ s.id \notin gone BY <1>4
      <3>4. PICK k \in DOMAIN op.found : op.found[k] = Sane(s) BY <3>2, <3>3 DEF Shows, ToSet
      <3>5. op.found[k].id \notin gone BY <1>7, <3>3, <3>4
      <3> HIDE DEF gone
      <3> QED BY <1>2, <1>6, <3>4, <3>5, WithoutKeeps
    <2>4. Bounded(ops', stored')
      <3> SUFFICES ASSUME \A j \in DOMAIN ops' : ops'[j].kind # "save"
                   PROVE  Len(stored') <= MAX_SESSIONS
        BY DEF Bounded
      <3>1. Shows(op.found, stored) BY <2>1, <2>2
      <3>2. CASE op.kind = "save"
        <4>1. gone = {op.found[j].id : j \in (MAX_SESSIONS + 1)..Len(op.found)}
          BY <3>2 DEF Evicted
        <4> HIDE DEF gone
        <4>2. ASSUME NEW j \in DOMAIN stored'
              PROVE  \E k \in 1..MAX_SESSIONS : op.found[k].id = stored'[j].id
          <5>1. stored'[j] \in ToSet(stored') BY DEF ToSet
          <5>2. stored'[j] \in ToSet(stored) /\ stored'[j].id \notin gone BY <1>4, <5>1
          <5>3. PICK k \in DOMAIN op.found : op.found[k] = Sane(stored'[j])
            BY <3>1, <5>2 DEF Shows, ToSet
          <5>4. op.found[k].id = stored'[j].id BY <1>7, <5>2, <5>3
          <5>5. k \in 1..Len(op.found) /\ Len(op.found) \in Nat BY <1>6
          <5>6. k \notin (MAX_SESSIONS + 1)..Len(op.found) BY <4>1, <5>2, <5>4
          <5>7. k \in 1..MAX_SESSIONS BY <1>1, <5>5, <5>6
          <5> QED BY <5>4, <5>7
        <4>3. ASSUME NEW list, \A j \in DOMAIN stored' : \E k \in 1..MAX_SESSIONS : list[k].id = stored'[j].id
              PROVE  Len(stored') <= MAX_SESSIONS
          BY <1>1, <1>4, <4>3, AmongFirst
        <4> QED BY <4>2, <4>3
      <3>3. CASE op.kind # "save"
        <4>1. \A i \in DOMAIN ops : ops[i].kind # "save"
          <5> SUFFICES ASSUME NEW i \in DOMAIN ops PROVE ops[i].kind # "save" OBVIOUS
          <5>1. CASE i = 1 BY <1>3, <3>3, <5>1
          <5>2. CASE i # 1 BY <1>l, <5>2
          <5> QED BY <5>1, <5>2
        <4>2. Len(stored) <= MAX_SESSIONS BY <2>0, <4>1 DEF Bounded
        <4>3. \A j \in DOMAIN stored : ~(j > MAX_SESSIONS) BY <1>1, <4>2
        <4> HIDE DEF gone
        <4> QED BY <1>1, <1>2, <4>3, WithoutShort
      <3> QED BY <3>2, <3>3
    <2>5. Settled' => Settled /\ OnScreen' = OnScreen
      <3> SUFFICES ASSUME Settled' PROVE Settled /\ OnScreen' = OnScreen OBVIOUS
      <3>1. ~op.wasActive
        <4>1. ASSUME op.wasActive PROVE FALSE
          <5>1. messages' = <<>> BY <4>1 DEF Deliver, NewChat, Render, op
          <5> QED BY <5>1 DEF Settled
        <4> QED BY <4>1
      <3>2. UNCHANGED <<messages, active>> /\ timer' = (timer \/ (~ready /\ messages # <<>>))
        BY <3>1 DEF Deliver, op
      <3> QED BY <3>2 DEF Settled, OnScreen
    <2>6. Covered(ops', stored') /\ Fresh(ops', stored', OnScreen, Settled)
      <3>1. Settled \in BOOLEAN BY DEF Settled, RestInv
      <3>2. ToSet(stored') \subseteq ToSet(stored) BY <1>4
      <3>3. ops[1].stage # "asked" BY <1>2, <1>3
      <3> QED BY <1>1, <1>2, <2>0, <3>1, <3>2, <3>3, LeftRestInv
    <2>7. Fresh(ops', stored', OnScreen', Settled') BY <2>5, <2>6 DEF Fresh
    <2> QED BY <2>3, <2>4, <2>6, <2>7
  <1> QED BY <1>2, <1>4, <1>5, <1>8 DEF RestInv

LEMMA StorageRestInv ==
    ASSUME RestInv, ScreenInv, HistoryInv, Storage
    PROVE  RestInv'
  <1>1. CASE SaveTimer
    <2> DEFINE op == Asked("save", active, messages, FALSE)
    <2>1. ops' = Append(ops, op) /\ UNCHANGED <<messages, active, stored, ready, odd>>
      BY <1>1 DEF SaveTimer, Asked
    <2>2. op.stage = "asked" /\ op.kind = "save" /\ op.id = active /\ op.messages = messages
      BY DEF Asked
    <2>3. op \in Op
      <3>1. messages \in Chat /\ active \in 1..MaxIds BY FitsChat DEF ScreenInv, HistoryInv
      <3> QED BY <3>1, OpTyped
    <2> HIDE DEF op
    <2> QED BY <2>1, <2>2, <2>3, AskedRestInv
  <1>2. CASE Deliver BY <1>2, DeliverRestInv
  <1>3. CASE Refuse
    <2>1. /\ ops # <<>> /\ ops' = Tail(ops) /\ ready' = TRUE /\ "refused" \in odd'
          /\ UNCHANGED stored
      BY <1>3 DEF Refuse
    <2>2. Ordered(ops') BY <2>1, LeftOrdered DEF RestInv
    <2> QED BY <2>1, <2>2 DEF RestInv
  <1>4. ASSUME NEW i \in DOMAIN ops, Write(i) \/ getAllSessions(i) PROVE RestInv'
    BY <1>4, WriteRestInv, ReadRestInv
  <1> QED BY <1>1, <1>2, <1>3, <1>4 DEF Storage

\* Once its operations are done the database keeps at most MAX_SESSIONS conversations, the history
\* list shows them all, and, when no save is due, none is an older version of what is on screen
\* (savePlaygroundSession, deletePlaygroundSession, the save effect of index.tsx): however many
\* saves, evictions and deletions overlap, as long as IndexedDB refuses nothing.
THEOREM HistoryAtRest ==
    ASSUME UserWaits
    PROVE  Spec => []HistoryAgrees
  <1>1. Init => RestInv
    <2> SUFFICES ASSUME Init PROVE RestInv OBVIOUS
    <2> DEFINE op == [kind |-> "load", id |-> 1, messages |-> <<>>, wasActive |-> FALSE,
                      stage |-> "written", found |-> <<>>]
    <2>1. ops = <<op>> /\ ready = FALSE /\ stored = <<>> BY DEF Init
    <2>2. op.stage = "written" OBVIOUS
    <2> HIDE DEF op
    <2>3. DOMAIN ops = {1} /\ ops[1].stage = "written" /\ ops # <<>>
      <3>1. DOMAIN ops = 1..1 /\ ops[1] = op /\ ops # <<>> BY <2>1
      <3>2. 1..1 = {1} OBVIOUS
      <3> QED BY <2>2, <3>1, <3>2
    <2>4. Ordered(ops) BY <2>3 DEF Ordered
    <2>5. Distinct(stored) /\ Bounded(ops, stored)
      BY <2>1, PlaygroundAssumption DEF Distinct, Bounded
    <2>6. Covered(ops, stored) BY <2>3 DEF Covered
    <2>7. Fresh(ops, stored, OnScreen, Settled) BY <2>1 DEF Fresh, Settled
    <2> QED BY <2>1, <2>3, <2>4, <2>5, <2>6, <2>7 DEF RestInv
  <1>2. ASSUME CInv, RestInv, [Next]_vars PROVE RestInv'
    <2>1. HistoryInv /\ ScreenInv BY <1>2 DEF CInv
    <2>2. CASE StreamEvent BY <1>2, <2>2, StreamRestInv DEF StreamEvent
    <2>3. CASE Click BY <1>2, <2>1, <2>3, ClickRestInv
    <2>4. CASE Storage BY <1>2, <2>1, <2>4, StorageRestInv
    <2>5. CASE UNCHANGED vars BY <1>2, <2>5 DEF vars, RestInv, Settled, OnScreen
    <2> QED BY <1>2, <2>2, <2>3, <2>4, <2>5 DEF Next
  <1>3. ASSUME RestInv PROVE HistoryAgrees
    <2> SUFFICES ASSUME ops = <<>>, "refused" \notin odd
                 PROVE  /\ Len(stored) <= MAX_SESSIONS
                        /\ \A s \in ToSet(stored) :
                              /\ Sane(s) \in ToSet(sessions)
                              /\ Settled /\ s.id = active => s.messages = messages
      BY DEF HistoryAgrees, Sane, Settled
    <2>1. DOMAIN ops = {} OBVIOUS
    <2>2. Shows(sessions, stored) /\ Bounded(ops, stored) /\ Fresh(ops, stored, OnScreen, Settled)
      BY <1>3 DEF RestInv
    <2>3. OnScreen.id = active /\ OnScreen.messages = messages BY DEF OnScreen
    <2> QED BY <2>1, <2>2, <2>3 DEF Shows, Bounded, Fresh
  <1>4. CInv /\ RestInv /\ [Next]_vars => RestInv' BY <1>2
  <1>5. RestInv => HistoryAgrees BY <1>3
  <1> QED BY <1>1, <1>4, <1>5, ConversationsKept, PTL DEF Spec
=============================================================================
