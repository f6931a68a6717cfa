--------------------------- MODULE NoteRoomProofs ---------------------------
EXTENDS NoteRoom, TLAPS

(* Types *)

\* What run() takes from the broadcast channel is a frame some client sent.
LEMMA ReceivedFrame ==
  ASSUME TypeOK, NEW r \in Rooms, NEW kinds, Receive(r, kinds)
  PROVE  /\ Head(broadcast[r]) \in Frame
         /\ Tail(broadcast[r]) \in Seq(Frame)
         /\ Head(broadcast[r]).kind \in kinds
  BY DEF TypeOK, HubTypeOK, Receive

\* A frame of an edit carries the number of the edit.
LEMMA EditFrames ==
  ASSUME NEW f \in Frame, f.kind \in EditKinds
  PROVE  f \in EditFrame
  BY DEF Frame, EditFrame, PrivateFrame, EditKinds, PrivateKinds

\* What a client sends is a frame.
LEMMA SentFrame ==
  ASSUME TypeOK, NEW c \in Clients
  PROVE  /\ \A kind \in Kinds \intersect EditKinds, block \in Blocks :
              sent < MaxEdits =>
                [kind |-> kind, by |-> c, edit |-> sent + 1, block |-> block]
                  \in Frame
         /\ \A kind \in Kinds \intersect PrivateKinds :
              [kind |-> kind, by |-> c, edit |-> 0,
               block |-> CHOOSE b \in Blocks : TRUE] \in Frame
  BY RoomsAssumption, CapsAssumption
  DEF TypeOK, WireTypeOK, Frame, EditFrame, PrivateFrame, Edits

\* Merging an edit into a document gives a document.
LEMMA MergedTyped ==
  ASSUME NEW value \in Document, NEW f \in EditFrame
  PROVE  Merged(value, f) \in Document
<1>1. f.kind \in EditKinds /\ f.edit \in Edits /\ f.block \in Blocks
  BY DEF EditFrame
<1> QED
  BY <1>1 DEF Document, Merged, EditKinds


\* Arming the debounce timer.
LEMMA DebounceTyped ==
  ASSUME ContentTypeOK, NEW r \in Rooms, Debounce(r)
  PROVE  flushTimer' \in [Rooms -> BOOLEAN] /\ timers' \in [Rooms -> Nat]
<1>1. flushTimer' \in [Rooms -> BOOLEAN]
  BY DEF Debounce, ContentTypeOK
<1>2. CASE flushTimer[r]
  BY <1>1, <1>2 DEF Debounce, ContentTypeOK
<1>3. CASE ~flushTimer[r]
  BY <1>1, <1>3 DEF Debounce, ContentTypeOK
<1> QED
  BY <1>2, <1>3

\* Every step keeps the map, the loops and the channels in their types.
LEMMA HubInductive ==
  ASSUME TypeOK, [Next]_vars
  PROVE  HubTypeOK'
<1>1. ASSUME NEW c \in Clients, NEW r \in Rooms, FindRoom(c, r)
      PROVE  HubTypeOK'
  BY <1>1
  DEF FindRoom, Attach, loopVars, channels, content, wires, tables, history,
      TypeOK, HubTypeOK
<1>2. ASSUME NEW c \in Clients, NEW r \in Rooms,
             NEW hydrated \in {state, Empty}, CreateRoom(c, r, hydrated)
      PROVE  HubTypeOK'
  BY <1>2
  DEF CreateRoom, Attach, NoRoomYet, loopVars, channels, content, wires,
      tables, history, TypeOK, HubTypeOK
<1>3. ASSUME NEW c \in Clients, Join(c)
      PROVE  HubTypeOK'
  BY <1>3
  DEF Join, loopVars, channels, content, wires, tables, history, TypeOK,
      HubTypeOK, WireTypeOK
<1>4. ASSUME NEW c \in Clients, NEW kind \in Kinds \intersect EditKinds,
             NEW block \in Blocks, SendEdit(c, kind, block)
      PROVE  HubTypeOK'
  BY <1>4, CapsAssumption, SentFrame
  DEF SendEdit, Enqueue, loopVars, channels, content, wires, tables, history,
      TypeOK, HubTypeOK, WireTypeOK
<1>5. ASSUME NEW c \in Clients, NEW kind \in Kinds \intersect PrivateKinds,
             SendPrivate(c, kind)
      PROVE  HubTypeOK'
  BY <1>5, RoomsAssumption, SentFrame
  DEF SendPrivate, Enqueue, loopVars, channels, content, wires, tables,
      history, TypeOK, HubTypeOK, WireTypeOK
<1>6. ASSUME NEW c \in Clients, Disconnect(c)
      PROVE  HubTypeOK'
  BY <1>6
  DEF Disconnect, loopVars, channels, content, wires, tables, history, TypeOK,
      HubTypeOK, WireTypeOK
<1>7. ASSUME NEW r \in Rooms, NEW c \in Clients, RegisterClient(r, c)
      PROVE  HubTypeOK'
  BY <1>7
  DEF RegisterClient, Selecting, loopVars, channels, content, wires, tables,
      history, TypeOK, HubTypeOK
<1>8. ASSUME NEW r \in Rooms, NEW c \in Clients, IgnoreLeave(r, c)
      PROVE  HubTypeOK'
  BY <1>8
  DEF IgnoreLeave, Selecting, loopVars, channels, content, wires, tables,
      history, TypeOK, HubTypeOK
<1>9. ASSUME NEW r \in Rooms, NEW c \in Clients,
             NEW slow \in SUBSET clients[r], RemoveClient(r, c, slow)
      PROVE  HubTypeOK'
  BY <1>9
  DEF RemoveClient, Selecting, Others, loopVars, channels, content, wires,
      tables, history, TypeOK, HubTypeOK
<1>10. ASSUME NEW r \in Rooms, NEW slow \in SUBSET clients[r],
             Identify(r, slow)
      PROVE  HubTypeOK'
  BY <1>10
  DEF Identify, Receive, Selecting, FanOut, Others, loopVars, channels,
      content, wires, tables, history, TypeOK, HubTypeOK
<1>11. ASSUME NEW r \in Rooms, NEW slow \in SUBSET clients[r],
             Cursor(r, slow)
      PROVE  HubTypeOK'
  BY <1>11
  DEF Cursor, Receive, Selecting, FanOut, Others, loopVars, channels, content,
      wires, tables, history, TypeOK, HubTypeOK
<1>12. ASSUME NEW r \in Rooms, NEW slow \in SUBSET clients[r],
             EditDebounced(r, slow)
      PROVE  HubTypeOK'
  BY <1>12
  DEF EditDebounced, Receive, Selecting, Merge, Debounce, FanOutEdit, FanOut,
      Others, loopVars, channels, content, wires, tables, history, TypeOK,
      HubTypeOK
<1>13. ASSUME NEW r \in Rooms, NEW slow \in SUBSET clients[r],
             FanOutHand(r, slow)
      PROVE  HubTypeOK'
  BY <1>13
  DEF FanOutHand, FanOutEdit, FanOut, Others, loopVars, channels, content,
      wires, tables, history, TypeOK, HubTypeOK
<1>14. ASSUME NEW r \in Rooms, EditFlushed(r)
      PROVE  HubTypeOK'
  BY <1>14, ReceivedFrame, EditFrames
  DEF EditFlushed, Receive, Selecting, Merge, Debounce, loopVars, channels,
      content, wires, tables, history, TypeOK, HubTypeOK
<1>15. ASSUME NEW r \in Rooms, LoopFlush(r)
      PROVE  HubTypeOK'
  BY <1>15
  DEF LoopFlush, TakeBuffer, loopVars, channels, content, wires, tables,
      history, TypeOK, HubTypeOK
<1>16. ASSUME NEW r \in Rooms, Close(r)
      PROVE  HubTypeOK'
  BY <1>16
  DEF Close, loopVars, channels, content, wires, tables, history, TypeOK,
      HubTypeOK
<1>17. ASSUME NEW r \in Rooms, TimerFires(r)
      PROVE  HubTypeOK'
  BY <1>17
  DEF TimerFires, TimerArmed, TakeBuffer, loopVars, channels, content, wires,
      tables, history, TypeOK, HubTypeOK
<1>18. ASSUME NEW f \in flights, AppendUpdates(f)
      PROVE  HubTypeOK'
  BY <1>18
  DEF AppendUpdates, loopVars, channels, content, wires, tables, history,
      TypeOK, HubTypeOK
<1>19. ASSUME NEW f \in flights, UpsertState(f)
      PROVE  HubTypeOK'
  BY <1>19
  DEF UpsertState, Return, loopVars, channels, content, wires, tables,
      history, TypeOK, HubTypeOK, ContentTypeOK, Flush
<1>20. ASSUME NEW f \in flights, AppendFails(f)
      PROVE  HubTypeOK'
  BY <1>20
  DEF AppendFails, Return, loopVars, channels, content, wires, tables,
      history, TypeOK, HubTypeOK, ContentTypeOK, Flush
<1>21. ASSUME NEW f \in flights, UpsertFails(f)
      PROVE  HubTypeOK'
  BY <1>21
  DEF UpsertFails, Return, loopVars, channels, content, wires, tables,
      history, TypeOK, HubTypeOK, ContentTypeOK, Flush
<1>22. ASSUME Shutdown
      PROVE  HubTypeOK'
  BY <1>22
  DEF Shutdown, TakeBuffer, loopVars, channels, content, wires, tables,
      history, TypeOK, HubTypeOK
<1>23. ASSUME EndProcess
      PROVE  HubTypeOK'
  BY <1>23
  DEF EndProcess, loopVars, channels, content, wires, tables, history, TypeOK,
      HubTypeOK
<1>24. ASSUME UNCHANGED vars
      PROVE  HubTypeOK'
  BY <1>24
  DEF vars, vars, loopVars, channels, content, wires, tables, history, TypeOK,
      HubTypeOK
<1> QED
  BY <1>1, <1>2, <1>3, <1>4, <1>5, <1>6, <1>7, <1>8, <1>9, <1>10, <1>11,
     <1>12, <1>13, <1>14, <1>15, <1>16, <1>17, <1>18, <1>19, <1>20, <1>21,
     <1>22, <1>23, <1>24
  DEF Next, Connection, Run, Write, Exit, Crash, HydrateFails

\* Every step keeps the documents, the timers and the tables in their types.
LEMMA ContentInductive ==
  ASSUME TypeOK, [Next]_vars
  PROVE  ContentTypeOK'
<1>1. ASSUME NEW c \in Clients, NEW r \in Rooms, FindRoom(c, r)
      PROVE  ContentTypeOK'
  BY <1>1
  DEF FindRoom, Attach, loopVars, channels, content, wires, tables, history,
      TypeOK, ContentTypeOK
<1>2. ASSUME NEW c \in Clients, NEW r \in Rooms,
             NEW hydrated \in {state, Empty}, CreateRoom(c, r, hydrated)
      PROVE  ContentTypeOK'
  BY <1>2
  DEF CreateRoom, Attach, NoRoomYet, loopVars, channels, content, wires,
      tables, history, TypeOK, ContentTypeOK, Document, Empty
<1>3. ASSUME NEW c \in Clients, Join(c)
      PROVE  ContentTypeOK'
  BY <1>3
  DEF Join, loopVars, channels, content, wires, tables, history, TypeOK,
      ContentTypeOK
<1>4. ASSUME NEW c \in Clients, NEW kind \in Kinds \intersect EditKinds,
             NEW block \in Blocks, SendEdit(c, kind, block)
      PROVE  ContentTypeOK'
  BY <1>4
  DEF SendEdit, Enqueue, loopVars, channels, content, wires, tables, history,
      TypeOK, ContentTypeOK
<1>5. ASSUME NEW c \in Clients, NEW kind \in Kinds \intersect PrivateKinds,
             SendPrivate(c, kind)
      PROVE  ContentTypeOK'
  BY <1>5
  DEF SendPrivate, Enqueue, loopVars, channels, content, wires, tables,
      history, TypeOK, ContentTypeOK
<1>6. ASSUME NEW c \in Clients, Disconnect(c)
      PROVE  ContentTypeOK'
  BY <1>6
  DEF Disconnect, loopVars, channels, content, wires, tables, history, TypeOK,
      ContentTypeOK
<1>7. ASSUME NEW r \in Rooms, NEW c \in Clients, RegisterClient(r, c)
      PROVE  ContentTypeOK'
  BY <1>7
  DEF RegisterClient, Selecting, loopVars, channels, content, wires, tables,
      history, TypeOK, ContentTypeOK
<1>8. ASSUME NEW r \in Rooms, NEW c \in Clients, IgnoreLeave(r, c)
      PROVE  ContentTypeOK'
  BY <1>8
  DEF IgnoreLeave, Selecting, loopVars, channels, content, wires, tables,
      history, TypeOK, ContentTypeOK
<1>9. ASSUME NEW r \in Rooms, NEW c \in Clients,
             NEW slow \in SUBSET clients[r], RemoveClient(r, c, slow)
      PROVE  ContentTypeOK'
  BY <1>9
  DEF RemoveClient, Selecting, Others, loopVars, channels, content, wires,
      tables, history, TypeOK, ContentTypeOK
<1>10. ASSUME NEW r \in Rooms, NEW slow \in SUBSET clients[r],
             Identify(r, slow)
      PROVE  ContentTypeOK'
  BY <1>10
  DEF Identify, Receive, Selecting, FanOut, Others, loopVars, channels,
      content, wires, tables, history, TypeOK, ContentTypeOK
<1>11. ASSUME NEW r \in Rooms, NEW slow \in SUBSET clients[r],
             Cursor(r, slow)
      PROVE  ContentTypeOK'
  BY <1>11
  DEF Cursor, Receive, Selecting, FanOut, Others, loopVars, channels, content,
      wires, tables, history, TypeOK, ContentTypeOK
<1>12. ASSUME NEW r \in Rooms, NEW slow \in SUBSET clients[r],
             EditDebounced(r, slow)
      PROVE  ContentTypeOK'
  <2> DEFINE frame == Head(broadcast[r])
  <2>1. frame \in EditFrame
    BY <1>12, ReceivedFrame, EditFrames DEF EditDebounced
  <2>2. Merged(currentValue[r], frame) \in Document /\ frame.edit \in Edits
    BY <2>1, MergedTyped DEF TypeOK, ContentTypeOK, EditFrame
  <2> HIDE DEF frame
  <2>3. Merge(r, frame)
    BY <1>12 DEF EditDebounced, frame
  <2>4. \/ Debounce(r) \/ UNCHANGED <<flushTimer, timers>>
    BY <1>12 DEF EditDebounced, frame
  <2>5. currentValue' \in [Rooms -> Document]
    BY <2>2, <2>3 DEF Merge, TypeOK, ContentTypeOK
  <2>6. buffer' \in [Rooms -> SUBSET Edits]
    BY <2>2, <2>3 DEF Merge, TypeOK, ContentTypeOK
  <2>7. flushTimer' \in [Rooms -> BOOLEAN] /\ timers' \in [Rooms -> Nat]
    BY <2>4, DebounceTyped DEF TypeOK, ContentTypeOK
  <2>8. flights' = flights /\ state' = state /\ log' = log
    BY <1>12 DEF EditDebounced, tables
  <2> QED
    BY <2>5, <2>6, <2>7, <2>8 DEF TypeOK, ContentTypeOK
<1>13. ASSUME NEW r \in Rooms, NEW slow \in SUBSET clients[r],
             FanOutHand(r, slow)
      PROVE  ContentTypeOK'
  BY <1>13
  DEF FanOutHand, FanOutEdit, FanOut, Others, loopVars, channels, content,
      wires, tables, history, TypeOK, ContentTypeOK
<1>14. ASSUME NEW r \in Rooms, EditFlushed(r)
      PROVE  ContentTypeOK'
  <2> DEFINE frame == Head(broadcast[r])
  <2>1. frame \in EditFrame
    BY <1>14, ReceivedFrame, EditFrames DEF EditFlushed
  <2>2. Merged(currentValue[r], frame) \in Document /\ frame.edit \in Edits
    BY <2>1, MergedTyped DEF TypeOK, ContentTypeOK, EditFrame
  <2> HIDE DEF frame
  <2>3. Merge(r, frame)
    BY <1>14 DEF EditFlushed, frame
  <2>4. \/ Debounce(r) \/ UNCHANGED <<flushTimer, timers>>
    BY <1>14 DEF EditFlushed, frame
  <2>5. currentValue' \in [Rooms -> Document]
    BY <2>2, <2>3 DEF Merge, TypeOK, ContentTypeOK
  <2>6. buffer' \in [Rooms -> SUBSET Edits]
    BY <2>2, <2>3 DEF Merge, TypeOK, ContentTypeOK
  <2>7. flushTimer' \in [Rooms -> BOOLEAN] /\ timers' \in [Rooms -> Nat]
    BY <2>4, DebounceTyped DEF TypeOK, ContentTypeOK
  <2>8. flights' = flights /\ state' = state /\ log' = log
    BY <1>14 DEF EditFlushed, tables
  <2> QED
    BY <2>5, <2>6, <2>7, <2>8 DEF TypeOK, ContentTypeOK
<1>15. ASSUME NEW r \in Rooms, LoopFlush(r)
      PROVE  ContentTypeOK'
  BY <1>15
  DEF LoopFlush, TakeBuffer, loopVars, channels, content, wires, tables,
      history, TypeOK, ContentTypeOK, Flush
<1>16. ASSUME NEW r \in Rooms, Close(r)
      PROVE  ContentTypeOK'
  BY <1>16
  DEF Close, loopVars, channels, content, wires, tables, history, TypeOK,
      ContentTypeOK
<1>17. ASSUME NEW r \in Rooms, TimerFires(r)
      PROVE  ContentTypeOK'
  BY <1>17
  DEF TimerFires, TimerArmed, TakeBuffer, loopVars, channels, content, wires,
      tables, history, TypeOK, ContentTypeOK, Flush
<1>18. ASSUME NEW f \in flights, AppendUpdates(f)
      PROVE  ContentTypeOK'
  BY <1>18
  DEF AppendUpdates, loopVars, channels, content, wires, tables, history,
      TypeOK, ContentTypeOK, Flush
<1>19. ASSUME NEW f \in flights, UpsertState(f)
      PROVE  ContentTypeOK'
  BY <1>19
  DEF UpsertState, Return, loopVars, channels, content, wires, tables,
      history, TypeOK, ContentTypeOK, Flush
<1>20. ASSUME NEW f \in flights, AppendFails(f)
      PROVE  ContentTypeOK'
  BY <1>20
  DEF AppendFails, Return, loopVars, channels, content, wires, tables,
      history, TypeOK, ContentTypeOK, Flush
<1>21. ASSUME NEW f \in flights, UpsertFails(f)
      PROVE  ContentTypeOK'
  BY <1>21
  DEF UpsertFails, Return, loopVars, channels, content, wires, tables,
      history, TypeOK, ContentTypeOK, Flush
<1>22. ASSUME Shutdown
      PROVE  ContentTypeOK'
  <2>1. CASE \E r \in entry : buffer[r] # {}
    <3>1. PICK r \in entry : TakeBuffer(r, "shutdown")
      BY <1>22, <2>1 DEF Shutdown
    <3>2. r \in Rooms /\ UNCHANGED <<currentValue, timers, state, log>>
      BY <1>22, <2>1 DEF Shutdown, TypeOK, HubTypeOK, tables
    <3> QED
      BY <3>1, <3>2 DEF TakeBuffer, TypeOK, ContentTypeOK, Flush
  <2>2. CASE ~\E r \in entry : buffer[r] # {}
    BY <1>22, <2>2 DEF Shutdown, TypeOK, ContentTypeOK, tables
  <2> QED
    BY <2>1, <2>2
<1>23. ASSUME EndProcess
      PROVE  ContentTypeOK'
  BY <1>23
  DEF EndProcess, loopVars, channels, content, wires, tables, history, TypeOK,
      ContentTypeOK
<1>24. ASSUME UNCHANGED vars
      PROVE  ContentTypeOK'
  BY <1>24
  DEF vars, vars, loopVars, channels, content, wires, tables, history, TypeOK,
      ContentTypeOK
<1> QED
  BY <1>1, <1>2, <1>3, <1>4, <1>5, <1>6, <1>7, <1>8, <1>9, <1>10, <1>11,
     <1>12, <1>13, <1>14, <1>15, <1>16, <1>17, <1>18, <1>19, <1>20, <1>21,
     <1>22, <1>23, <1>24
  DEF Next, Connection, Run, Write, Exit, Crash, HydrateFails

\* Every step keeps the connections and the history in their types.
LEMMA WireInductive ==
  ASSUME TypeOK, [Next]_vars
  PROVE  WireTypeOK'
<1>1. ASSUME NEW c \in Clients, NEW r \in Rooms, FindRoom(c, r)
      PROVE  WireTypeOK'
  BY <1>1
  DEF FindRoom, Attach, loopVars, channels, content, wires, tables, history,
      TypeOK, WireTypeOK
<1>2. ASSUME NEW c \in Clients, NEW r \in Rooms,
             NEW hydrated \in {state, Empty}, CreateRoom(c, r, hydrated)
      PROVE  WireTypeOK'
  BY <1>2
  DEF CreateRoom, Attach, NoRoomYet, loopVars, channels, content, wires,
      tables, history, TypeOK, WireTypeOK
<1>3. ASSUME NEW c \in Clients, Join(c)
      PROVE  WireTypeOK'
  BY <1>3
  DEF Join, loopVars, channels, content, wires, tables, history, TypeOK,
      WireTypeOK
<1>4. ASSUME NEW c \in Clients, NEW kind \in Kinds \intersect EditKinds,
             NEW block \in Blocks, SendEdit(c, kind, block)
      PROVE  WireTypeOK'
  BY <1>4, CapsAssumption
  DEF SendEdit, Enqueue, loopVars, channels, content, wires, tables, history,
      TypeOK, WireTypeOK, Edits
<1>5. ASSUME NEW c \in Clients, NEW kind \in Kinds \intersect PrivateKinds,
             SendPrivate(c, kind)
      PROVE  WireTypeOK'
  BY <1>5
  DEF SendPrivate, Enqueue, loopVars, channels, content, wires, tables,
      history, TypeOK, WireTypeOK
<1>6. ASSUME NEW c \in Clients, Disconnect(c)
      PROVE  WireTypeOK'
  BY <1>6
  DEF Disconnect, loopVars, channels, content, wires, tables, history, TypeOK,
      WireTypeOK
<1>7. ASSUME NEW r \in Rooms, NEW c \in Clients, RegisterClient(r, c)
      PROVE  WireTypeOK'
  BY <1>7
  DEF RegisterClient, Selecting, loopVars, channels, content, wires, tables,
      history, TypeOK, WireTypeOK, ContentTypeOK, HubTypeOK, Document
<1>8. ASSUME NEW r \in Rooms, NEW c \in Clients, IgnoreLeave(r, c)
      PROVE  WireTypeOK'
  BY <1>8
  DEF IgnoreLeave, Selecting, loopVars, channels, content, wires, tables,
      history, TypeOK, WireTypeOK
<1>9. ASSUME NEW r \in Rooms, NEW c \in Clients,
             NEW slow \in SUBSET clients[r], RemoveClient(r, c, slow)
      PROVE  WireTypeOK'
  BY <1>9
  DEF RemoveClient, Selecting, Others, loopVars, channels, content, wires,
      tables, history, TypeOK, WireTypeOK, HubTypeOK
<1>10. ASSUME NEW r \in Rooms, NEW slow \in SUBSET clients[r],
             Identify(r, slow)
      PROVE  WireTypeOK'
  BY <1>10, ReceivedFrame
  DEF Identify, Receive, Selecting, FanOut, Others, loopVars, channels,
      content, wires, tables, history, TypeOK, WireTypeOK, HubTypeOK, Frame,
      EditFrame, PrivateFrame
<1>11. ASSUME NEW r \in Rooms, NEW slow \in SUBSET clients[r],
             Cursor(r, slow)
      PROVE  WireTypeOK'
  BY <1>11
  DEF Cursor, Receive, Selecting, FanOut, Others, loopVars, channels, content,
      wires, tables, history, TypeOK, WireTypeOK, HubTypeOK
<1>12. ASSUME NEW r \in Rooms, NEW slow \in SUBSET clients[r],
             EditDebounced(r, slow)
      PROVE  WireTypeOK'
  BY <1>12, ReceivedFrame, EditFrames
  DEF EditDebounced, Receive, Selecting, Merge, Debounce, FanOutEdit, FanOut,
      Others, loopVars, channels, content, wires, tables, history, TypeOK,
      WireTypeOK, HubTypeOK, EditFrame
<1>13. ASSUME NEW r \in Rooms, NEW slow \in SUBSET clients[r],
             FanOutHand(r, slow)
      PROVE  WireTypeOK'
  BY <1>13
  DEF FanOutHand, FanOutEdit, FanOut, Others, loopVars, channels, content,
      wires, tables, history, TypeOK, WireTypeOK, HubTypeOK, EditFrame
<1>14. ASSUME NEW r \in Rooms, EditFlushed(r)
      PROVE  WireTypeOK'
  BY <1>14
  DEF EditFlushed, Receive, Selecting, Merge, Debounce, loopVars, channels,
      content, wires, tables, history, TypeOK, WireTypeOK
<1>15. ASSUME NEW r \in Rooms, LoopFlush(r)
      PROVE  WireTypeOK'
  BY <1>15
  DEF LoopFlush, TakeBuffer, loopVars, channels, content, wires, tables,
      history, TypeOK, WireTypeOK
<1>16. ASSUME NEW r \in Rooms, Close(r)
      PROVE  WireTypeOK'
  BY <1>16
  DEF Close, loopVars, channels, content, wires, tables, history, TypeOK,
      WireTypeOK
<1>17. ASSUME NEW r \in Rooms, TimerFires(r)
      PROVE  WireTypeOK'
  BY <1>17
  DEF TimerFires, TimerArmed, TakeBuffer, loopVars, channels, content, wires,
      tables, history, TypeOK, WireTypeOK
<1>18. ASSUME NEW f \in flights, AppendUpdates(f)
      PROVE  WireTypeOK'
  BY <1>18
  DEF AppendUpdates, loopVars, channels, content, wires, tables, history,
      TypeOK, WireTypeOK
<1>19. ASSUME NEW f \in flights, UpsertState(f)
      PROVE  WireTypeOK'
  BY <1>19
  DEF UpsertState, Return, loopVars, channels, content, wires, tables,
      history, TypeOK, WireTypeOK
<1>20. ASSUME NEW f \in flights, AppendFails(f)
      PROVE  WireTypeOK'
  BY <1>20
  DEF AppendFails, Return, loopVars, channels, content, wires, tables,
      history, TypeOK, WireTypeOK
<1>21. ASSUME NEW f \in flights, UpsertFails(f)
      PROVE  WireTypeOK'
  BY <1>21
  DEF UpsertFails, Return, loopVars, channels, content, wires, tables,
      history, TypeOK, WireTypeOK
<1>22. ASSUME Shutdown
      PROVE  WireTypeOK'
  BY <1>22
  DEF Shutdown, TakeBuffer, loopVars, channels, content, wires, tables,
      history, TypeOK, WireTypeOK
<1>23. ASSUME EndProcess
      PROVE  WireTypeOK'
  BY <1>23
  DEF EndProcess, loopVars, channels, content, wires, tables, history, TypeOK,
      WireTypeOK
<1>24. ASSUME UNCHANGED vars
      PROVE  WireTypeOK'
  BY <1>24
  DEF vars, vars, loopVars, channels, content, wires, tables, history, TypeOK,
      WireTypeOK
<1> QED
  BY <1>1, <1>2, <1>3, <1>4, <1>5, <1>6, <1>7, <1>8, <1>9, <1>10, <1>11,
     <1>12, <1>13, <1>14, <1>15, <1>16, <1>17, <1>18, <1>19, <1>20, <1>21,
     <1>22, <1>23, <1>24
  DEF Next, Connection, Run, Write, Exit, Crash, HydrateFails

\* Every reachable state is well typed.
THEOREM TypeCorrect == Spec => []TypeOK
<1>1. Init => TypeOK
  BY RoomsAssumption, CapsAssumption
  DEF Init, TypeOK, HubTypeOK, ContentTypeOK, WireTypeOK, Empty, Document
<1>2. TypeOK /\ [Next]_vars => TypeOK'
  BY HubInductive, ContentInductive, WireInductive DEF TypeOK
<1> QED
  BY <1>1, <1>2, PTL DEF Spec
-------------------------------------------------------------------------------
(* One room runs at a time *)

\* The inductive strengthening of OneRoomRuns: a loop is away from its select
\* only while its room runs; it holds a frame only then; and it waits for every
\* flush it has called, of which there is one.
LoopInv ==
  /\ OneRoomRuns
  /\ \A r \in Rooms : loop[r] # "select" => status[r] = "running"
  /\ \A r \in Rooms : loop[r] = "select" => hand[r] = <<>>
  /\ \A f \in flights : f.by = "loop" => loop[f.room] = "wait"
  /\ \A f, g \in flights :
       f.by = "loop" /\ g.by = "loop" /\ f.room = g.room => f = g

\* Every step keeps LoopInv.
LEMMA LoopInductive ==
  ASSUME TypeOK, LoopInv, [Next]_vars
  PROVE  LoopInv'
<1>1. ASSUME NEW c \in Clients, NEW r \in Rooms, FindRoom(c, r)
      PROVE  LoopInv'
  BY <1>1
  DEF FindRoom, Attach, loopVars, channels, content, wires, tables, history,
      LoopInv, OneRoomRuns, TypeOK, HubTypeOK
<1>2. ASSUME NEW c \in Clients, NEW r \in Rooms,
             NEW hydrated \in {state, Empty}, CreateRoom(c, r, hydrated)
      PROVE  LoopInv'
  BY <1>2
  DEF CreateRoom, Attach, NoRoomYet, loopVars, channels, content, wires,
      tables, history, LoopInv, OneRoomRuns, TypeOK, HubTypeOK
<1>3. ASSUME NEW c \in Clients, Join(c)
      PROVE  LoopInv'
  BY <1>3
  DEF Join, loopVars, channels, content, wires, tables, history, LoopInv,
      OneRoomRuns, TypeOK, HubTypeOK
<1>4. ASSUME NEW c \in Clients, NEW kind \in Kinds \intersect EditKinds,
             NEW block \in Blocks, SendEdit(c, kind, block)
      PROVE  LoopInv'
  BY <1>4
  DEF SendEdit, Enqueue, loopVars, channels, content, wires, tables, history,
      LoopInv, OneRoomRuns, TypeOK, HubTypeOK
<1>5. ASSUME NEW c \in Clients, NEW kind \in Kinds \intersect PrivateKinds,
             SendPrivate(c, kind)
      PROVE  LoopInv'
  BY <1>5
  DEF SendPrivate, Enqueue, loopVars, channels, content, wires, tables,
      history, LoopInv, OneRoomRuns, TypeOK, HubTypeOK
<1>6. ASSUME NEW c \in Clients, Disconnect(c)
      PROVE  LoopInv'
  BY <1>6
  DEF Disconnect, loopVars, channels, content, wires, tables, history,
      LoopInv, OneRoomRuns, TypeOK, HubTypeOK
<1>7. ASSUME NEW r \in Rooms, NEW c \in Clients, RegisterClient(r, c)
      PROVE  LoopInv'
  BY <1>7
  DEF RegisterClient, Selecting, loopVars, channels, content, wires, tables,
      history, LoopInv, OneRoomRuns, TypeOK, HubTypeOK
<1>8. ASSUME NEW r \in Rooms, NEW c \in Clients, IgnoreLeave(r, c)
      PROVE  LoopInv'
  BY <1>8
  DEF IgnoreLeave, Selecting, loopVars, channels, content, wires, tables,
      history, LoopInv, OneRoomRuns, TypeOK, HubTypeOK
<1>9. ASSUME NEW r \in Rooms, NEW c \in Clients,
             NEW slow \in SUBSET clients[r], RemoveClient(r, c, slow)
      PROVE  LoopInv'
  BY <1>9
  DEF RemoveClient, Selecting, Others, loopVars, channels, content, wires,
      tables, history, LoopInv, OneRoomRuns, TypeOK, HubTypeOK
<1>10. ASSUME NEW r \in Rooms, NEW slow \in SUBSET clients[r],
             Identify(r, slow)
      PROVE  LoopInv'
  BY <1>10
  DEF Identify, Receive, Selecting, FanOut, Others, loopVars, channels,
      content, wires, tables, history, LoopInv, OneRoomRuns, TypeOK, HubTypeOK
<1>11. ASSUME NEW r \in Rooms, NEW slow \in SUBSET clients[r],
             Cursor(r, slow)
      PROVE  LoopInv'
  BY <1>11
  DEF Cursor, Receive, Selecting, FanOut, Others, loopVars, channels, content,
      wires, tables, history, LoopInv, OneRoomRuns, TypeOK, HubTypeOK
<1>12. ASSUME NEW r \in Rooms, NEW slow \in SUBSET clients[r],
             EditDebounced(r, slow)
      PROVE  LoopInv'
  BY <1>12
  DEF EditDebounced, Receive, Selecting, Merge, Debounce, FanOutEdit, FanOut,
      Others, loopVars, channels, content, wires, tables, history, LoopInv,
      OneRoomRuns, TypeOK, HubTypeOK
<1>13. ASSUME NEW r \in Rooms, NEW slow \in SUBSET clients[r],
             FanOutHand(r, slow)
      PROVE  LoopInv'
  BY <1>13
  DEF FanOutHand, FanOutEdit, FanOut, Others, loopVars, channels, content,
      wires, tables, history, LoopInv, OneRoomRuns, TypeOK, HubTypeOK
<1>14. ASSUME NEW r \in Rooms, EditFlushed(r)
      PROVE  LoopInv'
  BY <1>14
  DEF EditFlushed, Receive, Selecting, Merge, Debounce, loopVars, channels,
      content, wires, tables, history, LoopInv, OneRoomRuns, TypeOK, HubTypeOK
<1>15. ASSUME NEW r \in Rooms, LoopFlush(r)
      PROVE  LoopInv'
  BY <1>15
  DEF LoopFlush, TakeBuffer, loopVars, channels, content, wires, tables,
      history, LoopInv, OneRoomRuns, TypeOK, HubTypeOK, ContentTypeOK, Flush
<1>16. ASSUME NEW r \in Rooms, Close(r)
      PROVE  LoopInv'
  <2>1. status[r] = "running" /\ loop[r] = "flushed"
    BY <1>16 DEF Close, LoopInv
  <2>2. \A q \in Rooms : q # r => status[q] # "running"
    BY <2>1 DEF LoopInv, OneRoomRuns
  <2>3. OneRoomRuns'
    BY <1>16, <2>2 DEF Close, OneRoomRuns, TypeOK, HubTypeOK
  <2>4. \A q \in Rooms : loop'[q] # "select" => status'[q] = "running"
    BY <1>16, <2>2 DEF Close, LoopInv, TypeOK, HubTypeOK
  <2>5. \A q \in Rooms : loop'[q] = "select" => hand'[q] = <<>>
    BY <1>16 DEF Close, LoopInv, TypeOK, HubTypeOK, loopVars
  <2>6. \A f \in flights' : f.by = "loop" => loop'[f.room] = "wait"
    BY <1>16, <2>1 DEF Close, LoopInv, TypeOK, HubTypeOK, ContentTypeOK, Flush
  <2>7. flights' = flights
    BY <1>16 DEF Close
  <2> QED
    BY <2>3, <2>4, <2>5, <2>6, <2>7 DEF LoopInv
<1>17. ASSUME NEW r \in Rooms, TimerFires(r)
      PROVE  LoopInv'
  BY <1>17
  DEF TimerFires, TimerArmed, TakeBuffer, loopVars, channels, content, wires,
      tables, history, LoopInv, OneRoomRuns, TypeOK, HubTypeOK, ContentTypeOK,
      Flush
<1>18. ASSUME NEW f \in flights, AppendUpdates(f)
      PROVE  LoopInv'
  <2> DEFINE g == [f EXCEPT !.stage = "state"]
  <2>1. f \in Flush /\ g.by = f.by /\ g.room = f.room
    BY DEF TypeOK, ContentTypeOK, Flush
  <2>2. flights' = (flights \ {f}) \union {g}
    BY <1>18 DEF AppendUpdates
  <2>3. entry' = entry /\ status' = status /\ loop' = loop /\ hand' = hand
    BY <1>18 DEF AppendUpdates, loopVars
  <2> HIDE DEF g
  <2>4. \A p \in flights' : p \in flights \ {f} \/ p = g
    BY <2>2
  <2>6. \A p \in flights' : p.by = "loop" => loop'[p.room] = "wait"
    BY <2>1, <2>3, <2>4 DEF LoopInv
  <2>7. \A p, q \in flights' :
          p.by = "loop" /\ q.by = "loop" /\ p.room = q.room => p = q
    BY <2>1, <2>4 DEF LoopInv
  <2> QED
    BY <2>3, <2>6, <2>7 DEF LoopInv, OneRoomRuns
<1>19. ASSUME NEW f \in flights, UpsertState(f)
      PROVE  LoopInv'
  BY <1>19
  DEF UpsertState, Return, loopVars, channels, content, wires, tables,
      history, LoopInv, OneRoomRuns, TypeOK, HubTypeOK, ContentTypeOK, Flush
<1>20. ASSUME NEW f \in flights, AppendFails(f)
      PROVE  LoopInv'
  BY <1>20
  DEF AppendFails, Return, loopVars, channels, content, wires, tables,
      history, LoopInv, OneRoomRuns, TypeOK, HubTypeOK, ContentTypeOK, Flush
<1>21. ASSUME NEW f \in flights, UpsertFails(f)
      PROVE  LoopInv'
  BY <1>21
  DEF UpsertFails, Return, loopVars, channels, content, wires, tables,
      history, LoopInv, OneRoomRuns, TypeOK, HubTypeOK, ContentTypeOK, Flush
<1>22. ASSUME Shutdown
      PROVE  LoopInv'
  <2>1. \A f \in flights' : f.by = "loop" => f \in flights
    BY <1>22 DEF Shutdown, TakeBuffer
  <2>2. entry' = entry /\ status' = status /\ loop' = loop /\ hand' = hand
    BY <1>22 DEF Shutdown, loopVars
  <2> QED
    BY <2>1, <2>2 DEF LoopInv, OneRoomRuns
<1>23. ASSUME EndProcess
      PROVE  LoopInv'
  BY <1>23
  DEF EndProcess, loopVars, channels, content, wires, tables, history,
      LoopInv, OneRoomRuns, TypeOK, HubTypeOK
<1>24. ASSUME UNCHANGED vars
      PROVE  LoopInv'
  BY <1>24
  DEF vars, vars, loopVars, channels, content, wires, tables, history,
      LoopInv, OneRoomRuns, TypeOK, HubTypeOK
<1> QED
  BY <1>1, <1>2, <1>3, <1>4, <1>5, <1>6, <1>7, <1>8, <1>9, <1>10, <1>11,
     <1>12, <1>13, <1>14, <1>15, <1>16, <1>17, <1>18, <1>19, <1>20, <1>21,
     <1>22, <1>23, <1>24
  DEF Next, Connection, Run, Write, Exit, Crash, HydrateFails

\* LoopInv holds in every reachable state.
LEMMA LoopCorrect == Spec => []LoopInv
<1>1. Init => LoopInv
  BY DEF Init, LoopInv, OneRoomRuns
<1>2. TypeOK /\ LoopInv /\ [Next]_vars => LoopInv'
  BY LoopInductive
<1> QED
  BY <1>1, <1>2, TypeCorrect, PTL DEF Spec

\* OneRoomRuns, for every number of connections and rooms.
THEOREM OneRoomRunsCorrect == Spec => []OneRoomRuns
<1>1. LoopInv => OneRoomRuns
  BY DEF LoopInv
<1> QED
  BY <1>1, LoopCorrect, PTL
-------------------------------------------------------------------------------
(* No edit is stranded in a buffer *)

\* The inductive strengthening of NoStrandedEdits: r.flushTimer is set only while
\* a runtime timer is armed, so a Reset finds one.
TimerInv ==
  /\ NoStrandedEdits
  /\ \A r \in Rooms : flushTimer[r] => timers[r] > 0

\* After a Reset or an AfterFunc the flush timer is armed, and no other is lost.
LEMMA DebounceArms ==
  ASSUME TypeOK, TimerInv, NEW r \in Rooms, Debounce(r)
  PROVE  /\ \A q \in Rooms : flushTimer'[q] => timers'[q] > 0
         /\ \A q \in Rooms : timers[q] > 0 => timers'[q] > 0
<1>1. CASE flushTimer[r]
  BY <1>1 DEF Debounce, TimerInv, TypeOK, ContentTypeOK
<1>2. CASE ~flushTimer[r]
  BY <1>2 DEF Debounce, TimerInv, TypeOK, ContentTypeOK
<1> QED
  BY <1>1, <1>2

\* Every step keeps TimerInv.
LEMMA TimerInductive ==
  ASSUME TypeOK, LoopInv, TimerInv, [Next]_vars
  PROVE  TimerInv'
<1>1. ASSUME NEW c \in Clients, NEW r \in Rooms, FindRoom(c, r)
      PROVE  TimerInv'
  BY <1>1
  DEF FindRoom, Attach, loopVars, channels, content, wires, tables, history,
      TimerInv, NoStrandedEdits, TypeOK, HubTypeOK, ContentTypeOK
<1>2. ASSUME NEW c \in Clients, NEW r \in Rooms,
             NEW hydrated \in {state, Empty}, CreateRoom(c, r, hydrated)
      PROVE  TimerInv'
  BY <1>2
  DEF CreateRoom, Attach, NoRoomYet, loopVars, channels, content, wires,
      tables, history, TimerInv, NoStrandedEdits, TypeOK, HubTypeOK,
      ContentTypeOK
<1>3. ASSUME NEW c \in Clients, Join(c)
      PROVE  TimerInv'
  BY <1>3
  DEF Join, loopVars, channels, content, wires, tables, history, TimerInv,
      NoStrandedEdits, TypeOK, HubTypeOK, ContentTypeOK
<1>4. ASSUME NEW c \in Clients, NEW kind \in Kinds \intersect EditKinds,
             NEW block \in Blocks, SendEdit(c, kind, block)
      PROVE  TimerInv'
  BY <1>4
  DEF SendEdit, Enqueue, loopVars, channels, content, wires, tables, history,
      TimerInv, NoStrandedEdits, TypeOK, HubTypeOK, ContentTypeOK
<1>5. ASSUME NEW c \in Clients, NEW kind \in Kinds \intersect PrivateKinds,
             SendPrivate(c, kind)
      PROVE  TimerInv'
  BY <1>5
  DEF SendPrivate, Enqueue, loopVars, channels, content, wires, tables,
      history, TimerInv, NoStrandedEdits, TypeOK, HubTypeOK, ContentTypeOK
<1>6. ASSUME NEW c \in Clients, Disconnect(c)
      PROVE  TimerInv'
  BY <1>6
  DEF Disconnect, loopVars, channels, content, wires, tables, history,
      TimerInv, NoStrandedEdits, TypeOK, HubTypeOK, ContentTypeOK
<1>7. ASSUME NEW r \in Rooms, NEW c \in Clients, RegisterClient(r, c)
      PROVE  TimerInv'
  BY <1>7
  DEF RegisterClient, Selecting, loopVars, channels, content, wires, tables,
      history, TimerInv, NoStrandedEdits, TypeOK, HubTypeOK, ContentTypeOK
<1>8. ASSUME NEW r \in Rooms, NEW c \in Clients, IgnoreLeave(r, c)
      PROVE  TimerInv'
  BY <1>8
  DEF IgnoreLeave, Selecting, loopVars, channels, content, wires, tables,
      history, TimerInv, NoStrandedEdits, TypeOK, HubTypeOK, ContentTypeOK
<1>9. ASSUME NEW r \in Rooms, NEW c \in Clients,
             NEW slow \in SUBSET clients[r], RemoveClient(r, c, slow)
      PROVE  TimerInv'
  BY <1>9
  DEF RemoveClient, Selecting, Others, loopVars, channels, content, wires,
      tables, history, TimerInv, NoStrandedEdits, TypeOK, HubTypeOK,
      ContentTypeOK
<1>10. ASSUME NEW r \in Rooms, NEW slow \in SUBSET clients[r],
             Identify(r, slow)
      PROVE  TimerInv'
  BY <1>10
  DEF Identify, Receive, Selecting, FanOut, Others, loopVars, channels,
      content, wires, tables, history, TimerInv, NoStrandedEdits, TypeOK,
      HubTypeOK, ContentTypeOK
<1>11. ASSUME NEW r \in Rooms, NEW slow \in SUBSET clients[r],
             Cursor(r, slow)
      PROVE  TimerInv'
  BY <1>11
  DEF Cursor, Receive, Selecting, FanOut, Others, loopVars, channels, content,
      wires, tables, history, TimerInv, NoStrandedEdits, TypeOK, HubTypeOK,
      ContentTypeOK
<1>12. ASSUME NEW r \in Rooms, NEW slow \in SUBSET clients[r],
             EditDebounced(r, slow)
      PROVE  TimerInv'
  BY <1>12
  DEF EditDebounced, Receive, Selecting, Merge, Debounce, FanOutEdit, FanOut,
      Others, loopVars, channels, content, wires, tables, history, TimerInv,
      NoStrandedEdits, TypeOK, HubTypeOK, ContentTypeOK
<1>13. ASSUME NEW r \in Rooms, NEW slow \in SUBSET clients[r],
             FanOutHand(r, slow)
      PROVE  TimerInv'
  BY <1>13
  DEF FanOutHand, FanOutEdit, FanOut, Others, loopVars, channels, content,
      wires, tables, history, TimerInv, NoStrandedEdits, TypeOK, HubTypeOK,
      ContentTypeOK
<1>14. ASSUME NEW r \in Rooms, EditFlushed(r)
      PROVE  TimerInv'
  <2>1. /\ \A q \in Rooms : flushTimer'[q] => timers'[q] > 0
        /\ \A q \in Rooms : timers[q] > 0 => timers'[q] > 0
    <3>1. CASE Head(broadcast[r]).kind = "update"
      BY <1>14, <3>1, DebounceArms DEF EditFlushed, TypeOK
    <3>2. CASE Head(broadcast[r]).kind # "update"
      BY <1>14, <3>2 DEF EditFlushed, TimerInv
    <3> QED
      BY <3>1, <3>2
  <2>2. \A q \in Rooms : q # r => buffer'[q] = buffer[q] /\ loop'[q] = loop[q]
    BY <1>14 DEF EditFlushed, Merge, TypeOK, HubTypeOK, ContentTypeOK
  <2>3. loop'[r] = "flush"
    BY <1>14 DEF EditFlushed, TypeOK, HubTypeOK
  <2> QED
    BY <2>1, <2>2, <2>3 DEF TimerInv, NoStrandedEdits
<1>15. ASSUME NEW r \in Rooms, LoopFlush(r)
      PROVE  TimerInv'
  BY <1>15
  DEF LoopFlush, TakeBuffer, loopVars, channels, content, wires, tables,
      history, TimerInv, NoStrandedEdits, TypeOK, HubTypeOK, ContentTypeOK
<1>16. ASSUME NEW r \in Rooms, Close(r)
      PROVE  TimerInv'
  BY <1>16
  DEF Close, loopVars, channels, content, wires, tables, history, TimerInv,
      NoStrandedEdits, TypeOK, HubTypeOK, ContentTypeOK
<1>17. ASSUME NEW r \in Rooms, TimerFires(r)
      PROVE  TimerInv'
  BY <1>17
  DEF TimerFires, TimerArmed, TakeBuffer, loopVars, channels, content, wires,
      tables, history, TimerInv, NoStrandedEdits, TypeOK, HubTypeOK,
      ContentTypeOK
<1>18. ASSUME NEW f \in flights, AppendUpdates(f)
      PROVE  TimerInv'
  BY <1>18
  DEF AppendUpdates, loopVars, channels, content, wires, tables, history,
      TimerInv, NoStrandedEdits, TypeOK, HubTypeOK, ContentTypeOK
<1>19. ASSUME NEW f \in flights, UpsertState(f)
      PROVE  TimerInv'
  BY <1>19
  DEF UpsertState, Return, loopVars, channels, content, wires, tables,
      history, TimerInv, NoStrandedEdits, TypeOK, HubTypeOK, ContentTypeOK,
      LoopInv, Flush
<1>20. ASSUME NEW f \in flights, AppendFails(f)
      PROVE  TimerInv'
  BY <1>20
  DEF AppendFails, Return, loopVars, channels, content, wires, tables,
      history, TimerInv, NoStrandedEdits, TypeOK, HubTypeOK, ContentTypeOK,
      LoopInv, Flush
<1>21. ASSUME NEW f \in flights, UpsertFails(f)
      PROVE  TimerInv'
  BY <1>21
  DEF UpsertFails, Return, loopVars, channels, content, wires, tables,
      history, TimerInv, NoStrandedEdits, TypeOK, HubTypeOK, ContentTypeOK,
      LoopInv, Flush
<1>22. ASSUME Shutdown
      PROVE  TimerInv'
  BY <1>22
  DEF Shutdown, TakeBuffer, loopVars, channels, content, wires, tables,
      history, TimerInv, NoStrandedEdits, TypeOK, HubTypeOK, ContentTypeOK
<1>23. ASSUME EndProcess
      PROVE  TimerInv'
  BY <1>23
  DEF EndProcess, loopVars, channels, content, wires, tables, history,
      TimerInv, NoStrandedEdits, TypeOK, HubTypeOK, ContentTypeOK
<1>24. ASSUME UNCHANGED vars
      PROVE  TimerInv'
  BY <1>24
  DEF vars, vars, loopVars, channels, content, wires, tables, history,
      TimerInv, NoStrandedEdits, TypeOK, HubTypeOK, ContentTypeOK
<1> QED
  BY <1>1, <1>2, <1>3, <1>4, <1>5, <1>6, <1>7, <1>8, <1>9, <1>10, <1>11,
     <1>12, <1>13, <1>14, <1>15, <1>16, <1>17, <1>18, <1>19, <1>20, <1>21,
     <1>22, <1>23, <1>24
  DEF Next, Connection, Run, Write, Exit, Crash, HydrateFails

\* NoStrandedEdits, for every number of connections, edits and timers.
THEOREM NoStrandedEditsCorrect == Spec => []NoStrandedEdits
<1>1. Init => TimerInv
  BY DEF Init, TimerInv, NoStrandedEdits
<1>2. TypeOK /\ LoopInv /\ TimerInv /\ [Next]_vars => TimerInv'
  BY TimerInductive
<1>3. TimerInv => NoStrandedEdits
  BY DEF TimerInv
<1> QED
  BY <1>1, <1>2, <1>3, TypeCorrect, LoopCorrect, PTL DEF Spec
-------------------------------------------------------------------------------
(* Members are in sync *)

\* The author of a frame knows its edit.
AuthorKnows(frame) == frame.kind \in EditKinds => frame.edit \in seen[frame.by]

\* The same after the step, of a frame that is already primed.
KnowsNext(frame) == frame.kind \in EditKinds => frame.edit \in seen'[frame.by]

\* The inductive strengthening of MembersInSync: the author of a queued or held
\* frame knows its edit, and a room object not in use has no members.
SyncInv ==
  /\ MembersInSync
  /\ \A r \in Rooms : status[r] = "unused" => clients[r] = {}
  /\ \A r \in Rooms : \A i \in 1..Len(broadcast[r]) : AuthorKnows(broadcast[r][i])
  /\ \A r \in Rooms : \A i \in DOMAIN hand[r] : AuthorKnows(hand[r][i])

\* The frames of a channel are frames of connections.
LEMMA FramesTyped ==
  ASSUME TypeOK, [Next]_vars
  PROVE  \A q \in Rooms : \A i \in 1..Len(broadcast'[q]) : broadcast'[q][i] \in Frame
<1>1. broadcast' \in [Rooms -> Seq(Frame)]
  BY HubInductive DEF HubTypeOK
<1> QED
  BY <1>1

\* A held frame is an edit of a connection.
LEMMA HandTyped ==
  ASSUME TypeOK, NEW q \in Rooms, NEW i \in DOMAIN hand[q]
  PROVE  hand[q][i].by \in Clients
<1>1. PICK e \in EditFrame : hand[q] = <<e>>
  BY DEF TypeOK, HubTypeOK
<1>2. i = 1 /\ e.by \in Clients
  BY <1>1 DEF EditFrame
<1> QED
  BY <1>1, <1>2

\* Receiving a frame leaves frames whose authors know them.
LEMMA ReceivedKnown ==
  ASSUME TypeOK, SyncInv, NEW r \in Rooms, NEW kinds, Receive(r, kinds)
  PROVE  /\ AuthorKnows(Head(broadcast[r]))
         /\ \A q \in Rooms : \A i \in 1..Len(broadcast'[q]) :
              AuthorKnows(broadcast'[q][i])
<1>1. broadcast \in [Rooms -> Seq(Frame)] /\ broadcast[r] # <<>>
  BY DEF TypeOK, HubTypeOK, Receive
<1>2. Head(broadcast[r]) = broadcast[r][1] /\ Len(broadcast[r]) >= 1
  BY <1>1
<1>3. AuthorKnows(Head(broadcast[r]))
  BY <1>1, <1>2 DEF SyncInv
<1>4. ASSUME NEW q \in Rooms, NEW i \in 1..Len(broadcast'[q])
      PROVE  AuthorKnows(broadcast'[q][i])
  <2>1. CASE q # r
    BY <1>1, <1>4, <2>1 DEF Receive, SyncInv
  <2>2. CASE q = r
    <3>1. broadcast'[r] = Tail(broadcast[r])
      BY <1>1 DEF Receive
    <3>2. /\ i + 1 \in 1..Len(broadcast[r])
          /\ broadcast'[r][i] = broadcast[r][i + 1]
      BY <1>1, <1>4, <2>2, <3>1
    <3> QED
      BY <2>2, <3>2 DEF SyncInv
  <2> QED
    BY <2>1, <2>2
<1> QED
  BY <1>3, <1>4

\* Every step keeps SyncInv.
LEMMA SyncInductive ==
  ASSUME TypeOK, LoopInv, SyncInv, [Next]_vars
  PROVE  SyncInv'
<1>1. ASSUME NEW c \in Clients, NEW r \in Rooms, FindRoom(c, r)
      PROVE  SyncInv'
  BY <1>1
  DEF FindRoom, loopVars, channels, content, history, SyncInv, MembersInSync,
      AuthorKnows
<1>2. ASSUME NEW c \in Clients, NEW r \in Rooms,
             NEW hydrated \in {state, Empty}, CreateRoom(c, r, hydrated)
      PROVE  SyncInv'
  BY <1>2
  DEF CreateRoom, Attach, NoRoomYet, loopVars, channels, content, wires,
      tables, history, SyncInv, MembersInSync, AuthorKnows, TypeOK, HubTypeOK,
      WireTypeOK
<1>3. ASSUME NEW c \in Clients, Join(c)
      PROVE  SyncInv'
  BY <1>3
  DEF Join, loopVars, channels, content, wires, tables, history, SyncInv,
      MembersInSync, AuthorKnows, TypeOK, HubTypeOK, WireTypeOK
<1>4. ASSUME NEW c \in Clients, NEW kind \in Kinds \intersect EditKinds,
             NEW block \in Blocks, SendEdit(c, kind, block)
      PROVE  SyncInv'
  BY <1>4
  DEF SendEdit, Enqueue, loopVars, channels, content, wires, tables, history,
      SyncInv, MembersInSync, AuthorKnows, TypeOK, HubTypeOK, WireTypeOK
<1>5. ASSUME NEW c \in Clients, NEW kind \in Kinds \intersect PrivateKinds,
             SendPrivate(c, kind)
      PROVE  SyncInv'
  <2> DEFINE frame == [kind |-> kind, by |-> c, edit |-> 0,
                       block |-> CHOOSE b \in Blocks : TRUE]
  <2>1. UNCHANGED <<status, hand, clients, currentValue, seen>>
    BY <1>5 DEF SendPrivate, Enqueue, loopVars, content, history
  <2>2. frame.kind \notin EditKinds
    BY DEF EditKinds, PrivateKinds
  <2>3. of[c] \in Rooms /\ broadcast \in [Rooms -> Seq(Frame)]
    BY DEF TypeOK, HubTypeOK, WireTypeOK
  <2>4. broadcast' = [broadcast EXCEPT ![of[c]] = Append(broadcast[of[c]], frame)]
    BY <1>5 DEF SendPrivate, Enqueue
  <2> HIDE DEF frame
  <2>5. ASSUME NEW q \in Rooms, NEW i \in 1..Len(broadcast'[q])
        PROVE  AuthorKnows(broadcast'[q][i])
    <3>1. CASE q # of[c] \/ i <= Len(broadcast[q])
      <4>1. i \in 1..Len(broadcast[q]) /\ broadcast'[q][i] = broadcast[q][i]
        BY <2>3, <2>4, <2>5, <3>1
      <4> QED
        BY <4>1 DEF SyncInv
    <3>2. CASE q = of[c] /\ i > Len(broadcast[q])
      <4>1. broadcast'[q][i] = frame
        BY <2>3, <2>4, <2>5, <3>2
      <4> QED
        BY <4>1, <2>2 DEF AuthorKnows
    <3> QED
      BY <3>1, <3>2, <2>5, <2>3
  <2> QED
    BY <2>1, <2>5 DEF SyncInv, MembersInSync, AuthorKnows
<1>6. ASSUME NEW c \in Clients, Disconnect(c)
      PROVE  SyncInv'
  <2>1. UNCHANGED <<status, hand, broadcast, clients, currentValue, seen>>
    BY <1>6 DEF Disconnect, loopVars, content, history
  <2> QED
    BY <2>1 DEF SyncInv, MembersInSync, AuthorKnows
<1>7. ASSUME NEW r \in Rooms, NEW c \in Clients, RegisterClient(r, c)
      PROVE  SyncInv'
  BY <1>7
  DEF RegisterClient, Selecting, loopVars, channels, content, wires, tables,
      history, SyncInv, MembersInSync, AuthorKnows, TypeOK, HubTypeOK,
      WireTypeOK
<1>8. ASSUME NEW r \in Rooms, NEW c \in Clients, IgnoreLeave(r, c)
      PROVE  SyncInv'
  BY <1>8
  DEF IgnoreLeave, Selecting, loopVars, channels, content, wires, tables,
      history, SyncInv, MembersInSync, AuthorKnows, TypeOK, HubTypeOK,
      WireTypeOK
<1>9. ASSUME NEW r \in Rooms, NEW c \in Clients,
             NEW slow \in SUBSET clients[r], RemoveClient(r, c, slow)
      PROVE  SyncInv'
  BY <1>9
  DEF RemoveClient, Selecting, Others, loopVars, channels, content, wires,
      tables, history, SyncInv, MembersInSync, AuthorKnows, TypeOK, HubTypeOK,
      WireTypeOK
<1>10. ASSUME NEW r \in Rooms, NEW slow \in SUBSET clients[r],
             Identify(r, slow)
      PROVE  SyncInv'
  BY <1>10
  DEF Identify, Receive, Selecting, FanOut, Others, loopVars, channels,
      content, wires, tables, history, SyncInv, MembersInSync, AuthorKnows,
      TypeOK, HubTypeOK, WireTypeOK
<1>11. ASSUME NEW r \in Rooms, NEW slow \in SUBSET clients[r],
             Cursor(r, slow)
      PROVE  SyncInv'
  BY <1>11
  DEF Cursor, Receive, Selecting, FanOut, Others, loopVars, channels, content,
      wires, tables, history, SyncInv, MembersInSync, AuthorKnows, TypeOK,
      HubTypeOK, WireTypeOK
<1>12. ASSUME NEW r \in Rooms, NEW slow \in SUBSET clients[r],
             EditDebounced(r, slow)
      PROVE  SyncInv'
  <2> DEFINE frame == Head(broadcast[r])
  <2>1. frame \in EditFrame
    BY <1>12, ReceivedFrame, EditFrames DEF EditDebounced
  <2>2. Receive(r, EditKinds)
    BY <1>12 DEF EditDebounced
  <2>3. AuthorKnows(frame) /\ frame.edit \in seen[frame.by] /\ hand[r] = <<>>
    BY <2>1, <2>2, ReceivedKnown DEF AuthorKnows, EditFrame, LoopInv, Receive, Selecting
  <2>4. /\ currentValue'[r].edits = currentValue[r].edits \union {frame.edit}
        /\ \A q \in Rooms : q # r => currentValue'[q] = currentValue[q]
    BY <1>12 DEF EditDebounced, Merge, Merged, TypeOK, ContentTypeOK
  <2>5. /\ status' = status /\ hand' = hand
        /\ FanOutEdit(r, frame, slow)
    BY <1>12 DEF EditDebounced, loopVars
  <2>6. \A k \in Clients : seen[k] \subseteq seen'[k]
    BY <2>5 DEF FanOutEdit, TypeOK, WireTypeOK
  <2>7. /\ \A q \in Rooms : clients'[q] \subseteq clients[q]
        /\ \A k \in clients'[r] : k = frame.by \/ frame.edit \in seen'[k]
    BY <2>5 DEF FanOutEdit, FanOut, Others, TypeOK, HubTypeOK
  <2> HIDE DEF frame
  <2>8. ASSUME NEW q \in Rooms, NEW k \in clients'[q]
        PROVE  currentValue'[q].edits \subseteq
                 seen'[k] \union {hand'[q][i].edit : i \in DOMAIN hand'[q]}
    <3>1. k \in Clients /\ k \in clients[q]
      BY <2>7 DEF TypeOK, HubTypeOK
    <3>2. currentValue[q].edits \subseteq
            seen[k] \union {hand[q][i].edit : i \in DOMAIN hand[q]}
      BY <3>1 DEF SyncInv, MembersInSync
    <3>3. CASE q # r
      BY <3>1, <3>2, <3>3, <2>4, <2>5, <2>6
    <3>4. CASE q = r
      <4>1. frame.edit \in seen'[k]
        BY <3>1, <3>4, <2>3, <2>6, <2>7
      <4> QED
        BY <3>1, <3>2, <3>4, <4>1, <2>3, <2>4, <2>5, <2>6
    <3> QED
      BY <3>3, <3>4
  <2>9. \A q \in Rooms : \A i \in 1..Len(broadcast'[q]) :
          KnowsNext(broadcast'[q][i])
    BY <2>2, <2>6, ReceivedKnown, FramesTyped
    DEF AuthorKnows, KnowsNext, Frame, EditFrame, PrivateFrame
  <2>10. \A q \in Rooms : \A i \in DOMAIN hand'[q] : KnowsNext(hand'[q][i])
    <3>1. ASSUME NEW q \in Rooms, NEW i \in DOMAIN hand'[q]
          PROVE  KnowsNext(hand'[q][i])
      <4>1. AuthorKnows(hand[q][i]) /\ hand[q][i].by \in Clients
        BY <3>1, <2>5, HandTyped DEF SyncInv
      <4> QED
        BY <4>1, <2>5, <2>6 DEF AuthorKnows, KnowsNext
    <3> QED
      BY <3>1
  <2> QED
    BY <2>3, <2>5, <2>7, <2>8, <2>9, <2>10
    DEF SyncInv, MembersInSync, AuthorKnows, KnowsNext, TypeOK, HubTypeOK
<1>13. ASSUME NEW r \in Rooms, NEW slow \in SUBSET clients[r],
             FanOutHand(r, slow)
      PROVE  SyncInv'
  <2> DEFINE frame == hand[r][1]
  <2>1. PICK e \in EditFrame : hand[r] = <<e>>
    BY <1>13 DEF FanOutHand, TypeOK, HubTypeOK
  <2>2. frame = e /\ e.edit \in seen[e.by]
    BY <2>1 DEF SyncInv, AuthorKnows, EditFrame
  <2>3. /\ UNCHANGED <<status, broadcast, currentValue>>
        /\ hand' = [hand EXCEPT ![r] = <<>>]
        /\ FanOutEdit(r, e, slow)
    BY <1>13, <2>2 DEF FanOutHand, channels, content
  <2>4. \A k \in Clients : seen[k] \subseteq seen'[k]
    BY <2>3 DEF FanOutEdit, TypeOK, WireTypeOK
  <2>5. /\ \A q \in Rooms : clients'[q] \subseteq clients[q]
        /\ \A k \in clients'[r] : k = e.by \/ e.edit \in seen'[k]
    BY <2>3 DEF FanOutEdit, FanOut, Others, TypeOK, HubTypeOK
  <2>6. hand'[r] = <<>> /\ \A q \in Rooms : q # r => hand'[q] = hand[q]
    BY <2>3 DEF TypeOK, HubTypeOK
  <2>7. {hand[r][i].edit : i \in DOMAIN hand[r]} = {e.edit}
    BY <2>1
  <2>8. ASSUME NEW q \in Rooms, NEW k \in clients'[q]
        PROVE  currentValue'[q].edits \subseteq
                 seen'[k] \union {hand'[q][i].edit : i \in DOMAIN hand'[q]}
    <3>1. k \in Clients /\ k \in clients[q]
      BY <2>5 DEF TypeOK, HubTypeOK
    <3>2. currentValue[q].edits \subseteq
            seen[k] \union {hand[q][i].edit : i \in DOMAIN hand[q]}
      BY <3>1 DEF SyncInv, MembersInSync
    <3>3. CASE q # r
      BY <3>1, <3>2, <3>3, <2>3, <2>4, <2>6
    <3>4. CASE q = r
      <4>1. e.edit \in seen'[k]
        BY <3>1, <3>4, <2>2, <2>4, <2>5
      <4> QED
        BY <3>1, <3>2, <3>4, <4>1, <2>3, <2>4, <2>7
    <3> QED
      BY <3>3, <3>4
  <2>9. \A q \in Rooms : \A i \in 1..Len(broadcast'[q]) :
          KnowsNext(broadcast'[q][i])
    BY <2>3, <2>4, FramesTyped
    DEF SyncInv, AuthorKnows, KnowsNext, Frame, EditFrame, PrivateFrame
  <2>10. \A q \in Rooms : \A i \in DOMAIN hand'[q] : KnowsNext(hand'[q][i])
    <3>1. ASSUME NEW q \in Rooms, NEW i \in DOMAIN hand'[q]
          PROVE  KnowsNext(hand'[q][i])
      <4>1. q # r /\ hand'[q] = hand[q]
        BY <3>1, <2>6
      <4>2. AuthorKnows(hand[q][i]) /\ hand[q][i].by \in Clients
        BY <3>1, <4>1, HandTyped DEF SyncInv
      <4> QED
        BY <4>1, <4>2, <2>4 DEF AuthorKnows, KnowsNext
    <3> QED
      BY <3>1
  <2> QED
    BY <2>3, <2>5, <2>8, <2>9, <2>10
    DEF SyncInv, MembersInSync, AuthorKnows, KnowsNext
<1>14. ASSUME NEW r \in Rooms, EditFlushed(r)
      PROVE  SyncInv'
  <2> DEFINE frame == Head(broadcast[r])
  <2>1. frame \in EditFrame
    BY <1>14, ReceivedFrame, EditFrames DEF EditFlushed
  <2>2. Receive(r, EditKinds)
    BY <1>14 DEF EditFlushed
  <2>3. AuthorKnows(frame) /\ frame.edit \in seen[frame.by] /\ hand[r] = <<>>
    BY <2>1, <2>2, ReceivedKnown DEF AuthorKnows, EditFrame, LoopInv, Receive, Selecting
  <2>4. /\ currentValue'[r].edits = currentValue[r].edits \union {frame.edit}
        /\ \A q \in Rooms : q # r => currentValue'[q] = currentValue[q]
    BY <1>14 DEF EditFlushed, Merge, Merged, TypeOK, ContentTypeOK
  <2>5. /\ status' = status /\ clients' = clients /\ seen' = seen
        /\ hand' = [hand EXCEPT ![r] = <<frame>>]
    BY <1>14 DEF EditFlushed, history
  <2>6. hand'[r] = <<frame>> /\ \A q \in Rooms : q # r => hand'[q] = hand[q]
    BY <2>5 DEF TypeOK, HubTypeOK
  <2> HIDE DEF frame
  <2>7. {hand'[r][i].edit : i \in DOMAIN hand'[r]} = {frame.edit}
    BY <2>6
  <2>8. ASSUME NEW q \in Rooms, NEW k \in clients'[q]
        PROVE  currentValue'[q].edits \subseteq
                 seen'[k] \union {hand'[q][i].edit : i \in DOMAIN hand'[q]}
    <3>1. currentValue[q].edits \subseteq
            seen[k] \union {hand[q][i].edit : i \in DOMAIN hand[q]}
      BY <2>5 DEF SyncInv, MembersInSync
    <3>2. CASE q # r
      BY <3>1, <3>2, <2>4, <2>5, <2>6
    <3>3. CASE q = r
      BY <3>1, <3>3, <2>3, <2>4, <2>5, <2>7
    <3> QED
      BY <3>2, <3>3
  <2>9. \A q \in Rooms : \A i \in 1..Len(broadcast'[q]) :
          AuthorKnows(broadcast'[q][i])
    BY <2>2, ReceivedKnown
  <2>10. \A q \in Rooms : \A i \in DOMAIN hand'[q] : AuthorKnows(hand'[q][i])
    <3>1. ASSUME NEW q \in Rooms, NEW i \in DOMAIN hand'[q]
          PROVE  AuthorKnows(hand'[q][i])
      <4>1. CASE q = r
        BY <3>1, <4>1, <2>3, <2>6
      <4>2. CASE q # r
        BY <3>1, <4>2, <2>6 DEF SyncInv
      <4> QED
        BY <4>1, <4>2
    <3> QED
      BY <3>1
  <2> QED
    BY <2>5, <2>8, <2>9, <2>10 DEF SyncInv, MembersInSync, AuthorKnows
<1>15. ASSUME NEW r \in Rooms, LoopFlush(r)
      PROVE  SyncInv'
  BY <1>15
  DEF LoopFlush, TakeBuffer, loopVars, channels, content, wires, tables,
      history, SyncInv, MembersInSync, AuthorKnows, TypeOK, HubTypeOK,
      WireTypeOK
<1>16. ASSUME NEW r \in Rooms, Close(r)
      PROVE  SyncInv'
  BY <1>16
  DEF Close, loopVars, channels, content, wires, tables, history, SyncInv,
      MembersInSync, AuthorKnows, TypeOK, HubTypeOK, WireTypeOK
<1>17. ASSUME NEW r \in Rooms, TimerFires(r)
      PROVE  SyncInv'
  BY <1>17
  DEF TimerFires, TimerArmed, TakeBuffer, loopVars, channels, content, wires,
      tables, history, SyncInv, MembersInSync, AuthorKnows, TypeOK, HubTypeOK,
      WireTypeOK
<1>18. ASSUME NEW f \in flights, AppendUpdates(f)
      PROVE  SyncInv'
  BY <1>18
  DEF AppendUpdates, loopVars, channels, content, wires, tables, history,
      SyncInv, MembersInSync, AuthorKnows, TypeOK, HubTypeOK, WireTypeOK
<1>19. ASSUME NEW f \in flights, UpsertState(f)
      PROVE  SyncInv'
  BY <1>19
  DEF UpsertState, Return, loopVars, channels, content, wires, tables,
      history, SyncInv, MembersInSync, AuthorKnows, TypeOK, HubTypeOK,
      WireTypeOK
<1>20. ASSUME NEW f \in flights, AppendFails(f)
      PROVE  SyncInv'
  BY <1>20
  DEF AppendFails, Return, loopVars, channels, content, wires, tables,
      history, SyncInv, MembersInSync, AuthorKnows, TypeOK, HubTypeOK,
      WireTypeOK
<1>21. ASSUME NEW f \in flights, UpsertFails(f)
      PROVE  SyncInv'
  BY <1>21
  DEF UpsertFails, Return, loopVars, channels, content, wires, tables,
      history, SyncInv, MembersInSync, AuthorKnows, TypeOK, HubTypeOK,
      WireTypeOK
<1>22. ASSUME Shutdown
      PROVE  SyncInv'
  BY <1>22
  DEF Shutdown, TakeBuffer, loopVars, channels, content, wires, tables,
      history, SyncInv, MembersInSync, AuthorKnows, TypeOK, HubTypeOK,
      WireTypeOK
<1>23. ASSUME EndProcess
      PROVE  SyncInv'
  BY <1>23
  DEF EndProcess, loopVars, channels, content, wires, tables, history,
      SyncInv, MembersInSync, AuthorKnows, TypeOK, HubTypeOK, WireTypeOK
<1>24. ASSUME UNCHANGED vars
      PROVE  SyncInv'
  BY <1>24
  DEF vars, vars, loopVars, channels, content, wires, tables, history,
      SyncInv, MembersInSync, AuthorKnows, TypeOK, HubTypeOK, WireTypeOK
<1> QED
  BY <1>1, <1>2, <1>3, <1>4, <1>5, <1>6, <1>7, <1>8, <1>9, <1>10, <1>11,
     <1>12, <1>13, <1>14, <1>15, <1>16, <1>17, <1>18, <1>19, <1>20, <1>21,
     <1>22, <1>23, <1>24
  DEF Next, Connection, Run, Write, Exit, Crash, HydrateFails

\* MembersInSync, for every number of connections, users and edits.
THEOREM MembersInSyncCorrect == Spec => []MembersInSync
<1>1. Init => SyncInv
  BY DEF Init, SyncInv, MembersInSync, Empty
<1>2. TypeOK /\ LoopInv /\ SyncInv /\ [Next]_vars => SyncInv'
  BY SyncInductive
<1>3. SyncInv => MembersInSync
  BY DEF SyncInv
<1> QED
  BY <1>1, <1>2, <1>3, TypeCorrect, LoopCorrect, PTL DEF Spec
-------------------------------------------------------------------------------
(* Edits are accounted for *)

\* What the database has, or is about to get from a flush in flight.
Secured == log \union UNION {f.batch : f \in Unwritten}

\* The inductive strengthening of EditsAccountedFor, without stops and failures:
\* what a running room holds beyond its own buffer is secured, and so is every
\* value that can become the value of a room: the stored one and the snapshots
\* still in flight. A room about to close has nothing in its buffer.
AccountInv ==
  /\ stop = "no"
  /\ \A f \in flights : f.by # "shutdown" /\ f.snapshot.edits \subseteq Secured
  /\ \A r \in Rooms :
       /\ loop[r] \in {"wait", "flushed"} \/ status[r] # "running" =>
            buffer[r] = {}
       /\ status[r] = "running" =>
            currentValue[r].edits \subseteq Secured \union buffer[r]
  /\ state.edits \subseteq Secured

\* A flush that takes the buffer secures what was in it, with the value it took.
LEMMA TakeSecures ==
  ASSUME AccountInv, NEW r \in Rooms, NEW caller, TakeBuffer(r, caller),
         UNCHANGED log, caller # "shutdown"
  PROVE  /\ Secured' = Secured \union buffer[r]
         /\ \A f \in flights' :
              f.by # "shutdown" /\ f.snapshot.edits \subseteq Secured'
<1>1. CASE buffer[r] = {}
  <2>1. flights' = flights
    BY <1>1 DEF TakeBuffer
  <2> QED
    BY <1>1, <2>1 DEF AccountInv, Secured, Unwritten
<1>2. CASE buffer[r] # {}
  <2> DEFINE new == [room |-> r, by |-> caller, batch |-> buffer[r],
                     snapshot |-> currentValue[r], stage |-> "append"]
  <2>1. flights' = flights \union {new}
    BY <1>2 DEF TakeBuffer
  <2>2. /\ new.stage = "append" /\ new.batch = buffer[r]
        /\ new.by # "shutdown" /\ new.snapshot = currentValue[r]
    OBVIOUS
  <2> HIDE DEF new
  <2>3. Unwritten' = Unwritten \union {new}
    BY <2>1, <2>2 DEF Unwritten
  <2>4. Secured' = Secured \union buffer[r]
    BY <2>2, <2>3 DEF Secured
  <2>5. status[r] = "running"
    BY <1>2 DEF AccountInv
  <2>6. new.snapshot.edits \subseteq Secured'
    BY <2>2, <2>4, <2>5 DEF AccountInv
  <2> QED
    BY <2>1, <2>2, <2>4, <2>6 DEF AccountInv
<1> QED
  BY <1>1, <1>2

\* Steps that touch neither the flights, the log nor the content of a room.
LEMMA AccountKept ==
  ASSUME AccountInv,
         UNCHANGED <<flights, log, state, buffer, currentValue, stop, loop,
                     status>>
  PROVE  AccountInv'
  BY DEF AccountInv, Secured, Unwritten

\* Without failures and stops, every step keeps AccountInv.
LEMMA AccountInductive ==
  ASSUME ~Faulty, ~Stops, TypeOK, LoopInv, AccountInv, [Next]_vars
  PROVE  AccountInv'
<1>t. HubTypeOK /\ ContentTypeOK /\ WireTypeOK
  BY DEF TypeOK
<1>k. UNCHANGED <<flights, log>> => Secured' = Secured
  BY DEF Secured, Unwritten
<1>1. ASSUME NEW c \in Clients,
             \/ \E r \in Rooms : FindRoom(c, r)
             \/ Join(c) \/ Disconnect(c)
      PROVE  AccountInv'
  BY <1>1, AccountKept
  DEF FindRoom, Attach, Join, Disconnect, loopVars, content, tables
<1>2. ASSUME NEW c \in Clients, NEW r \in Rooms, CreateRoom(c, r, state)
      PROVE  AccountInv'
  <2>1. /\ UNCHANGED <<flights, log, state, buffer, stop, loop>>
        /\ status' = [status EXCEPT ![r] = "running"]
        /\ currentValue' = [currentValue EXCEPT ![r] = state]
        /\ status[r] = "unused"
    BY <1>2 DEF CreateRoom, loopVars, tables
  <2>2. \A q \in Rooms : status'[q] = "running" =>
          currentValue'[q].edits \subseteq Secured \union buffer[q]
    BY <1>t, <2>1 DEF AccountInv, HubTypeOK, ContentTypeOK
  <2>3. \A q \in Rooms :
          loop'[q] \in {"wait", "flushed"} \/ status'[q] # "running" =>
            buffer[q] = {}
    BY <1>t, <2>1 DEF AccountInv, HubTypeOK
  <2> QED
    BY <1>k, <2>1, <2>2, <2>3 DEF AccountInv
<1>3. ASSUME NEW c \in Clients,
             \/ \E kind \in Kinds \intersect EditKinds, block \in Blocks :
                  SendEdit(c, kind, block)
             \/ \E kind \in Kinds \intersect PrivateKinds :
                  SendPrivate(c, kind)
      PROVE  AccountInv'
  BY <1>3, AccountKept
  DEF SendEdit, SendPrivate, Enqueue, loopVars, content, tables
<1>4. ASSUME NEW r \in Rooms, NEW c \in Clients,
             RegisterClient(r, c) \/ IgnoreLeave(r, c)
      PROVE  AccountInv'
  BY <1>4, AccountKept
  DEF RegisterClient, IgnoreLeave, loopVars, content, tables
<1>5. ASSUME NEW r \in Rooms, NEW c \in Clients,
             NEW slow \in SUBSET clients[r], RemoveClient(r, c, slow)
      PROVE  AccountInv'
  <2>1. /\ UNCHANGED <<flights, log, state, buffer, currentValue, stop, status>>
        /\ \A q \in Rooms : loop'[q] \in {loop[q], "flush"}
    BY <1>5, <1>t DEF RemoveClient, content, tables, HubTypeOK
  <2> QED
    BY <1>k, <2>1 DEF AccountInv
<1>6. ASSUME NEW r \in Rooms, NEW slow \in SUBSET clients[r],
             Identify(r, slow) \/ Cursor(r, slow)
      PROVE  AccountInv'
  BY <1>6, AccountKept
  DEF Identify, Cursor, loopVars, content, tables
<1>7. ASSUME NEW r \in Rooms,
             \/ \E slow \in SUBSET clients[r] : EditDebounced(r, slow)
             \/ EditFlushed(r)
      PROVE  AccountInv'
  <2> DEFINE frame == Head(broadcast[r])
  <2>1. /\ status[r] = "running" /\ loop[r] = "select"
        /\ buffer' = [buffer EXCEPT ![r] = @ \union {frame.edit}]
        /\ currentValue' = [currentValue EXCEPT ![r] = Merged(@, frame)]
        /\ UNCHANGED <<flights, log, state, stop, status>>
    BY <1>7
    DEF EditDebounced, EditFlushed, Receive, Selecting, Merge, tables
  <2>2. \A q \in Rooms : loop'[q] = loop[q] \/ (q = r /\ loop'[q] = "flush")
    BY <1>7, <1>t DEF EditDebounced, EditFlushed, loopVars, HubTypeOK
  <2>3. \A value : Merged(value, frame).edits = value.edits \union {frame.edit}
    BY DEF Merged
  <2> HIDE DEF frame
  <2>4. \A q \in Rooms \ {r} :
          buffer'[q] = buffer[q] /\ currentValue'[q] = currentValue[q]
    BY <1>t, <2>1 DEF ContentTypeOK
  <2>5. buffer'[r] = buffer[r] \union {frame.edit}
    BY <1>t, <2>1 DEF ContentTypeOK
  <2>6. currentValue'[r].edits = currentValue[r].edits \union {frame.edit}
    BY <1>t, <2>1, <2>3 DEF ContentTypeOK
  <2>7. \A q \in Rooms :
          loop'[q] \in {"wait", "flushed"} \/ status'[q] # "running" =>
            buffer'[q] = {}
    BY <2>1, <2>2, <2>4 DEF AccountInv
  <2>8. \A q \in Rooms : status'[q] = "running" =>
          currentValue'[q].edits \subseteq Secured \union buffer'[q]
    BY <2>1, <2>4, <2>5, <2>6 DEF AccountInv
  <2> QED
    BY <1>k, <2>1, <2>7, <2>8 DEF AccountInv
<1>8. ASSUME NEW r \in Rooms, NEW slow \in SUBSET clients[r],
             FanOutHand(r, slow)
      PROVE  AccountInv'
  <2>1. /\ UNCHANGED <<flights, log, state, buffer, currentValue, stop, status>>
        /\ \A q \in Rooms : loop'[q] \in {loop[q], "select"}
    BY <1>8, <1>t DEF FanOutHand, content, tables, HubTypeOK
  <2> QED
    BY <1>k, <2>1 DEF AccountInv
<1>9. ASSUME NEW r \in Rooms, Close(r)
      PROVE  AccountInv'
  <2>1. /\ UNCHANGED <<flights, log, state, buffer, currentValue, stop>>
        /\ loop[r] = "flushed"
        /\ \A q \in Rooms \ {r} : loop'[q] = loop[q] /\ status'[q] = status[q]
        /\ status'[r] = "closed"
    BY <1>9, <1>t DEF Close, content, tables, HubTypeOK
  <2>2. buffer[r] = {}
    BY <2>1 DEF AccountInv
  <2> QED
    BY <1>k, <2>1, <2>2 DEF AccountInv
<1>10. ASSUME NEW r \in Rooms, LoopFlush(r) \/ TimerFires(r)
      PROVE  AccountInv'
  <2>1. PICK caller \in {"loop", "timer"} : TakeBuffer(r, caller)
    BY <1>10 DEF LoopFlush, TimerFires
  <2>2. /\ UNCHANGED <<log, state, currentValue, stop, status>>
        /\ buffer' = [buffer EXCEPT ![r] = {}]
        /\ \A q \in Rooms \ {r} : loop'[q] = loop[q]
    BY <1>10, <1>t
    DEF LoopFlush, TimerFires, TakeBuffer, loopVars, tables, HubTypeOK
  <2>3. /\ Secured' = Secured \union buffer[r]
        /\ \A f \in flights' :
             f.by # "shutdown" /\ f.snapshot.edits \subseteq Secured'
    BY <2>1, <2>2, TakeSecures
  <2>4. /\ \A q \in Rooms \ {r} : buffer'[q] = buffer[q]
        /\ buffer'[r] = {}
    BY <1>t, <2>2 DEF ContentTypeOK
  <2>5. \A q \in Rooms : status'[q] = "running" =>
          currentValue'[q].edits \subseteq Secured' \union buffer'[q]
    BY <2>2, <2>3, <2>4 DEF AccountInv
  <2>6. \A q \in Rooms :
          loop'[q] \in {"wait", "flushed"} \/ status'[q] # "running" =>
            buffer'[q] = {}
    BY <2>2, <2>4 DEF AccountInv
  <2>7. state'.edits \subseteq Secured'
    BY <2>2, <2>3 DEF AccountInv
  <2> QED
    BY <2>2, <2>3, <2>5, <2>6, <2>7 DEF AccountInv
<1>11. ASSUME NEW f \in flights, AppendUpdates(f)
      PROVE  AccountInv'
  <2> DEFINE next == [f EXCEPT !.stage = "state"]
  <2>1. /\ f.stage = "append" /\ log' = log \union f.batch
        /\ flights' = (flights \ {f}) \union {next}
        /\ UNCHANGED <<state, buffer, currentValue, stop, loop, status>>
    BY <1>11 DEF AppendUpdates, loopVars, content
  <2>2. /\ next.stage = "state" /\ next.by = f.by
        /\ next.snapshot = f.snapshot
    BY <1>t DEF ContentTypeOK, Flush
  <2> HIDE DEF next
  <2>3. Unwritten' = Unwritten \ {f}
    BY <2>1, <2>2 DEF Unwritten
  <2>4. Secured' = Secured
    <3>1. f \in Unwritten
      BY <2>1 DEF Unwritten
    <3> QED
      BY <2>1, <2>3, <3>1 DEF Secured
  <2>5. \A g \in flights' :
          g.by # "shutdown" /\ g.snapshot.edits \subseteq Secured'
    BY <2>1, <2>2, <2>4 DEF AccountInv
  <2> QED
    BY <2>1, <2>4, <2>5 DEF AccountInv
<1>12. ASSUME NEW f \in flights, UpsertState(f)
      PROVE  AccountInv'
  <2>1. /\ f.stage = "state" /\ state' = f.snapshot
        /\ flights' = flights \ {f} /\ f.by # "shutdown"
        /\ UNCHANGED <<log, buffer, currentValue, stop, status>>
    BY <1>12 DEF UpsertState, Return, content, AccountInv
  <2>2. f.room \in Rooms
    BY <1>t DEF ContentTypeOK, Flush
  <2>3. \A q \in Rooms : loop'[q] = loop[q] \/ loop[q] = "wait"
    BY <1>12, <1>t, <2>2 DEF UpsertState, Return, LoopInv, HubTypeOK
  <2>4. Unwritten' = Unwritten
    BY <2>1 DEF Unwritten
  <2>5. Secured' = Secured
    BY <2>1, <2>4 DEF Secured
  <2> QED
    BY <2>1, <2>3, <2>5 DEF AccountInv
<1>13. CASE Shutdown \/ Exit
  BY <1>13 DEF Shutdown, Exit, AccountInv
<1>14. CASE UNCHANGED vars
  BY <1>14, AccountKept DEF vars, loopVars, content, tables
<1> QED
  BY <1>1, <1>2, <1>3, <1>4, <1>5, <1>6, <1>7, <1>8, <1>9, <1>10, <1>11,
     <1>12, <1>13, <1>14
  DEF Next, Connection, Run, Write, Crash

\* EditsAccountedFor, for every number of connections, rooms, edits and every
\* threshold and capacity, while no call fails and nobody stops the process.
THEOREM EditsAccountedForCorrect ==
  ASSUME ~Faulty, ~Stops
  PROVE  Spec => []EditsAccountedFor
<1>1. Init => AccountInv
  BY DEF Init, AccountInv, Empty
<1>2. TypeOK /\ LoopInv /\ AccountInv /\ [Next]_vars => AccountInv'
  BY AccountInductive
<1>3. AccountInv => EditsAccountedFor
  <2> SUFFICES ASSUME AccountInv, NEW e \in Unlogged
               PROVE  e \in UNION ({buffer[r] : r \in Running}
                                     \union {f.batch : f \in Unwritten})
    BY DEF EditsAccountedFor
  <2>1. PICK r \in Running : e \in currentValue[r].edits
    BY DEF Unlogged
  <2>2. e \in Secured \union buffer[r] /\ e \notin log
    BY <2>1 DEF AccountInv, Running, Unlogged
  <2> QED
    BY <2>1, <2>2 DEF Secured
<1> QED
  BY <1>1, <1>2, <1>3, TypeCorrect, LoopCorrect, PTL DEF Spec
===============================================================================
