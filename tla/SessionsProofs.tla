---------------------------- MODULE SessionsProofs ----------------------------
(***************************************************************************)
(* What the sessions guarantee, whatever their class and their role, for   *)
(* any number of threads, of connects, of pieces, and any limits.          *)
(*                                                                         *)
(* The actions of the classes are instances and so operators of their own; *)
(* the first part shows them equal to the ones that Sessions extends, and  *)
(* gathers them in Kinds, which the rest argues about.                     *)
(***************************************************************************)
EXTENDS Sessions, StreamLemmas

\* What the closing of its socket does in a TcpSession.
LEMMA TcpAborts ==
  Tcp!Aborted = Aborted /\ Tcp!Unaborted = Unaborted
  BY DEF Tcp!Aborted, Aborted, Tcp!Unaborted, Unaborted, Tcp!Select, Select, Tcp!InOrder, InOrder,
     Tcp!Cardinality, Cardinality

\* A TcpSession takes the steps of StreamSession.
LEMMA TcpActions ==
  /\ Tcp!Environment <=> Environment
  /\ Tcp!DropSessions <=> DropSessions
  /\ Tcp!HandleRead <=> HandleRead
  /\ Tcp!HandleWrite <=> HandleWrite
  /\ \A t : Tcp!Write(t) <=> Write(t)
  /\ \A t : Tcp!WriteTail(t) <=> WriteTail(t)
  /\ \A t : Tcp!CallShutdown(t) <=> CallShutdown(t)
  /\ \A t : Tcp!Stop(t) <=> Stop(t)
  /\ \A t : Tcp!Close(t) <=> Close(t)
  /\ \A t : Tcp!RemoveSession(t) <=> RemoveSession(t)
  /\ \A t : Tcp!CallbackReturns(t) <=> CallbackReturns(t)
  /\ Tcp!AfterRead <=> AfterRead
  /\ Tcp!Read <=> Read
  /\ Tcp!ReleaseSent <=> ReleaseSent
  /\ Tcp!HandleResolved <=> HandleResolved
  /\ \A t : Tcp!MayConnect(t) <=> MayConnect(t)
  /\ Tcp!Accepted <=> Accepted
  /\ \A op, refused : Tcp!HandleOpened(op, refused) <=> HandleOpened(op, refused)
  /\ \A op, next : Tcp!HandleStage(op, next) <=> HandleStage(op, next)
  /\ \A t : Tcp!ResetStart(t) <=> ResetStart(t)
  /\ \A t : Tcp!ResetStop(t) <=> ResetStop(t)
  /\ \A t : Tcp!ResetInit(t) <=> ResetInit(t)
  /\ \A refused : Tcp!Start(refused) <=> Start(refused)
  /\ \A op, places : Tcp!Handle(op, places) <=> Handle(op, places)
  <1>1. Tcp!Environment <=> Environment
    BY TcpAborts DEF Tcp!Environment, Environment, Tcp!Settles, Settles, Tcp!Arrives, Arrives,
       Tcp!Completes, Completes, Tcp!RemoveAt, RemoveAt, Tcp!switch, switch, Tcp!stream_vars,
       stream_vars, Tcp!buffer, buffer, Tcp!history, history
  <1>2. Tcp!DropSessions <=> DropSessions
    BY TcpAborts DEF Tcp!DropSessions, DropSessions, Tcp!asio_vars, asio_vars, Tcp!switch, switch,
       Tcp!buffer, buffer, Tcp!history, history
  <1>3. Tcp!HandleRead <=> HandleRead
    BY TcpAborts DEF Tcp!HandleRead, HandleRead, Tcp!Handle, Handle, Tcp!Handles, Handles,
       Tcp!Succeeded, Succeeded, Tcp!Shutdown, Shutdown, Tcp!MayStop, MayStop, Tcp!Call, Call,
       Tcp!Io, Io, Tcp!switch, switch, Tcp!stream_vars, stream_vars, Tcp!buffer, buffer,
       Tcp!history, history
  <1>4. Tcp!HandleWrite <=> HandleWrite
    BY TcpAborts DEF Tcp!HandleWrite, HandleWrite, Tcp!Handle, Handle, Tcp!Handles, Handles,
       Tcp!Succeeded, Succeeded, Tcp!Shutdown, Shutdown, Tcp!MayStop, MayStop, Tcp!has_stoped,
       has_stoped, Tcp!Call, Call, Tcp!Io, Io, Tcp!switch, switch, Tcp!stream_vars, stream_vars,
       Tcp!buffer, buffer, Tcp!history, history
  <1>5. \A t : Tcp!Write(t) <=> Write(t)
    BY TcpAborts DEF Tcp!Write, Write, Tcp!MayWrite, MayWrite, Tcp!Reachable, Reachable,
       Tcp!InUserCode, InUserCode, Tcp!Io, Io, Tcp!Callbacks, Callbacks, Tcp!has_started,
       has_started, Tcp!Longer, Longer, Tcp!Enqueued, Enqueued, Tcp!append, append, Tcp!SendFront,
       SendFront, Tcp!Begin, Begin, Tcp!switch, switch, Tcp!history, history, Tcp!Locked, Locked,
       Tcp!Threads, Threads, Tcp!Top, Top, Tcp!Resets, Resets
  <1>6. \A t : Tcp!WriteTail(t) <=> WriteTail(t)
    BY TcpAborts DEF Tcp!WriteTail, WriteTail, Tcp!MayWrite, MayWrite, Tcp!Reachable, Reachable,
       Tcp!InUserCode, InUserCode, Tcp!Io, Io, Tcp!Callbacks, Callbacks, Tcp!has_started,
       has_started, Tcp!Longer, Longer, Tcp!Enqueued, Enqueued, Tcp!append, append,
       Tcp!append_tail, append_tail, Tcp!ExtendsTail, ExtendsTail, Tcp!Last, Last, Tcp!SendFront,
       SendFront, Tcp!Begin, Begin, Tcp!switch, switch, Tcp!history, history, Tcp!Locked, Locked,
       Tcp!Threads, Threads, Tcp!Top, Top, Tcp!Resets, Resets
  <1>7. \A t : Tcp!CallShutdown(t) <=> CallShutdown(t)
    BY TcpAborts DEF Tcp!CallShutdown, CallShutdown, Tcp!Reachable, Reachable, Tcp!InUserCode,
       InUserCode, Tcp!Io, Io, Tcp!Callbacks, Callbacks, Tcp!MayStop, MayStop, Tcp!Call, Call,
       Tcp!switch, switch, Tcp!stream_vars, stream_vars, Tcp!buffer, buffer, Tcp!history, history
  <1>8. \A t : Tcp!Stop(t) <=> Stop(t)
    BY TcpAborts DEF Tcp!Stop, Stop, Tcp!Top, Top, Tcp!Return, Return, Tcp!Goto, Goto,
       Tcp!StopCas, StopCas, Tcp!switch, switch, Tcp!stream_vars, stream_vars, Tcp!buffer, buffer,
       Tcp!history, history
  <1>9. \A t : Tcp!Close(t) <=> Close(t)
    BY TcpAborts DEF Tcp!Close, Close, Tcp!Locked, Locked, Tcp!Threads, Threads, Tcp!Top, Top,
       Tcp!Io, Io, Tcp!Resets, Resets, Tcp!Goto, Goto, Tcp!has_init, has_init, Tcp!Abort, Abort,
       Tcp!switch, switch, Tcp!stream_vars, stream_vars, Tcp!buffer, buffer, Tcp!history, history
  <1>10. \A t : Tcp!RemoveSession(t) <=> RemoveSession(t)
    BY TcpAborts DEF Tcp!RemoveSession, RemoveSession, Tcp!Top, Top, Tcp!Return, Return, Tcp!Goto,
       Goto, Tcp!switch, switch, Tcp!buffer, buffer, Tcp!history, history
  <1>11. \A t : Tcp!CallbackReturns(t) <=> CallbackReturns(t)
    BY TcpAborts DEF Tcp!CallbackReturns, CallbackReturns, Tcp!Top, Top, Tcp!Callbacks, Callbacks,
       Tcp!Return, Return, Tcp!Goto, Goto, Tcp!switch, switch, Tcp!stream_vars, stream_vars,
       Tcp!buffer, buffer, Tcp!history, history
  <1>12. Tcp!AfterRead <=> AfterRead
    BY TcpAborts DEF Tcp!AfterRead, AfterRead, Tcp!Top, Top, Tcp!Io, Io, Tcp!Goto, Goto,
       Tcp!has_stoped, has_stoped, Tcp!switch, switch, Tcp!stream_vars, stream_vars, Tcp!buffer,
       buffer, Tcp!history, history
  <1>13. Tcp!Read <=> Read
    BY TcpAborts DEF Tcp!Read, Read, Tcp!Top, Top, Tcp!Io, Io, Tcp!Return, Return, Tcp!Goto, Goto,
       Tcp!Begin, Begin, Tcp!switch, switch, Tcp!stream_vars, stream_vars, Tcp!buffer, buffer,
       Tcp!history, history
  <1>14. Tcp!ReleaseSent <=> ReleaseSent
    BY TcpAborts DEF Tcp!ReleaseSent, ReleaseSent, Tcp!Top, Top, Tcp!Io, Io, Tcp!Return, Return,
       Tcp!Goto, Goto, Tcp!SendFront, SendFront, Tcp!Begin, Begin, Tcp!switch, switch,
       Tcp!history, history, Tcp!Locked, Locked, Tcp!Threads, Threads, Tcp!Resets, Resets
  <1>15. Tcp!HandleResolved <=> HandleResolved
    BY TcpAborts DEF Tcp!HandleResolved, HandleResolved, Tcp!Handles, Handles, Tcp!Succeeded,
       Succeeded, Tcp!Io, Io, Tcp!Call, Call, Tcp!switch, switch, Tcp!stream_vars, stream_vars,
       Tcp!buffer, buffer, Tcp!history, history
  <1>16. \A t : Tcp!MayConnect(t) <=> MayConnect(t)
    BY TcpAborts DEF Tcp!MayConnect, MayConnect, Tcp!Top, Top, Tcp!Io, Io, Tcp!Threads, Threads,
       Tcp!Opening, Opening, Tcp!Stages, Stages, Tcp!buffer, buffer, Tcp!history, history,
       Tcp!Occupied, Occupied
  <1>17. Tcp!Accepted <=> Accepted
    BY TcpAborts DEF Tcp!Accepted, Accepted, Tcp!buffer, buffer, Tcp!history, history
  <1>18. \A op, refused : Tcp!HandleOpened(op, refused) <=> HandleOpened(op, refused)
    BY DEF Tcp!HandleOpened, HandleOpened, Tcp!Handle, Handle, Tcp!Handles, Handles,
       Tcp!Succeeded, Succeeded, Tcp!MayStart, MayStart, Tcp!Call, Call, Tcp!Io, Io, Tcp!switch,
       switch, Tcp!stream_vars, stream_vars, Tcp!buffer, buffer, Tcp!history, history
  <1>19. \A op, next : Tcp!HandleStage(op, next) <=> HandleStage(op, next)
    BY DEF Tcp!HandleStage, HandleStage, Tcp!Handle, Handle, Tcp!Handles, Handles, Tcp!Succeeded,
       Succeeded, Tcp!Call, Call, Tcp!Io, Io, Tcp!switch, switch, Tcp!stream_vars, stream_vars,
       Tcp!buffer, buffer, Tcp!history, history
  <1>20. \A t : Tcp!ResetStart(t) <=> ResetStart(t)
    BY DEF Tcp!ResetStart, ResetStart, Tcp!Top, Top, Tcp!Goto, Goto, Tcp!StoreStart, StoreStart,
       Tcp!switch, switch, Tcp!stream_vars, stream_vars, Tcp!buffer, buffer, Tcp!history, history
  <1>21. \A t : Tcp!ResetStop(t) <=> ResetStop(t)
    BY DEF Tcp!ResetStop, ResetStop, Tcp!Top, Top, Tcp!Goto, Goto, Tcp!StoreStop, StoreStop,
       Tcp!switch, switch, Tcp!stream_vars, stream_vars, Tcp!buffer, buffer, Tcp!history, history
  <1>22. \A t : Tcp!ResetInit(t) <=> ResetInit(t)
    BY DEF Tcp!ResetInit, ResetInit, Tcp!Top, Top, Tcp!Io, Io, Tcp!Goto, Goto, Tcp!StoreInit,
       StoreInit, Tcp!ClearBuffers, ClearBuffers
  <1>23. \A refused : Tcp!Start(refused) <=> Start(refused)
    BY DEF Tcp!Start, Start, Tcp!Top, Top, Tcp!Io, Io, Tcp!Goto, Goto, Tcp!StartCas, StartCas,
       Tcp!MayStart, MayStart, Tcp!Locked, Locked, Tcp!Threads, Threads, Tcp!Resets, Resets,
       Tcp!switch, switch, Tcp!buffer, buffer
  <1>24. \A op, places : Tcp!Handle(op, places) <=> Handle(op, places)
    BY DEF Tcp!Handle, Handle, Tcp!Handles, Handles, Tcp!Succeeded, Succeeded, Tcp!Call, Call,
       Tcp!Io, Io, Tcp!switch, switch, Tcp!stream_vars, stream_vars, Tcp!buffer, buffer,
       Tcp!history, history
  <1> QED
    BY <1>1, <1>2, <1>3, <1>4, <1>5, <1>6, <1>7, <1>8, <1>9, <1>10, <1>11, <1>12, <1>13, <1>14,
       <1>15, <1>16, <1>17, <1>18, <1>19, <1>20, <1>21, <1>22, <1>23, <1>24

\* What the closing of its socket does in a WebsocketSession.
LEMMA WsAborts ==
  Ws!Aborted = Aborted /\ Ws!Unaborted = Unaborted
  BY DEF Ws!Aborted, Aborted, Ws!Unaborted, Unaborted, Ws!Select, Select, Ws!InOrder, InOrder,
     Ws!Cardinality, Cardinality

\* A WebsocketSession takes the steps of StreamSession.
LEMMA WsActions ==
  /\ Ws!Environment <=> Environment
  /\ Ws!DropSessions <=> DropSessions
  /\ Ws!HandleRead <=> HandleRead
  /\ Ws!HandleWrite <=> HandleWrite
  /\ \A t : Ws!Write(t) <=> Write(t)
  /\ \A t : Ws!WriteTail(t) <=> WriteTail(t)
  /\ \A t : Ws!CallShutdown(t) <=> CallShutdown(t)
  /\ \A t : Ws!Stop(t) <=> Stop(t)
  /\ \A t : Ws!Close(t) <=> Close(t)
  /\ \A t : Ws!RemoveSession(t) <=> RemoveSession(t)
  /\ \A t : Ws!CallbackReturns(t) <=> CallbackReturns(t)
  /\ Ws!AfterRead <=> AfterRead
  /\ Ws!Read <=> Read
  /\ Ws!ReleaseSent <=> ReleaseSent
  /\ Ws!HandleResolved <=> HandleResolved
  /\ \A t : Ws!MayConnect(t) <=> MayConnect(t)
  /\ Ws!Accepted <=> Accepted
  /\ \A op, refused : Ws!HandleOpened(op, refused) <=> HandleOpened(op, refused)
  /\ \A op, next : Ws!HandleStage(op, next) <=> HandleStage(op, next)
  /\ \A t : Ws!ResetStart(t) <=> ResetStart(t)
  /\ \A t : Ws!ResetStop(t) <=> ResetStop(t)
  /\ \A t : Ws!ResetInit(t) <=> ResetInit(t)
  /\ \A refused : Ws!Start(refused) <=> Start(refused)
  /\ \A op, places : Ws!Handle(op, places) <=> Handle(op, places)
  <1>1. Ws!Environment <=> Environment
    BY WsAborts DEF Ws!Environment, Environment, Ws!Settles, Settles, Ws!Arrives, Arrives,
       Ws!Completes, Completes, Ws!RemoveAt, RemoveAt, Ws!switch, switch, Ws!stream_vars,
       stream_vars, Ws!buffer, buffer, Ws!history, history
  <1>2. Ws!DropSessions <=> DropSessions
    BY WsAborts DEF Ws!DropSessions, DropSessions, Ws!asio_vars, asio_vars, Ws!switch, switch,
       Ws!buffer, buffer, Ws!history, history
  <1>3. Ws!HandleRead <=> HandleRead
    BY WsAborts DEF Ws!HandleRead, HandleRead, Ws!Handle, Handle, Ws!Handles, Handles,
       Ws!Succeeded, Succeeded, Ws!Shutdown, Shutdown, Ws!MayStop, MayStop, Ws!Call, Call, Ws!Io,
       Io, Ws!switch, switch, Ws!stream_vars, stream_vars, Ws!buffer, buffer, Ws!history, history
  <1>4. Ws!HandleWrite <=> HandleWrite
    BY WsAborts DEF Ws!HandleWrite, HandleWrite, Ws!Handle, Handle, Ws!Handles, Handles,
       Ws!Succeeded, Succeeded, Ws!Shutdown, Shutdown, Ws!MayStop, MayStop, Ws!has_stoped,
       has_stoped, Ws!Call, Call, Ws!Io, Io, Ws!switch, switch, Ws!stream_vars, stream_vars,
       Ws!buffer, buffer, Ws!history, history
  <1>5. \A t : Ws!Write(t) <=> Write(t)
    BY WsAborts DEF Ws!Write, Write, Ws!MayWrite, MayWrite, Ws!Reachable, Reachable,
       Ws!InUserCode, InUserCode, Ws!Io, Io, Ws!Callbacks, Callbacks, Ws!has_started, has_started,
       Ws!Longer, Longer, Ws!Enqueued, Enqueued, Ws!append, append, Ws!SendFront, SendFront,
       Ws!Begin, Begin, Ws!switch, switch, Ws!history, history, Ws!Locked, Locked, Ws!Threads,
       Threads, Ws!Top, Top, Ws!Resets, Resets
  <1>6. \A t : Ws!WriteTail(t) <=> WriteTail(t)
    BY WsAborts DEF Ws!WriteTail, WriteTail, Ws!MayWrite, MayWrite, Ws!Reachable, Reachable,
       Ws!InUserCode, InUserCode, Ws!Io, Io, Ws!Callbacks, Callbacks, Ws!has_started, has_started,
       Ws!Longer, Longer, Ws!Enqueued, Enqueued, Ws!append, append, Ws!append_tail, append_tail,
       Ws!ExtendsTail, ExtendsTail, Ws!Last, Last, Ws!SendFront, SendFront, Ws!Begin, Begin,
       Ws!switch, switch, Ws!history, history, Ws!Locked, Locked, Ws!Threads, Threads, Ws!Top,
       Top, Ws!Resets, Resets
  <1>7. \A t : Ws!CallShutdown(t) <=> CallShutdown(t)
    BY WsAborts DEF Ws!CallShutdown, CallShutdown, Ws!Reachable, Reachable, Ws!InUserCode,
       InUserCode, Ws!Io, Io, Ws!Callbacks, Callbacks, Ws!MayStop, MayStop, Ws!Call, Call,
       Ws!switch, switch, Ws!stream_vars, stream_vars, Ws!buffer, buffer, Ws!history, history
  <1>8. \A t : Ws!Stop(t) <=> Stop(t)
    BY WsAborts DEF Ws!Stop, Stop, Ws!Top, Top, Ws!Return, Return, Ws!Goto, Goto, Ws!StopCas,
       StopCas, Ws!switch, switch, Ws!stream_vars, stream_vars, Ws!buffer, buffer, Ws!history,
       history
  <1>9. \A t : Ws!Close(t) <=> Close(t)
    BY WsAborts DEF Ws!Close, Close, Ws!Locked, Locked, Ws!Threads, Threads, Ws!Top, Top, Ws!Io,
       Io, Ws!Resets, Resets, Ws!Goto, Goto, Ws!has_init, has_init, Ws!Abort, Abort, Ws!switch,
       switch, Ws!stream_vars, stream_vars, Ws!buffer, buffer, Ws!history, history
  <1>10. \A t : Ws!RemoveSession(t) <=> RemoveSession(t)
    BY WsAborts DEF Ws!RemoveSession, RemoveSession, Ws!Top, Top, Ws!Return, Return, Ws!Goto,
       Goto, Ws!switch, switch, Ws!buffer, buffer, Ws!history, history
  <1>11. \A t : Ws!CallbackReturns(t) <=> CallbackReturns(t)
    BY WsAborts DEF Ws!CallbackReturns, CallbackReturns, Ws!Top, Top, Ws!Callbacks, Callbacks,
       Ws!Return, Return, Ws!Goto, Goto, Ws!switch, switch, Ws!stream_vars, stream_vars,
       Ws!buffer, buffer, Ws!history, history
  <1>12. Ws!AfterRead <=> AfterRead
    BY WsAborts DEF Ws!AfterRead, AfterRead, Ws!Top, Top, Ws!Io, Io, Ws!Goto, Goto, Ws!has_stoped,
       has_stoped, Ws!switch, switch, Ws!stream_vars, stream_vars, Ws!buffer, buffer, Ws!history,
       history
  <1>13. Ws!Read <=> Read
    BY WsAborts DEF Ws!Read, Read, Ws!Top, Top, Ws!Io, Io, Ws!Return, Return, Ws!Goto, Goto,
       Ws!Begin, Begin, Ws!switch, switch, Ws!stream_vars, stream_vars, Ws!buffer, buffer,
       Ws!history, history
  <1>14. Ws!ReleaseSent <=> ReleaseSent
    BY WsAborts DEF Ws!ReleaseSent, ReleaseSent, Ws!Top, Top, Ws!Io, Io, Ws!Return, Return,
       Ws!Goto, Goto, Ws!SendFront, SendFront, Ws!Begin, Begin, Ws!switch, switch, Ws!history,
       history, Ws!Locked, Locked, Ws!Threads, Threads, Ws!Resets, Resets
  <1>15. Ws!HandleResolved <=> HandleResolved
    BY WsAborts DEF Ws!HandleResolved, HandleResolved, Ws!Handles, Handles, Ws!Succeeded,
       Succeeded, Ws!Io, Io, Ws!Call, Call, Ws!switch, switch, Ws!stream_vars, stream_vars,
       Ws!buffer, buffer, Ws!history, history
  <1>16. \A t : Ws!MayConnect(t) <=> MayConnect(t)
    BY WsAborts DEF Ws!MayConnect, MayConnect, Ws!Top, Top, Ws!Io, Io, Ws!Threads, Threads,
       Ws!Opening, Opening, Ws!Stages, Stages, Ws!buffer, buffer, Ws!history, history,
       Ws!Occupied, Occupied
  <1>17. Ws!Accepted <=> Accepted
    BY WsAborts DEF Ws!Accepted, Accepted, Ws!buffer, buffer, Ws!history, history
  <1>18. \A op, refused : Ws!HandleOpened(op, refused) <=> HandleOpened(op, refused)
    BY DEF Ws!HandleOpened, HandleOpened, Ws!Handle, Handle, Ws!Handles, Handles, Ws!Succeeded,
       Succeeded, Ws!MayStart, MayStart, Ws!Call, Call, Ws!Io, Io, Ws!switch, switch,
       Ws!stream_vars, stream_vars, Ws!buffer, buffer, Ws!history, history
  <1>19. \A op, next : Ws!HandleStage(op, next) <=> HandleStage(op, next)
    BY DEF Ws!HandleStage, HandleStage, Ws!Handle, Handle, Ws!Handles, Handles, Ws!Succeeded,
       Succeeded, Ws!Call, Call, Ws!Io, Io, Ws!switch, switch, Ws!stream_vars, stream_vars,
       Ws!buffer, buffer, Ws!history, history
  <1>20. \A t : Ws!ResetStart(t) <=> ResetStart(t)
    BY DEF Ws!ResetStart, ResetStart, Ws!Top, Top, Ws!Goto, Goto, Ws!StoreStart, StoreStart,
       Ws!switch, switch, Ws!stream_vars, stream_vars, Ws!buffer, buffer, Ws!history, history
  <1>21. \A t : Ws!ResetStop(t) <=> ResetStop(t)
    BY DEF Ws!ResetStop, ResetStop, Ws!Top, Top, Ws!Goto, Goto, Ws!StoreStop, StoreStop,
       Ws!switch, switch, Ws!stream_vars, stream_vars, Ws!buffer, buffer, Ws!history, history
  <1>22. \A t : Ws!ResetInit(t) <=> ResetInit(t)
    BY DEF Ws!ResetInit, ResetInit, Ws!Top, Top, Ws!Io, Io, Ws!Goto, Goto, Ws!StoreInit,
       StoreInit, Ws!ClearBuffers, ClearBuffers
  <1>23. \A refused : Ws!Start(refused) <=> Start(refused)
    BY DEF Ws!Start, Start, Ws!Top, Top, Ws!Io, Io, Ws!Goto, Goto, Ws!StartCas, StartCas,
       Ws!MayStart, MayStart, Ws!Locked, Locked, Ws!Threads, Threads, Ws!Resets, Resets,
       Ws!switch, switch, Ws!buffer, buffer
  <1>24. \A op, places : Ws!Handle(op, places) <=> Handle(op, places)
    BY DEF Ws!Handle, Handle, Ws!Handles, Handles, Ws!Succeeded, Succeeded, Ws!Call, Call, Ws!Io,
       Io, Ws!switch, switch, Ws!stream_vars, stream_vars, Ws!buffer, buffer, Ws!history, history
  <1> QED
    BY <1>1, <1>2, <1>3, <1>4, <1>5, <1>6, <1>7, <1>8, <1>9, <1>10, <1>11, <1>12, <1>13, <1>14,
       <1>15, <1>16, <1>17, <1>18, <1>19, <1>20, <1>21, <1>22, <1>23, <1>24

\* What the closing of its socket does in a WebsocketSslSession.
LEMMA WssAborts ==
  Wss!Aborted = Aborted /\ Wss!Unaborted = Unaborted
  BY DEF Wss!Aborted, Aborted, Wss!Unaborted, Unaborted, Wss!Select, Select, Wss!InOrder, InOrder,
     Wss!Cardinality, Cardinality

\* A WebsocketSslSession takes the steps of StreamSession.
LEMMA WssActions ==
  /\ Wss!Environment <=> Environment
  /\ Wss!DropSessions <=> DropSessions
  /\ Wss!HandleRead <=> HandleRead
  /\ Wss!HandleWrite <=> HandleWrite
  /\ \A t : Wss!Write(t) <=> Write(t)
  /\ \A t : Wss!WriteTail(t) <=> WriteTail(t)
  /\ \A t : Wss!CallShutdown(t) <=> CallShutdown(t)
  /\ \A t : Wss!Stop(t) <=> Stop(t)
  /\ \A t : Wss!Close(t) <=> Close(t)
  /\ \A t : Wss!RemoveSession(t) <=> RemoveSession(t)
  /\ \A t : Wss!CallbackReturns(t) <=> CallbackReturns(t)
  /\ Wss!AfterRead <=> AfterRead
  /\ Wss!Read <=> Read
  /\ Wss!ReleaseSent <=> ReleaseSent
  /\ Wss!HandleResolved <=> HandleResolved
  /\ \A t : Wss!MayConnect(t) <=> MayConnect(t)
  /\ Wss!Accepted <=> Accepted
  /\ \A op, refused : Wss!HandleOpened(op, refused) <=> HandleOpened(op, refused)
  /\ \A op, next : Wss!HandleStage(op, next) <=> HandleStage(op, next)
  /\ \A t : Wss!ResetStart(t) <=> ResetStart(t)
  /\ \A t : Wss!ResetStop(t) <=> ResetStop(t)
  /\ \A t : Wss!ResetInit(t) <=> ResetInit(t)
  /\ \A refused : Wss!Start(refused) <=> Start(refused)
  /\ \A op, places : Wss!Handle(op, places) <=> Handle(op, places)
  <1>1. Wss!Environment <=> Environment
    BY WssAborts DEF Wss!Environment, Environment, Wss!Settles, Settles, Wss!Arrives, Arrives,
       Wss!Completes, Completes, Wss!RemoveAt, RemoveAt, Wss!switch, switch, Wss!stream_vars,
       stream_vars, Wss!buffer, buffer, Wss!history, history
  <1>2. Wss!DropSessions <=> DropSessions
    BY WssAborts DEF Wss!DropSessions, DropSessions, Wss!asio_vars, asio_vars, Wss!switch, switch,
       Wss!buffer, buffer, Wss!history, history
  <1>3. Wss!HandleRead <=> HandleRead
    BY WssAborts DEF Wss!HandleRead, HandleRead, Wss!Handle, Handle, Wss!Handles, Handles,
       Wss!Succeeded, Succeeded, Wss!Shutdown, Shutdown, Wss!MayStop, MayStop, Wss!Call, Call,
       Wss!Io, Io, Wss!switch, switch, Wss!stream_vars, stream_vars, Wss!buffer, buffer,
       Wss!history, history
  <1>4. Wss!HandleWrite <=> HandleWrite
    BY WssAborts DEF Wss!HandleWrite, HandleWrite, Wss!Handle, Handle, Wss!Handles, Handles,
       Wss!Succeeded, Succeeded, Wss!Shutdown, Shutdown, Wss!MayStop, MayStop, Wss!has_stoped,
       has_stoped, Wss!Call, Call, Wss!Io, Io, Wss!switch, switch, Wss!stream_vars, stream_vars,
       Wss!buffer, buffer, Wss!history, history
  <1>5. \A t : Wss!Write(t) <=> Write(t)
    BY WssAborts DEF Wss!Write, Write, Wss!MayWrite, MayWrite, Wss!Reachable, Reachable,
       Wss!InUserCode, InUserCode, Wss!Io, Io, Wss!Callbacks, Callbacks, Wss!has_started,
       has_started, Wss!Longer, Longer, Wss!Enqueued, Enqueued, Wss!append, append, Wss!SendFront,
       SendFront, Wss!Begin, Begin, Wss!switch, switch, Wss!history, history, Wss!Locked, Locked,
       Wss!Threads, Threads, Wss!Top, Top, Wss!Resets, Resets
  <1>6. \A t : Wss!WriteTail(t) <=> WriteTail(t)
    BY WssAborts DEF Wss!WriteTail, WriteTail, Wss!MayWrite, MayWrite, Wss!Reachable, Reachable,
       Wss!InUserCode, InUserCode, Wss!Io, Io, Wss!Callbacks, Callbacks, Wss!has_started,
       has_started, Wss!Longer, Longer, Wss!Enqueued, Enqueued, Wss!append, append,
       Wss!append_tail, append_tail, Wss!ExtendsTail, ExtendsTail, Wss!Last, Last, Wss!SendFront,
       SendFront, Wss!Begin, Begin, Wss!switch, switch, Wss!history, history, Wss!Locked, Locked,
       Wss!Threads, Threads, Wss!Top, Top, Wss!Resets, Resets
  <1>7. \A t : Wss!CallShutdown(t) <=> CallShutdown(t)
    BY WssAborts DEF Wss!CallShutdown, CallShutdown, Wss!Reachable, Reachable, Wss!InUserCode,
       InUserCode, Wss!Io, Io, Wss!Callbacks, Callbacks, Wss!MayStop, MayStop, Wss!Call, Call,
       Wss!switch, switch, Wss!stream_vars, stream_vars, Wss!buffer, buffer, Wss!history, history
  <1>8. \A t : Wss!Stop(t) <=> Stop(t)
    BY WssAborts DEF Wss!Stop, Stop, Wss!Top, Top, Wss!Return, Return, Wss!Goto, Goto,
       Wss!StopCas, StopCas, Wss!switch, switch, Wss!stream_vars, stream_vars, Wss!buffer, buffer,
       Wss!history, history
  <1>9. \A t : Wss!Close(t) <=> Close(t)
    BY WssAborts DEF Wss!Close, Close, Wss!Locked, Locked, Wss!Threads, Threads, Wss!Top, Top,
       Wss!Io, Io, Wss!Resets, Resets, Wss!Goto, Goto, Wss!has_init, has_init, Wss!Abort, Abort,
       Wss!switch, switch, Wss!stream_vars, stream_vars, Wss!buffer, buffer, Wss!history, history
  <1>10. \A t : Wss!RemoveSession(t) <=> RemoveSession(t)
    BY WssAborts DEF Wss!RemoveSession, RemoveSession, Wss!Top, Top, Wss!Return, Return, Wss!Goto,
       Goto, Wss!switch, switch, Wss!buffer, buffer, Wss!history, history
  <1>11. \A t : Wss!CallbackReturns(t) <=> CallbackReturns(t)
    BY WssAborts DEF Wss!CallbackReturns, CallbackReturns, Wss!Top, Top, Wss!Callbacks, Callbacks,
       Wss!Return, Return, Wss!Goto, Goto, Wss!switch, switch, Wss!stream_vars, stream_vars,
       Wss!buffer, buffer, Wss!history, history
  <1>12. Wss!AfterRead <=> AfterRead
    BY WssAborts DEF Wss!AfterRead, AfterRead, Wss!Top, Top, Wss!Io, Io, Wss!Goto, Goto,
       Wss!has_stoped, has_stoped, Wss!switch, switch, Wss!stream_vars, stream_vars, Wss!buffer,
       buffer, Wss!history, history
  <1>13. Wss!Read <=> Read
    BY WssAborts DEF Wss!Read, Read, Wss!Top, Top, Wss!Io, Io, Wss!Return, Return, Wss!Goto, Goto,
       Wss!Begin, Begin, Wss!switch, switch, Wss!stream_vars, stream_vars, Wss!buffer, buffer,
       Wss!history, history
  <1>14. Wss!ReleaseSent <=> ReleaseSent
    BY WssAborts DEF Wss!ReleaseSent, ReleaseSent, Wss!Top, Top, Wss!Io, Io, Wss!Return, Return,
       Wss!Goto, Goto, Wss!SendFront, SendFront, Wss!Begin, Begin, Wss!switch, switch,
       Wss!history, history, Wss!Locked, Locked, Wss!Threads, Threads, Wss!Resets, Resets
  <1>15. Wss!HandleResolved <=> HandleResolved
    BY WssAborts DEF Wss!HandleResolved, HandleResolved, Wss!Handles, Handles, Wss!Succeeded,
       Succeeded, Wss!Io, Io, Wss!Call, Call, Wss!switch, switch, Wss!stream_vars, stream_vars,
       Wss!buffer, buffer, Wss!history, history
  <1>16. \A t : Wss!MayConnect(t) <=> MayConnect(t)
    BY WssAborts DEF Wss!MayConnect, MayConnect, Wss!Top, Top, Wss!Io, Io, Wss!Threads, Threads,
       Wss!Opening, Opening, Wss!Stages, Stages, Wss!buffer, buffer, Wss!history, history,
       Wss!Occupied, Occupied
  <1>17. Wss!Accepted <=> Accepted
    BY WssAborts DEF Wss!Accepted, Accepted, Wss!buffer, buffer, Wss!history, history
  <1>18. \A op, refused : Wss!HandleOpened(op, refused) <=> HandleOpened(op, refused)
    BY DEF Wss!HandleOpened, HandleOpened, Wss!Handle, Handle, Wss!Handles, Handles,
       Wss!Succeeded, Succeeded, Wss!MayStart, MayStart, Wss!Call, Call, Wss!Io, Io, Wss!switch,
       switch, Wss!stream_vars, stream_vars, Wss!buffer, buffer, Wss!history, history
  <1>19. \A op, next : Wss!HandleStage(op, next) <=> HandleStage(op, next)
    BY DEF Wss!HandleStage, HandleStage, Wss!Handle, Handle, Wss!Handles, Handles, Wss!Succeeded,
       Succeeded, Wss!Call, Call, Wss!Io, Io, Wss!switch, switch, Wss!stream_vars, stream_vars,
       Wss!buffer, buffer, Wss!history, history
  <1>20. \A t : Wss!ResetStart(t) <=> ResetStart(t)
    BY DEF Wss!ResetStart, ResetStart, Wss!Top, Top, Wss!Goto, Goto, Wss!StoreStart, StoreStart,
       Wss!switch, switch, Wss!stream_vars, stream_vars, Wss!buffer, buffer, Wss!history, history
  <1>21. \A t : Wss!ResetStop(t) <=> ResetStop(t)
    BY DEF Wss!ResetStop, ResetStop, Wss!Top, Top, Wss!Goto, Goto, Wss!StoreStop, StoreStop,
       Wss!switch, switch, Wss!stream_vars, stream_vars, Wss!buffer, buffer, Wss!history, history
  <1>22. \A t : Wss!ResetInit(t) <=> ResetInit(t)
    BY DEF Wss!ResetInit, ResetInit, Wss!Top, Top, Wss!Io, Io, Wss!Goto, Goto, Wss!StoreInit,
       StoreInit, Wss!ClearBuffers, ClearBuffers
  <1>23. \A refused : Wss!Start(refused) <=> Start(refused)
    BY DEF Wss!Start, Start, Wss!Top, Top, Wss!Io, Io, Wss!Goto, Goto, Wss!StartCas, StartCas,
       Wss!MayStart, MayStart, Wss!Locked, Locked, Wss!Threads, Threads, Wss!Resets, Resets,
       Wss!switch, switch, Wss!buffer, buffer
  <1>24. \A op, places : Wss!Handle(op, places) <=> Handle(op, places)
    BY DEF Wss!Handle, Handle, Wss!Handles, Handles, Wss!Succeeded, Succeeded, Wss!Call, Call,
       Wss!Io, Io, Wss!switch, switch, Wss!stream_vars, stream_vars, Wss!buffer, buffer,
       Wss!history, history
  <1> QED
    BY <1>1, <1>2, <1>3, <1>4, <1>5, <1>6, <1>7, <1>8, <1>9, <1>10, <1>11, <1>12, <1>13, <1>14,
       <1>15, <1>16, <1>17, <1>18, <1>19, <1>20, <1>21, <1>22, <1>23, <1>24

------------------------------------------------------------------------------
(* The kinds of steps                                                      *)

\* The operations that open a session, and those after which its switch is initialised and
\* not started: of a WebsocketSslSession, which initialises the switch in handle_connect, the
\* later ones only.
Openers == Stages \cup {"start"}
Starting ==
  IF class = "websocket_ssl" THEN {"tls", "handshake", "accept", "start"} ELSE Openers

ConnectsTcp(t) ==
  /\ MayConnect(t) /\ init
  /\ sock' = "opening" /\ pending' = Append(pending, "connect") /\ UNCHANGED ready

ConnectsWs(t) ==
  MayConnect(t) /\ init /\ pending' = Append(pending, "resolve") /\ UNCHANGED <<sock, ready>>

ConnectsWss(t) ==
  MayConnect(t) /\ pending' = Append(pending, "resolve") /\ UNCHANGED <<sock, ready, switch>>

TimeOut ==
  /\ ready' = Append(ready, [op |-> "overtime", ok |-> TRUE])
  /\ UNCHANGED <<sock, pending, pc, connects, switch, stream_vars>>

TimedOut ==
  /\ Handles("overtime")
  /\ sock' = "closed" /\ Abort(Tail(ready))
  /\ UNCHANGED <<pc, connects, switch, stream_vars>>

Starts == Handle("start", <<"start">>) /\ init

AcceptsTcp ==
  /\ Accepted
  /\ ready' = Append(ready, [op |-> "start", ok |-> TRUE]) /\ UNCHANGED <<pending, switch>>

Accepts(op) == Accepted /\ init /\ pending' = Append(pending, op) /\ UNCHANGED ready

Secures ==
  IF Handles("connect") /\ Succeeded
  THEN /\ ready' = Tail(ready)
       /\ \/ m_binit /\ UNCHANGED <<pending, pc, switch>>
          \/ init /\ Call(Io, <<"close">>) /\ UNCHANGED pending
          \/ init /\ pending' = Append(pending, "tls") /\ UNCHANGED pc
       /\ overtaken' = (overtaken \/ Occupied(Io))
       /\ UNCHANGED <<sock, connects, buffer, pieces, overlapped, late, role, m_sessions>>
  ELSE Handle("connect", <<"close">>) /\ UNCHANGED switch

Opens == \E op \in Starting \ {"start"}, refused \in {<<>>, <<"close">>} : HandleOpened(op, refused)
Switches == \E refused \in {<<>>, <<"close">>} : Start(refused)
Goes == \E op, next \in Starting \ {"start"} : HandleStage(op, next)
Connects ==
  \E t \in Threads : \/ class = "tcp" /\ ConnectsTcp(t)
                     \/ class = "websocket" /\ ConnectsWs(t)
                     \/ class = "websocket_ssl" /\ ConnectsWss(t)

Shared ==
  \/ HandleRead \/ HandleWrite \/ Environment \/ DropSessions \/ AfterRead \/ Read \/ ReleaseSent
  \/ \E t \in Threads : \/ Write(t) \/ WriteTail(t) \/ CallShutdown(t) \/ Stop(t) \/ Close(t)
                        \/ ResetStart(t) \/ ResetStop(t) \/ ResetInit(t)
                        \/ RemoveSession(t) \/ CallbackReturns(t)

\* Every step is of one of these kinds, whatever the class.
Kinds ==
  \/ Shared \/ Opens \/ Switches \/ Goes \/ Connects \/ TimeOut
  \/ class # "tcp" /\ HandleResolved
  \/ class = "websocket_ssl" /\ Secures
  \/ class = "tcp" /\ (TimedOut \/ Starts \/ AcceptsTcp)
  \/ \E op \in Starting \ {"start"} : Accepts(op)

\* A step of an instance is a step of one of these kinds.
LEMMA StepKinds ==
  ASSUME Next
  PROVE  class' = class /\ Kinds
  <1>0. class' = class
    BY DEF Next, Step
  <1>1. CASE class = "tcp" /\ Tcp!Next
    <2> USE <1>0, <1>1
    <2>1. CASE \E t \in Threads : Tcp!connect(t)
      <3>1. PICK t \in Threads : Tcp!connect(t)
        BY <2>1
      <3>2. ConnectsTcp(t)
        BY <3>1, TcpActions DEF Tcp!connect, ConnectsTcp, Tcp!init, init
      <3> QED
        BY <3>2 DEF Kinds, Connects
    <2>2. CASE Tcp!handle_connect
      <3>1. HandleOpened("connect", <<>>)
        BY <2>2, TcpActions DEF Tcp!handle_connect
      <3> QED
        BY <3>1 DEF Kinds, Opens, Starting, Openers, Stages
    <2>3. CASE Tcp!handle_overtimer
      <3>1. TimedOut
        BY <2>3, TcpAborts
           DEF Tcp!handle_overtimer, TimedOut, Tcp!Handles, Handles, Tcp!Abort, Abort, Tcp!Io, Io,
               Tcp!switch, switch, Tcp!stream_vars, stream_vars, Tcp!buffer, buffer, Tcp!history,
               history
      <3> QED
        BY <3>1 DEF Kinds
    <2>4. CASE Tcp!session_start
      <3>1. Starts
        BY <2>4, TcpActions DEF Tcp!session_start, Starts, Tcp!init, init
      <3> QED
        BY <3>1 DEF Kinds
    <2>5. CASE Tcp!TimerExpires
      <3>1. TimeOut
        BY <2>5 DEF Tcp!TimerExpires, TimeOut, Tcp!switch, switch, Tcp!stream_vars, stream_vars,
                    Tcp!buffer, buffer, Tcp!history, history
      <3> QED
        BY <3>1 DEF Kinds
    <2>6. CASE Tcp!handle_accept
      <3>1. AcceptsTcp
        BY <2>6, TcpActions DEF Tcp!handle_accept, AcceptsTcp, Tcp!switch, switch
      <3> QED
        BY <3>1 DEF Kinds
    <2>7. CASE \/ Tcp!HandleRead \/ Tcp!HandleWrite \/ Tcp!Environment \/ Tcp!DropSessions
               \/ \E t \in Threads : \/ Tcp!Write(t) \/ Tcp!WriteTail(t) \/ Tcp!CallShutdown(t)
                                     \/ Tcp!Proceeds(t)
      <3>1. Shared
        BY <2>7, TcpActions DEF Shared, Tcp!Proceeds
      <3> QED
        BY <3>1 DEF Kinds
    <2>8. CASE Tcp!Start(<<>>)
      BY <2>8, TcpActions DEF Kinds, Switches
    <2>9. Tcp!Threads = Threads
      BY DEF Tcp!Threads, Threads, Tcp!Io, Io
    <2> QED
      BY <2>1, <2>2, <2>3, <2>4, <2>5, <2>6, <2>7, <2>8, <2>9 DEF Tcp!Next, Tcp!Handlers
  <1>2. CASE class = "websocket" /\ Ws!Next
    <2> USE <1>0, <1>2
    <2>1. CASE \E t \in Threads : Ws!connect(t)
      <3>1. PICK t \in Threads : Ws!connect(t)
        BY <2>1
      <3>2. ConnectsWs(t)
        BY <3>1, WsActions DEF Ws!connect, ConnectsWs, Ws!init, init
      <3> QED
        BY <3>2 DEF Kinds, Connects
    <2>2. CASE Ws!handle_resolve
      BY <2>2, WsActions DEF Ws!handle_resolve, Kinds
    <2>3. CASE Ws!handle_connect
      <3>1. HandleStage("connect", "handshake")
        BY <2>3, WsActions DEF Ws!handle_connect
      <3> QED
        BY <3>1 DEF Kinds, Goes, Starting, Openers, Stages
    <2>4. CASE Ws!handle_handshake \/ Ws!handle_start
      <3>1. HandleOpened("handshake", <<"close">>) \/ HandleOpened("accept", <<"close">>)
        BY <2>4, WsActions DEF Ws!handle_handshake, Ws!handle_start
      <3> QED
        BY <3>1 DEF Kinds, Opens, Starting, Openers, Stages
    <2>5. CASE Ws!handle_accept
      <3>1. Accepts("accept")
        BY <2>5, WsActions DEF Ws!handle_accept, Accepts, Ws!init, init
      <3> QED
        BY <3>1 DEF Kinds, Starting, Openers, Stages
    <2>6. CASE \/ Ws!handle_read \/ Ws!handle_write \/ Ws!clear \/ Ws!Environment
               \/ \E t \in Threads : Ws!write(t) \/ Ws!write_tail(t) \/ Ws!shutdown(t) \/ Ws!Proceeds(t)
      <3>1. Shared
        BY <2>6, WsActions DEF Shared, Ws!Proceeds, Ws!handle_read, Ws!handle_write, Ws!clear, Ws!write,
                               Ws!write_tail, Ws!shutdown
      <3> QED
        BY <3>1 DEF Kinds
    <2>7. CASE Ws!Start(<<"close">>)
      BY <2>7, WsActions DEF Kinds, Switches
    <2>8. Ws!Threads = Threads
      BY DEF Ws!Threads, Threads, Ws!Io, Io
    <2> QED
      BY <2>1, <2>2, <2>3, <2>4, <2>5, <2>6, <2>7, <2>8 DEF Ws!Next, Ws!Handlers
  <1>3. CASE class = "websocket_ssl" /\ Wss!Next
    <2> USE <1>0, <1>3
    <2>1. CASE \E t \in Threads : Wss!connect(t)
      <3>1. PICK t \in Threads : Wss!connect(t)
        BY <2>1
      <3>2. ConnectsWss(t)
        BY <3>1, WssActions DEF Wss!connect, ConnectsWss, Wss!switch, switch
      <3> QED
        BY <3>2 DEF Kinds, Connects
    <2>2. CASE Wss!handle_resolve
      BY <2>2, WssActions DEF Wss!handle_resolve, Kinds
    <2>3. CASE Wss!handle_connect
      <3>1. Secures
        BY <2>3, WssActions
           DEF Wss!handle_connect, Secures, Wss!Handles, Handles, Wss!Succeeded, Succeeded, Wss!Io, Io,
               Wss!init, init, Wss!Call, Call, Wss!Occupied, Occupied, Wss!Threads, Threads, Wss!switch, switch, Wss!stream_vars, stream_vars, Wss!buffer, buffer,
               Wss!history, history
      <3> QED
        BY <3>1 DEF Kinds
    <2>4. CASE Wss!handle_handshake
      <3>1. HandleStage("tls", IF role = "server" THEN "accept" ELSE "handshake")
        BY <2>4, WssActions DEF Wss!handle_handshake
      <3> QED
        BY <3>1 DEF Kinds, Goes, Starting, Openers, Stages
    <2>5. CASE Wss!handle_start
      <3>1. HandleOpened("handshake", <<"close">>) \/ HandleOpened("accept", <<"close">>)
        BY <2>5, WssActions DEF Wss!handle_start
      <3> QED
        BY <3>1 DEF Kinds, Opens, Starting, Openers, Stages
    <2>6. CASE Wss!handle_accept
      <3>1. Accepts("tls")
        BY <2>6, WssActions DEF Wss!handle_accept, Accepts, Wss!init, init
      <3> QED
        BY <3>1 DEF Kinds, Starting, Openers, Stages
    <2>7. CASE \/ Wss!handle_read \/ Wss!handle_write \/ Wss!clear \/ Wss!Environment
               \/ \E t \in Threads : \/ Wss!write(t) \/ Wss!write_tail(t) \/ Wss!shutdown(t)
                                     \/ Wss!Proceeds(t)
      <3>1. Shared
        BY <2>7, WssActions DEF Shared, Wss!Proceeds, Wss!handle_read, Wss!handle_write, Wss!clear,
                                Wss!write, Wss!write_tail, Wss!shutdown
      <3> QED
        BY <3>1 DEF Kinds
    <2>8. CASE Wss!Start(<<"close">>)
      BY <2>8, WssActions DEF Kinds, Switches
    <2>9. Wss!Threads = Threads
      BY DEF Wss!Threads, Threads, Wss!Io, Io
    <2> QED
      BY <2>1, <2>2, <2>3, <2>4, <2>5, <2>6, <2>7, <2>8, <2>9 DEF Wss!Next, Wss!Handlers
  <1> QED
    BY <1>1, <1>2, <1>3 DEF Next, Step

------------------------------------------------------------------------------
(* The inductive invariant                                                 *)

Tokens(S) == [op : S, ok : BOOLEAN]
Ok(op) == {[op |-> op, ok |-> TRUE]}

\* What a stack may be: inside a function of the session a thread is in that function
\* only, with the callbacks below that called it; what a read or a write does after its
\* callback is at the bottom, and the opening of the session stands alone; only the io thread
\* handles reads, writes and openings.
Inside == {"stop", "close", "remove_session"} \cup Resets
Rests == {"after_read", "release"}
Handling == {"read", "start"}
Places == Callbacks \cup Inside \cup Rests \cup Handling
StackOK(s, t) ==
  /\ s \in Seq(Places)
  /\ Behind(s, Places, Inside \cup Handling)
  /\ Behind(s, Rests, Places)
  /\ Behind(s, {"read"}, Rests)
  /\ Behind(s, {"start"}, Places)
  /\ t # Io => None(s, Rests \cup Handling)

TypeInv ==
  /\ TypeOK
  /\ role \in {"client", "server"} /\ class \in Classes
  /\ overtaken \in BOOLEAN /\ overlapped \in BOOLEAN /\ late \in BOOLEAN
  /\ tailed \in BOOLEAN /\ m_sessions \in BOOLEAN
  /\ m_write_buf \in Seq(Seq(1 .. MaxPieces) \ {<<>>})
  /\ \A t \in Threads : StackOK(pc[t], t)

\* A client has no map; a server's session begins its life once, when it is accepted.
RoleInv ==
  /\ role = "server" => ~overlapped
  /\ role = "client" => ~m_sessions /\ None(ready, Tokens({"start"}))
  /\ role = "server" /\ connects = 0 =>
       /\ ~m_binit /\ ~m_bstart /\ ~m_sessions
       /\ pending = <<>> /\ None(ready, Tokens(Transfers \cup Openers))
       /\ \A t \in Threads : pc[t] = <<>>

\* m_bstop is set from the compare_exchange of a stop() to the store of a reset(); and the
\* switch is started only while it is initialised, but for a late start.
SwitchInv ==
  /\ m_bstop => \E t \in Threads : Top(t) \in {"close", "reset_start", "reset_stop"}
  /\ ~late => /\ m_bstart => m_binit
              /\ \A t \in Threads : Top(t) \in {"reset_stop", "reset_init"} => ~m_bstart

\* A session that is not started has nothing to write, once its close() is through.
IdleInv ==
  /\ Locked => None(pending, {"write"})
  /\ ~Locked /\ ~(m_binit /\ m_bstart) =>
       m_current_send_msg = <<>> /\ m_write_buf = <<>> /\ None(pending, {"write"})

\* One attempt to open is under way at most, and it has ended when the session is started.
AttemptInv ==
  ~overlapped =>
    /\ OneOf(pending, ready, Openers, Tokens(Openers))
    /\ ~late /\ m_bstart => Neither(pending, ready, Starting, Tokens(Starting))
    /\ ~late /\ Top(Io) = "start" =>
         m_binit /\ ~m_bstart /\ Neither(pending, ready, Starting, Tokens(Starting))

\* The io thread works on what op has brought: nothing else of op is outstanding or waits.
Single(op, P) ==
  /\ OneOf(pending, ready, {op}, Ok(op))
  /\ ~None(pc[Io], P) => Neither(pending, ready, {op}, Ok(op))

\* One write is outstanding in a started session, or has completed, or is being followed
\* up; and m_current_send_msg is its message.  The writes of an earlier life have
\* completed, and been handled, before this one is started.
WriteInv ==
  ~overlapped /\ ~late =>
    /\ Behind(ready, Tokens(Starting), Ok("write"))
    /\ Top(Io) = "start" => None(ready, Ok("write"))
    /\ m_bstart => Single("write", {"release"})
    /\ m_bstart /\ m_current_send_msg = <<>> =>
         None(pc[Io], {"release"}) /\ Neither(pending, ready, {"write"}, Ok("write"))

\* The same for the reads.
ReadInv ==
  ~overlapped /\ ~overtaken =>
    /\ Behind(ready, Tokens(Starting), Ok("read"))
    /\ Top(Io) = "start" => None(ready, Ok("read"))
    /\ m_bstart => Single("read", {"read", "after_read"})
    /\ ~m_bstart \/ Locked =>
         /\ None(pending, {"read"})
         /\ Top(Io) = "read" => sock # "open" /\ None(pending, {"connect"})

\* A thread other than the io thread closes a started session only after it has stopped it.
StopsFirst == \A t \in Users : m_bstart /\ Top(t) \in {"close", "reset_start"} => m_bstop

\* From the beginning of a life to its start no thread stops or closes the session.
EarlyInv ==
  ~overlapped /\ ~overtaken =>
    /\ ~late
    /\ \/ Neither(pending, ready, Starting, Tokens(Starting)) /\ Top(Io) # "start"
       \/ ~m_bstart /\ (m_binit \/ role = "server") /\ \A t \in Threads : Top(t) \notin Inside
    /\ StopsFirst

\* Who closes a client's open socket.
OwnerInv ==
  ~overlapped /\ ~overtaken /\ role = "client" /\ sock = "open" =>
    (m_binit /\ ~Locked) \/ (class = "websocket_ssl" /\ ~None(ready, Ok("connect")))

\* As long as no message has been extended, a message is one piece.
LenInv ==
  ~tailed =>
    /\ \A i \in DOMAIN m_write_buf : Len(m_write_buf[i]) = 1
    /\ m_all_len = Len(m_write_buf) /\ m_all_len <= pieces

SessionInv ==
  /\ TypeInv /\ RoleInv /\ SwitchInv /\ IdleInv /\ AttemptInv /\ WriteInv /\ ReadInv
  /\ EarlyInv /\ OwnerInv /\ LenInv

------------------------------------------------------------------------------
(* What the helpers do                                                     *)

\* What the closing of a socket does to what was outstanding and to what waits.
LEMMA AbortKeeps ==
  ASSUME pending \in Seq(Transfers \cup Stages), NEW queue \in Seq(Completion)
  PROVE  /\ Unaborted \in Seq(Transfers \cup Stages) /\ queue \o Aborted \in Seq(Completion)
         /\ \A P, Q : Q \subseteq Tokens(P) /\ Neither(pending, queue, P, Q)
                        => Neither(Unaborted, queue \o Aborted, P, Q)
         /\ \A P, Q : Q \subseteq Tokens(P) /\ OneOf(pending, queue, P, Q)
                        => OneOf(Unaborted, queue \o Aborted, P, Q)
         /\ \A op : None(queue \o Aborted, Ok(op)) <=> None(queue, Ok(op))
         /\ \A P, op : Behind(queue, P, Ok(op)) => Behind(queue \o Aborted, P, Ok(op))
         /\ \A P : "resolve" \notin P \/ None(pending, P) => None(Unaborted, P)
         /\ \A Q : ~None(queue, Q) => ~None(queue \o Aborted, Q)
         /\ ~None(pending, {"read"}) => ~None(queue \o Aborted, Tokens({"read"}))
  <1> DEFINE Lost == {i \in DOMAIN pending : pending[i] # "resolve"}
             Kept == {i \in DOMAIN pending : pending[i] = "resolve"}
             ops == Select(pending, Lost)
             T == Transfers \cup Stages
  <1>0. Lost \in SUBSET (DOMAIN pending) /\ Kept \in SUBSET (DOMAIN pending) /\ pending \in Seq(T)
    OBVIOUS
  <1>1. ops \in Seq(T) /\ Unaborted \in Seq(T)
    BY <1>0, SelectElements DEF Unaborted
  <1>2. Aborted = [i \in DOMAIN ops |-> [op |-> ops[i], ok |-> FALSE]]
    BY DEF Aborted
  <1>3. /\ \A P : None(pending, P) => None(ops, P)
        /\ \A P : Once(pending, P) => Once(ops, P)
        /\ \A P, i : i \in Lost /\ pending[i] \in P => ~None(ops, P)
        /\ \A P, i : Once(pending, P) /\ i \in DOMAIN pending /\ pending[i] \in P /\ i \notin Lost
                       => None(ops, P)
    BY <1>0, SelectKeeps
  <1>4. /\ \A P : None(pending, P) => None(Unaborted, P)
        /\ \A P : Once(pending, P) => Once(Unaborted, P)
        /\ \A P : (\A i \in Kept : pending[i] \notin P) => None(Unaborted, P)
    BY <1>0, SelectKeeps DEF Unaborted
  <1>5. \A P : "resolve" \notin P => None(Unaborted, P)
    BY <1>4
  <1> HIDE DEF ops
  <1>6. DOMAIN Aborted = DOMAIN ops /\ \A i \in DOMAIN ops : Aborted[i] = [op |-> ops[i], ok |-> FALSE]
    BY <1>2
  <1>7. Aborted \in Seq(Completion)
    <2>1. DOMAIN ops = 1 .. Len(ops) /\ Len(ops) \in Nat /\ \A i \in 1 .. Len(ops) : ops[i] \in T
      BY <1>1
    <2>2. \A i \in 1 .. Len(ops) : [op |-> ops[i], ok |-> FALSE] \in Completion
      BY <2>1 DEF Completion, T
    <2> QED
      BY <1>2, <2>1, <2>2
  <1>8. \A P, Q : Q \subseteq Tokens(P) /\ None(ops, P) => None(Aborted, Q)
    BY <1>6 DEF None, Tokens
  <1>9. \A P, Q : Q \subseteq Tokens(P) /\ Once(ops, P) => Once(Aborted, Q)
    BY <1>6 DEF Once, Tokens
  <1>10. \A op : None(Aborted, Ok(op))
    BY <1>6 DEF None, Ok
  <1>11. ~None(ops, {"read"}) => ~None(Aborted, Tokens({"read"}))
    <2>1. ASSUME NEW i \in DOMAIN ops, ops[i] = "read" PROVE ~None(Aborted, Tokens({"read"}))
      <3>1. \A r \in {"read"} : [op |-> r, ok |-> FALSE] \in Tokens({"read"})
        BY DEF Tokens
      <3>2. Aborted[i] \in Tokens({"read"}) /\ i \in DOMAIN Aborted
        BY <1>6, <2>1, <3>1
      <3> QED
        BY <3>2 DEF None
    <2> QED
      BY <2>1 DEF None
  <1>12. /\ queue \o Aborted \in Seq(Completion)
         /\ \A P : None(queue \o Aborted, P) <=> None(queue, P) /\ None(Aborted, P)
         /\ \A P : Once(queue, P) /\ Once(Aborted, P) /\ (None(queue, P) \/ None(Aborted, P))
                     => Once(queue \o Aborted, P)
         /\ \A P, Q : Behind(queue, P, Q) /\ None(Aborted, Q) => Behind(queue \o Aborted, P, Q)
    BY <1>7, ConcatKeeps, ConcatElements
  <1>13. ASSUME NEW P, NEW Q, Q \subseteq Tokens(P), OneOf(pending, queue, P, Q)
         PROVE  OneOf(Unaborted, queue \o Aborted, P, Q)
    <2>1. Once(pending, P) /\ Once(queue, Q) /\ (None(pending, P) \/ None(queue, Q))
      BY <1>13 DEF OneOf
    <2>2. None(ops, P) \/ None(Unaborted, P)
      <3>1. CASE \E i \in Kept : pending[i] \in P
        <4>1. PICK i \in Kept : pending[i] \in P
          BY <3>1
        <4> QED
          BY <1>3, <2>1, <4>1
      <3> QED
        BY <1>4, <3>1
    <2>3. Once(ops, P) /\ Once(Unaborted, P)
      BY <1>3, <1>4, <2>1
    <2>4. None(Aborted, Q) \/ None(Unaborted, P)
      BY <1>8, <1>13, <2>2
    <2>5. None(pending, P) => None(Aborted, Q) /\ None(Unaborted, P)
      BY <1>3, <1>4, <1>8, <1>13
    <2>6. Once(Aborted, Q)
      BY <1>9, <1>13, <2>3
    <2> QED
      BY <1>12, <2>1, <2>3, <2>4, <2>5, <2>6 DEF OneOf
  <1>14. ASSUME NEW P, NEW Q, Q \subseteq Tokens(P), Neither(pending, queue, P, Q)
         PROVE  Neither(Unaborted, queue \o Aborted, P, Q)
    <2>1. None(pending, P) /\ None(queue, Q)
      BY <1>14 DEF Neither
    <2>2. None(Aborted, Q) /\ None(Unaborted, P)
      BY <1>3, <1>4, <1>8, <1>14, <2>1
    <2> QED
      BY <1>12, <2>1, <2>2 DEF Neither
  <1>15. ~None(pending, {"read"}) => ~None(ops, {"read"})
    <2>1. ASSUME NEW i \in DOMAIN pending, pending[i] \in {"read"} PROVE ~None(ops, {"read"})
      BY <1>3, <2>1
    <2> QED
      BY <2>1 DEF None
  <1> QED
    BY <1>1, <1>4, <1>5, <1>10, <1>11, <1>12, <1>13, <1>14, <1>15 DEF T

\* A short sequence.
LEMMA ShortOver ==
  ASSUME NEW S
  PROVE  /\ <<>> \in Seq(S)
         /\ \A x \in S : <<x>> \in Seq(S)
         /\ \A x, y \in S : <<x, y>> \in Seq(S)
  <1>1. \A x, y \in S : <<x, y>> \in Seq(S)
    OBVIOUS
  <1>2. \A x \in S : <<x>> \in Seq(S)
    OBVIOUS
  <1> QED
    BY <1>1, <1>2

\* The elements of a short sequence.
LEMMA Short ==
  /\ \A P : None(<<>>, P)
  /\ \A x, P : None(<<x>>, P) <=> x \notin P
  /\ \A x, y, P : None(<<x, y>>, P) <=> x \notin P /\ y \notin P
  /\ \A P, Q : Behind(<<>>, P, Q)
  /\ \A x, P, Q : Behind(<<x>>, P, Q)
  /\ \A x, y, P, Q : Behind(<<x, y>>, P, Q) <=> (x \in P => y \notin Q)
  BY DEF None, Behind

\* A stack without its top.
LEMMA Below ==
  ASSUME NEW s, NEW t, StackOK(s, t), s # <<>>
  PROVE  /\ StackOK(Tail(s), t) /\ None(Tail(s), Inside \cup Handling)
         /\ Head(s) \in Places
         /\ Head(s) \in Rests => None(Tail(s), Places)
         /\ Head(s) = "read" => None(Tail(s), Rests)
         /\ Head(s) = "start" => Tail(s) = <<>>
         /\ \A P : None(s, P) => None(Tail(s), P)
         /\ \A P : Head(s) \notin P => (None(Tail(s), P) <=> None(s, P))
         /\ \A P : Head(s) \in P => ~None(s, P)
  <1>1. s \in Seq(Places)
    BY DEF StackOK
  <1>2. Head(s) \in Places /\ Tail(s) \in Seq(Places) /\ Head(s) = s[1] /\ 1 \in DOMAIN s
    BY <1>1
  <1>3. \A P : Head(s) \in P => ~None(s, P)
    BY <1>2 DEF None
  <1>4. Head(s) = "start" => Tail(s) = <<>>
    <2>1. Head(s) = "start" => None(Tail(s), Places)
      BY <1>1, <1>2, TailKeeps DEF StackOK
    <2>2. Tail(s) # <<>> => 1 \in DOMAIN Tail(s) /\ Tail(s)[1] \in Places
      BY <1>2
    <2> QED
      BY <2>1, <2>2 DEF None
  <1> QED
    BY <1>1, <1>2, <1>3, <1>4, TailKeeps DEF StackOK

\* What may be put on a stack that is in no function of the session.
LEMMA Above ==
  ASSUME NEW s, NEW t, StackOK(s, t), None(s, Inside \cup Handling), NEW places,
         \/ places \in {<<>>, <<"stop">>, <<"close">>, <<"reset_start">>, <<"reset_stop">>,
                        <<"reset_init">>, <<"close_cbk">>, <<"remove_session", "close_cbk">>}
         \/ places = <<"read">> /\ t = Io /\ None(s, Rests)
  PROVE  /\ StackOK(places \o s, t)
         /\ \A P : None(places \o s, P) <=> None(places, P) /\ None(s, P)
  <1>1. s \in Seq(Places) /\ places \in Seq(Places)
    <2>1. s \in Seq(Places)
      BY DEF StackOK
    <2>2. {"stop", "close", "reset_start", "reset_stop", "reset_init", "close_cbk",
           "remove_session", "read"} \subseteq Places
      BY DEF Places, Inside, Resets, Handling, Callbacks
    <2> QED
      BY <2>1, <2>2, ShortOver
  <1>2. places \o s \in Seq(Places)
    BY <1>1, ConcatElements
  <1>3. /\ \A P : None(places \o s, P) <=> None(places, P) /\ None(s, P)
        /\ \A P, Q : Behind(places, P, Q) /\ None(s, Q) => Behind(places \o s, P, Q)
        /\ \A P, Q : Behind(places, P, Q) /\ Behind(s, P, Q) /\ None(places, P)
                       => Behind(places \o s, P, Q)
    BY <1>1, ConcatKeeps
  <1>4. /\ Behind(s, Places, Inside \cup Handling) /\ Behind(s, Rests, Places)
        /\ Behind(s, {"read"}, Rests) /\ Behind(s, {"start"}, Places) /\ (t # Io => None(s, Rests \cup Handling))
    BY DEF StackOK
  <1>5. /\ Behind(places, Places, Inside \cup Handling) /\ Behind(places, Rests, Places)
        /\ Behind(places, {"read"}, Rests) /\ Behind(places, {"start"}, Places)
    BY Short DEF Places, Inside, Resets, Handling, Rests, Callbacks
  <1>6. None(places, Rests) /\ None(places, {"start"})
    BY Short DEF Rests
  <1>7. None(places, {"read"}) \/ None(s, Rests)
    BY Short
  <1>8. t # Io => None(places, Rests \cup Handling)
    BY Short DEF Rests, Handling
  <1> QED
    BY <1>2, <1>3, <1>4, <1>5, <1>6, <1>7, <1>8 DEF StackOK

\* What the io thread has to do when it takes a completion.
LEMMA Taken ==
  ASSUME NEW places \in {<<>>, <<"stop">>, <<"close">>, <<"read_cbk", "after_read">>, <<"release">>,
                         <<"write_cbk", "release">>, <<"start">>, <<"read", "open_cbk">>}
  PROVE  StackOK(places, Io) /\ places \o <<>> = places
  <1>1. places \in Seq(Places)
    <2>1. {"stop", "close", "read_cbk", "after_read", "release", "write_cbk", "start", "read",
           "open_cbk"} \subseteq Places
      BY DEF Places, Inside, Rests, Handling, Callbacks
    <2> QED
      BY <2>1, ShortOver
  <1>2. /\ Behind(places, Places, Inside \cup Handling) /\ Behind(places, Rests, Places)
        /\ Behind(places, {"read"}, Rests) /\ Behind(places, {"start"}, Places)
    BY Short DEF Places, Inside, Resets, Rests, Handling, Callbacks
  <1>3. places \o <<>> = places
    BY <1>1
  <1> QED
    BY <1>1, <1>2, <1>3 DEF StackOK

\* A thread goes on to places.
LEMMA GotoKeeps ==
  ASSUME TypeInv, NEW t \in Threads, pc[t] # <<>>, NEW places, Goto(t, places),
         \/ places \in {<<>>, <<"close">>, <<"reset_start">>, <<"reset_stop">>, <<"reset_init">>,
                        <<"close_cbk">>, <<"remove_session", "close_cbk">>}
         \/ places = <<"read">> /\ t = Io /\ Top(Io) = "after_read"
  PROVE  /\ DOMAIN pc' = Threads /\ \A s \in Threads : StackOK(pc'[s], s)
         /\ \A s \in Threads : s # t => pc'[s] = pc[s] /\ Top(s)' = Top(s)
         /\ \A P : None(pc'[t], P) <=> None(places, P) /\ None(Tail(pc[t]), P)
         /\ places = <<>> => None(pc'[t], Inside \cup Handling)
         /\ Top(t)' \in IF places = <<>> THEN Callbacks \cup Rests \cup {"out"} ELSE {Head(places)}
  <1> DEFINE s0 == Tail(pc[t])
  <1>1. StackOK(pc[t], t) /\ DOMAIN pc = Threads
    BY DEF TypeInv, TypeOK, AsioTypeOK
  <1>2. StackOK(s0, t) /\ None(s0, Inside \cup Handling) /\ (Head(pc[t]) \in Rests => None(s0, Places))
    BY <1>1, Below
  <1>3. places = <<"read">> => None(s0, Rests)
    BY <1>2 DEF Top, None, Rests, Places
  <1> HIDE DEF s0
  <1>4. /\ StackOK(places \o s0, t)
        /\ \A P : None(places \o s0, P) <=> None(places, P) /\ None(s0, P)
    BY <1>2, <1>3, Above
  <1>5. pc'[t] = places \o s0 /\ DOMAIN pc' = Threads /\ \A s \in Threads : s # t => pc'[s] = pc[s]
    BY <1>1 DEF Goto, s0
  <1>6. \A s \in Threads : StackOK(pc'[s], s)
    BY <1>4, <1>5 DEF TypeInv
  <1>7. s0 \in Seq(Places)
    BY <1>2 DEF StackOK
  <1>8. Top(t)' \in IF places = <<>> THEN Callbacks \cup Rests \cup {"out"} ELSE {Head(places)}
    <2>1. CASE places = <<>>
      <3>1. pc'[t] = s0
        BY <1>5, <1>7, <2>1
      <3>2. s0 # <<>> => Head(s0) \in Places /\ Head(s0) \notin Inside \cup Handling
        <4>1. s0 # <<>> => 1 \in DOMAIN s0 /\ Head(s0) = s0[1] /\ Head(s0) \in Places
          BY <1>7
        <4> QED
          BY <1>2, <4>1 DEF None
      <3> QED
        BY <2>1, <3>1, <3>2 DEF Top, Places
    <2>2. CASE places # <<>>
      <3>1. places \in Seq(Places)
        <4>1. {"close", "reset_start", "reset_stop", "reset_init", "close_cbk", "remove_session",
               "read"} \subseteq Places
          BY DEF Places, Inside, Resets, Handling, Callbacks
        <4> QED
          BY <4>1, ShortOver
      <3>2. Len(places) > 0
        BY <2>2, <3>1
      <3>3. pc'[t] # <<>> /\ Head(pc'[t]) = Head(places)
        BY <1>5, <1>7, <2>2, <3>1, <3>2
      <3> QED
        BY <2>2, <3>3 DEF Top
    <2> QED
      BY <2>1, <2>2
  <1>9. places = <<>> => None(pc'[t], Inside \cup Handling)
    BY <1>2, <1>4, <1>5, Short
  <1>10. \A s \in Threads : s # t => Top(s)' = Top(s)
    BY <1>5 DEF Top
  <1> QED
    BY <1>4, <1>5, <1>6, <1>8, <1>9, <1>10 DEF s0

\* A thread calls shutdown, which goes to stop.
LEMMA CallKeeps ==
  ASSUME TypeInv, NEW t \in Threads, InUserCode(t), Call(t, <<"stop">>)
  PROVE  /\ DOMAIN pc' = Threads /\ \A s \in Threads : StackOK(pc'[s], s)
         /\ \A s \in Threads : s # t => pc'[s] = pc[s] /\ Top(s)' = Top(s)
         /\ \A P : None(pc'[t], P) <=> "stop" \notin P /\ None(pc[t], P)
         /\ Top(t) \in Callbacks \cup {"out"} /\ Top(t)' = "stop"
  <1> DEFINE s0 == pc[t]
  <1>1. StackOK(s0, t) /\ DOMAIN pc = Threads
    BY DEF TypeInv, TypeOK, AsioTypeOK
  <1>2. s0 = <<>> \/ Head(s0) \in Callbacks
    BY DEF InUserCode
  <1> HIDE DEF s0
  <1>3. None(s0, Inside \cup Handling)
    <2>1. CASE s0 = <<>>
      BY <2>1, Short
    <2>2. CASE s0 # <<>>
      <3>1. Head(s0) \notin Inside \cup Handling
        BY <1>2, <2>2 DEF Callbacks, Inside, Resets, Handling
      <3> QED
        BY <1>1, <2>2, <3>1, Below
    <2> QED
      BY <2>1, <2>2
  <1>4. /\ StackOK(<<"stop">> \o s0, t)
        /\ \A P : None(<<"stop">> \o s0, P) <=> None(<<"stop">>, P) /\ None(s0, P)
    BY <1>1, <1>3, Above
  <1>5. pc'[t] = <<"stop">> \o s0 /\ DOMAIN pc' = Threads /\ \A s \in Threads : s # t => pc'[s] = pc[s]
    BY <1>1 DEF Call, s0
  <1>6. \A s \in Threads : StackOK(pc'[s], s)
    BY <1>4, <1>5 DEF TypeInv
  <1>7. pc'[t] # <<>> /\ Head(pc'[t]) = "stop"
    <2>1. s0 \in Seq(Places)
      BY <1>1 DEF StackOK
    <2> QED
      BY <1>5, <2>1
  <1>8. Top(t)' = "stop" /\ \A s \in Threads : s # t => Top(s)' = Top(s)
    BY <1>5, <1>7 DEF Top
  <1>9. Top(t) \in Callbacks \cup {"out"}
    BY <1>2 DEF Top, s0
  <1> QED
    BY <1>4, <1>5, <1>6, <1>8, <1>9, Short DEF s0

\* The io thread takes a completion.
LEMMA TakeKeeps ==
  ASSUME TypeInv, pc[Io] = <<>>,
         NEW places \in {<<>>, <<"stop">>, <<"close">>, <<"read_cbk", "after_read">>, <<"release">>,
                         <<"write_cbk", "release">>, <<"start">>},
         Call(Io, places)
  PROVE  /\ DOMAIN pc' = Threads /\ \A s \in Threads : StackOK(pc'[s], s)
         /\ \A s \in Threads : s # Io => pc'[s] = pc[s] /\ Top(s)' = Top(s)
         /\ pc'[Io] = places /\ Top(Io)' = IF places = <<>> THEN "out" ELSE Head(places)
  <1>1. Io \in Threads /\ DOMAIN pc = Threads
    BY DEF TypeInv, TypeOK, AsioTypeOK, Threads
  <1>2. pc'[Io] = places \o <<>> /\ DOMAIN pc' = Threads /\ \A s \in Threads : s # Io => pc'[s] = pc[s]
    BY <1>1 DEF Call
  <1>3. StackOK(places, Io) /\ pc'[Io] = places
    BY <1>2, Taken
  <1>4. \A s \in Threads : StackOK(pc'[s], s)
    BY <1>2, <1>3 DEF TypeInv
  <1> QED
    BY <1>2, <1>3, <1>4 DEF Top

\* The io thread has loaded the switch and goes on with start().
LEMMA SwitchKeeps ==
  ASSUME TypeInv, Top(Io) = "start",
         NEW places \in {<<>>, <<"close">>, <<"read", "open_cbk">>},
         Goto(Io, places)
  PROVE  /\ DOMAIN pc' = Threads /\ \A s \in Threads : StackOK(pc'[s], s)
         /\ \A s \in Threads : s # Io => pc'[s] = pc[s] /\ Top(s)' = Top(s)
         /\ pc'[Io] = places /\ Top(Io)' = IF places = <<>> THEN "out" ELSE Head(places)
         /\ \A P : "start" \notin P => None(pc[Io], P)
  <1>1. Io \in Threads /\ DOMAIN pc = Threads
    BY DEF TypeInv, TypeOK, AsioTypeOK, Threads
  <1>2. StackOK(pc[Io], Io) /\ pc[Io] # <<>> /\ Head(pc[Io]) = "start"
    BY <1>1 DEF TypeInv, Top
  <1>3. Tail(pc[Io]) = <<>> /\ pc[Io] \in Seq(Places)
    BY <1>2, Below DEF StackOK
  <1>4. ASSUME NEW P, "start" \notin P PROVE None(pc[Io], P)
    <2>1. None(Tail(pc[Io]), P) <=> None(pc[Io], P)
      BY <1>2, <1>4, Below
    <2>2. None(<<>>, P)
      BY Short
    <2> QED
      BY <1>3, <2>1, <2>2
  <1>5. pc'[Io] = places \o <<>> /\ DOMAIN pc' = Threads /\ \A s \in Threads : s # Io => pc'[s] = pc[s]
    BY <1>1, <1>3 DEF Goto
  <1>6. StackOK(places, Io) /\ pc'[Io] = places
    BY <1>5, Taken
  <1>7. \A s \in Threads : StackOK(pc'[s], s)
    BY <1>5, <1>6 DEF TypeInv
  <1> QED
    BY <1>4, <1>5, <1>6, <1>7 DEF Top

------------------------------------------------------------------------------
(* Every step preserves the invariant                                      *)

\* A step in which a thread moves on and nothing begins or completes.
LEMMA MovesKeep ==
  ASSUME SessionInv,
         UNCHANGED <<class, sock, pending, ready, connects, buffer, pieces, history, role, m_binit,
                     m_bstart>>,
         m_bstop' \in BOOLEAN, m_sessions' \in {m_sessions, FALSE},
         DOMAIN pc' = Threads, \A s \in Threads : StackOK(pc'[s], s),
         None(pc[Io], {"release"}) => None(pc'[Io], {"release"}),
         None(pc[Io], {"read", "after_read"}) => None(pc'[Io], {"read", "after_read"}),
         \A s \in Threads : \A r \in Resets : Top(s)' = r <=> Top(s) = r,
         Top(Io)' = "start" => Top(Io) = "start",
         m_bstop' => \E s \in Threads : Top(s)' \in {"close", "reset_start", "reset_stop"},
         ~m_bstart => \A s \in Threads : Top(s)' \in Inside => Top(s) \in Inside,
         ~overlapped /\ ~overtaken =>
           /\ (~m_bstart \/ Locked) /\ Top(Io)' = "read" => Top(Io) = "read"
           /\ StopsFirst',
         role = "server" /\ connects = 0 => pc' = pc
  PROVE  SessionInv'
  <1> USE DEF SessionInv, buffer, history
  <1>1. TypeInv'
    <2>1. TypeInv
      OBVIOUS
    <2>2. SwitchTypeOK'
      BY <2>1 DEF TypeInv, TypeOK, SwitchTypeOK, switch
    <2>3. AsioTypeOK'
      BY <2>1 DEF TypeInv, TypeOK, AsioTypeOK
    <2>4. TypeOK'
      BY <2>1, <2>2, <2>3 DEF TypeInv, TypeOK
    <2>5. m_sessions' \in BOOLEAN
      BY <2>1 DEF TypeInv
    <2> QED
      BY <2>1, <2>4, <2>5 DEF TypeInv
  <1>2. RoleInv'
    <2>1. ~m_sessions => ~m_sessions'
      OBVIOUS
    <2> QED
      BY <2>1 DEF RoleInv
  <1>3. Locked' = Locked /\ "reset_stop" \in Resets /\ "reset_init" \in Resets
    BY DEF Locked, Resets
  <1>4. SwitchInv'
    BY <1>3 DEF SwitchInv
  <1>5. IdleInv'
    BY <1>3 DEF IdleInv
  <1>6. AttemptInv'
    BY DEF AttemptInv, Starting
  <1>7. WriteInv'
    BY DEF WriteInv, Single, Starting
  <1>8. ReadInv'
    BY <1>3 DEF ReadInv, Single, Starting
  <1>9. EarlyInv'
    BY DEF EarlyInv, Starting
  <1>10. OwnerInv'
    BY <1>3 DEF OwnerInv
  <1>11. LenInv'
    BY DEF LenInv
  <1> QED
    BY <1>1, <1>2, <1>4, <1>5, <1>6, <1>7, <1>8, <1>9, <1>10, <1>11

\* The steps inside a thread.
LEMMA ThreadsKeep ==
  ASSUME SessionInv, UNCHANGED class, NEW t \in Threads,
         \/ Stop(t) \/ RemoveSession(t) \/ CallbackReturns(t) \/ CallShutdown(t) \/ DropSessions
         \/ AfterRead
  PROVE  SessionInv'
  <1> USE DEF stream_vars, asio_vars, switch, history, buffer
  <1>1. TypeInv /\ RoleInv /\ SwitchInv /\ EarlyInv /\ DOMAIN pc = Threads /\ Io \in Threads
    BY DEF SessionInv, TypeInv, TypeOK, AsioTypeOK, Threads
  <1>2. \A s \in Threads : Top(s) # "out" => pc[s] # <<>>
    BY DEF Top
  <1>3. \A s \in Threads : StackOK(pc[s], s)
    BY <1>1 DEF TypeInv
  <1>4. m_bstop \in BOOLEAN /\ m_bstart \in BOOLEAN /\ m_binit \in BOOLEAN /\ m_sessions \in BOOLEAN
    BY <1>1 DEF TypeInv, TypeOK, SwitchTypeOK
  <1>5. \A P : None(pc[Io], P) /\ pc[Io] # <<>> => None(Tail(pc[Io]), P)
    BY <1>1, <1>3, Below
  <1>6. role = "server" /\ connects = 0 =>
          ~m_binit /\ ~m_bstart /\ ~m_sessions /\ \A s \in Threads : pc[s] = <<>>
    BY <1>1 DEF RoleInv
  <1>7. ASSUME NEW s \in Threads, pc[s] # <<>>, Top(s) \notin {"close"} \cup Resets, Return(s),
               UNCHANGED <<sock, pending, ready, connects, switch, buffer, pieces, history, role>>,
               m_sessions' \in {m_sessions, FALSE}
        PROVE  SessionInv'
    <2>1. Goto(s, <<>>)
      BY <1>7 DEF Return
    <2>2. /\ DOMAIN pc' = Threads /\ \A r \in Threads : StackOK(pc'[r], r)
          /\ \A r \in Threads : r # s => pc'[r] = pc[r] /\ Top(r)' = Top(r)
          /\ \A P : None(pc'[s], P) <=> None(<<>>, P) /\ None(Tail(pc[s]), P)
          /\ Top(s)' \in Callbacks \cup Rests \cup {"out"}
      BY <1>1, <1>7, <2>1, GotoKeeps
    <2>3. \A P : None(pc[Io], P) => None(pc'[Io], P)
      BY <1>1, <1>5, <1>7, <2>2, Short
    <2>4. Top(s)' \notin {"read", "start"} \cup Inside
      BY <2>2 DEF Callbacks, Rests, Inside, Resets
    <2> QED
      <3>1. m_bstop' \in BOOLEAN /\ UNCHANGED <<m_binit, m_bstart>>
        BY <1>4, <1>7
      <3>2. /\ Top(Io)' = "read" => Top(Io) = "read"
            /\ Top(Io)' = "start" => Top(Io) = "start"
            /\ \A r \in Threads : Top(r)' \in Inside => Top(r) \in Inside
        BY <1>1, <2>2, <2>4
      <3>3. /\ \A r \in Threads : \A p \in Resets : Top(r)' = p <=> Top(r) = p
            /\ \A r \in Threads : \A p \in {"close", "reset_start", "reset_stop"} :
                 Top(r)' = p <=> Top(r) = p
        BY <1>7, <2>2, <2>4 DEF Inside, Resets
      <3>4. m_bstop' => \E r \in Threads : Top(r)' \in {"close", "reset_start", "reset_stop"}
        BY <1>1, <1>7, <3>3 DEF SwitchInv
      <3>5. ~overlapped /\ ~overtaken => StopsFirst'
        BY <1>1, <1>7, <3>3 DEF EarlyInv, StopsFirst, Threads
      <3>6. role = "server" /\ connects = 0 => pc' = pc
        BY <1>6, <1>7
      <3> QED
        BY <1>7, <2>2, <2>3, <3>1, <3>2, <3>3, <3>4, <3>5, <3>6, MovesKeep
  <1>8. CASE CallbackReturns(t)
    <2>1. pc[t] # <<>> /\ Top(t) \notin {"close"} \cup Resets
      BY <1>2, <1>8 DEF CallbackReturns, Callbacks, Resets
    <2> QED
      BY <1>7, <1>8, <2>1 DEF CallbackReturns
  <1>9. CASE RemoveSession(t)
    <2>1. pc[t] # <<>> /\ Top(t) \notin {"close"} \cup Resets
      BY <1>2, <1>9 DEF RemoveSession, Resets
    <2> QED
      BY <1>7, <1>9, <2>1 DEF RemoveSession
  <1>10. CASE Stop(t)
    <2>1. pc[t] # <<>> /\ Top(t) \notin {"close"} \cup Resets
      BY <1>2, <1>10 DEF Stop, Resets
    <2>2. CASE m_bstop
      <3>1. Return(t) /\ UNCHANGED switch
        BY <1>10, <2>2 DEF Stop
      <3>2. UNCHANGED <<sock, pending, ready, connects, stream_vars>>
        BY <1>10 DEF Stop
      <3> QED
        BY <1>7, <2>1, <3>1, <3>2
    <2>3. CASE ~m_bstop
      <3>1. Goto(t, <<"close">>) /\ StopCas
        BY <1>10, <2>3 DEF Stop
      <3>2. /\ DOMAIN pc' = Threads /\ \A r \in Threads : StackOK(pc'[r], r)
            /\ \A r \in Threads : r # t => pc'[r] = pc[r] /\ Top(r)' = Top(r)
            /\ \A P : None(pc'[t], P) <=> None(<<"close">>, P) /\ None(Tail(pc[t]), P)
            /\ Top(t)' \in {Head(<<"close">>)}
        BY <1>1, <2>1, <3>1, GotoKeeps
      <3>3. \A P : "close" \notin P /\ None(pc[Io], P) => None(pc'[Io], P)
        BY <1>1, <1>5, <2>1, <3>2, Short
      <3>4. Top(t)' = "close" /\ Top(t) = "stop"
        BY <1>10, <3>2 DEF Stop
      <3> QED
        <4>1. /\ UNCHANGED <<sock, pending, ready, connects, stream_vars, m_binit, m_bstart>>
              /\ m_bstop' \in BOOLEAN
          BY <1>10, <3>1 DEF Stop, StopCas
        <4>2. /\ None(pc[Io], {"release"}) => None(pc'[Io], {"release"})
              /\ None(pc[Io], {"read", "after_read"}) => None(pc'[Io], {"read", "after_read"})
          BY <3>3
        <4>3. /\ Top(Io)' \in {"read", "start"} => Top(Io)' = Top(Io)
              /\ \A s \in Threads : Top(s)' \in Inside => Top(s) \in Inside
              /\ \A s \in Threads : \A p \in Resets : Top(s)' = p <=> Top(s) = p
          BY <1>1, <3>2, <3>4 DEF Inside, Resets
        <4>4. role = "server" /\ connects = 0 => pc' = pc
          BY <1>6, <2>1
        <4>5. m_bstop' /\ StopsFirst' /\ \E s \in Threads : Top(s)' \in {"close", "reset_start", "reset_stop"}
          BY <3>1, <3>4 DEF StopCas, StopsFirst
        <4> QED
          BY <3>2, <4>1, <4>2, <4>3, <4>4, <4>5, MovesKeep
    <2> QED
      BY <2>2, <2>3
  <1>11. CASE CallShutdown(t)
    <2>1. InUserCode(t) /\ Call(t, <<"stop">>) /\ m_bstart
      BY <1>11 DEF CallShutdown, Reachable, MayStop
    <2>2. /\ DOMAIN pc' = Threads /\ \A s \in Threads : StackOK(pc'[s], s)
          /\ \A s \in Threads : s # t => pc'[s] = pc[s] /\ Top(s)' = Top(s)
          /\ \A P : None(pc'[t], P) <=> "stop" \notin P /\ None(pc[t], P)
          /\ Top(t) \in Callbacks \cup {"out"} /\ Top(t)' = "stop"
      BY <1>1, <2>1, CallKeeps
    <2>3. \A P : "stop" \notin P /\ None(pc[Io], P) => None(pc'[Io], P)
      BY <1>1, <2>2
    <2>4. /\ Top(Io)' \in {"read", "start"} => Top(Io)' = Top(Io)
          /\ \A s \in Threads : \A p \in Resets : Top(s)' = p <=> Top(s) = p
          /\ \A s \in Threads : \A p \in {"close", "reset_start", "reset_stop"} :
               Top(s)' = p <=> Top(s) = p
      BY <1>1, <2>2 DEF Callbacks, Resets
    <2>5. UNCHANGED switch /\ UNCHANGED <<sock, pending, ready, connects, stream_vars>>
      BY <1>11 DEF CallShutdown
    <2>6. m_bstop' => \E s \in Threads : Top(s)' \in {"close", "reset_start", "reset_stop"}
      BY <1>1, <2>4, <2>5 DEF SwitchInv
    <2>7. ~overlapped /\ ~overtaken => StopsFirst'
      BY <1>1, <2>4, <2>5 DEF EarlyInv, StopsFirst, Threads
    <2> QED
      BY <1>4, <1>6, <2>1, <2>2, <2>3, <2>4, <2>5, <2>6, <2>7, MovesKeep
  <1>12. CASE DropSessions
    <2>1. Top(Io)' = Top(Io) /\ \A s \in Threads : Top(s)' = Top(s)
      BY <1>12 DEF DropSessions, Top
    <2>2. Users \subseteq Threads
      BY DEF Threads
    <2>3. m_bstop' => \E s \in Threads : Top(s)' \in {"close", "reset_start", "reset_stop"}
      BY <1>1, <1>12, <2>1 DEF SwitchInv, DropSessions
    <2>4. ~overlapped /\ ~overtaken => StopsFirst'
      BY <1>1, <1>12, <2>1, <2>2 DEF EarlyInv, StopsFirst, DropSessions
    <2> QED
      BY <1>1, <1>3, <1>4, <1>12, <2>1, <2>3, <2>4, MovesKeep DEF DropSessions
  <1>13. CASE AfterRead
    <2>1. pc[Io] # <<>> /\ Head(pc[Io]) = "after_read" /\ Top(Io) = "after_read"
      BY <1>13 DEF AfterRead, Top
    <2>2. CASE has_stoped
      <3>1. Return(Io) /\ UNCHANGED <<sock, pending, ready, connects, switch, stream_vars>>
        BY <1>13, <2>2 DEF AfterRead, Return
      <3> QED
        BY <1>1, <1>7, <2>1, <3>1 DEF Resets
    <2>3. CASE ~has_stoped
      <3>1. Goto(Io, <<"read">>) /\ m_bstart /\ ~m_bstop
        BY <1>13, <2>3 DEF AfterRead, has_stoped
      <3>2. /\ DOMAIN pc' = Threads /\ \A r \in Threads : StackOK(pc'[r], r)
            /\ \A r \in Threads : r # Io => pc'[r] = pc[r] /\ Top(r)' = Top(r)
            /\ \A P : None(pc'[Io], P) <=> None(<<"read">>, P) /\ None(Tail(pc[Io]), P)
            /\ Top(Io)' \in {Head(<<"read">>)}
        BY <1>1, <2>1, <3>1, GotoKeeps
      <3>3. ~None(pc[Io], {"read", "after_read"})
        BY <1>1, <1>3, <2>1, Below
      <3>4. None(pc[Io], {"release"}) => None(pc'[Io], {"release"})
        BY <1>5, <2>1, <3>2, Short
      <3>5. Top(Io)' = "read" /\ UNCHANGED switch
        BY <1>13, <3>2 DEF AfterRead
      <3>6. /\ \A s \in Threads : \A p \in Resets : Top(s)' = p <=> Top(s) = p
            /\ \A s \in Threads : \A p \in {"close", "reset_start", "reset_stop"} :
                 Top(s)' = p <=> Top(s) = p
        BY <1>1, <2>1, <3>2, <3>5 DEF Resets
      <3>7. ~overlapped /\ ~overtaken => StopsFirst'
        BY <1>1, <3>5, <3>6 DEF EarlyInv, StopsFirst, Threads
      <3>8. ~overlapped /\ ~overtaken => ~Locked
        <4>1. SUFFICES ASSUME ~overlapped, ~overtaken, NEW s \in Threads, Top(s) \in Resets PROVE FALSE
          BY DEF Locked
        <4>2. s \in Users
          BY <2>1, <4>1 DEF Threads, Resets
        <4>3. Top(s) # "reset_start"
          BY <1>1, <3>1, <4>1, <4>2 DEF EarlyInv, StopsFirst
        <4>4. Top(s) \notin {"reset_stop", "reset_init"}
          BY <1>1, <3>1, <4>1 DEF SwitchInv, EarlyInv
        <4> QED
          BY <4>1, <4>3, <4>4 DEF Resets
      <3> QED
        BY <1>4, <1>6, <1>13, <2>1, <3>1, <3>2, <3>3, <3>4, <3>5, <3>6, <3>7, <3>8, MovesKeep
           DEF AfterRead
    <2> QED
      BY <2>2, <2>3
  <1> QED
    BY <1>8, <1>9, <1>10, <1>11, <1>12, <1>13

\* A read or a write begins, or fails at once.
LEMMA BeginKeeps ==
  ASSUME TypeInv, NEW op \in Transfers, Begin(op)
  PROVE  /\ pending' \in Seq(Transfers \cup Stages) /\ ready' \in Seq(Completion)
         /\ \A P, Q : op \notin P /\ [op |-> op, ok |-> FALSE] \notin Q =>
              /\ Neither(pending, ready, P, Q) => Neither(pending', ready', P, Q)
              /\ OneOf(pending, ready, P, Q) => OneOf(pending', ready', P, Q)
         /\ \A P, Q : Neither(pending, ready, P, Q) => OneOf(pending', ready', P, Q)
         /\ \A P, o : Behind(ready, P, Ok(o)) => Behind(ready', P, Ok(o))
         /\ \A P : op \notin P /\ None(pending, P) => None(pending', P)
         /\ \A Q : [op |-> op, ok |-> FALSE] \notin Q /\ None(ready, Q) => None(ready', Q)
         /\ \A P : ~None(pending, P) => ~None(pending', P)
         /\ \A Q : ~None(ready, Q) => ~None(ready', Q)
         /\ sock # "open" => pending' = pending
         /\ ~Neither(pending', ready', {op}, Tokens({op}))
  <1> DEFINE c == [op |-> op, ok |-> FALSE]
  <1>1. pending \in Seq(Transfers \cup Stages) /\ ready \in Seq(Completion)
    BY DEF TypeInv, TypeOK, AsioTypeOK
  <1>2. c \in Completion /\ c \in Tokens({op}) /\ \A o : c \notin Ok(o)
    BY DEF Completion, Tokens, Ok
  <1>3. op \in Transfers \cup Stages
    OBVIOUS
  <1> HIDE DEF c
  <1>4. CASE sock = "open"
    <2>1. pending' = Append(pending, op) /\ ready' = ready
      BY <1>4 DEF Begin
    <2>2. pending' \in Seq(Transfers \cup Stages)
      BY <1>1, <1>3, <2>1
    <2>3. \A P, Q : op \notin P =>
            /\ Neither(pending, ready, P, Q) => Neither(pending', ready', P, Q)
            /\ OneOf(pending, ready, P, Q) => OneOf(pending', ready', P, Q)
      BY <1>1, <1>3, <2>1, Begun
    <2>4. \A P, Q : Neither(pending, ready, P, Q) => OneOf(pending', ready', P, Q)
      BY <1>1, <1>3, <2>1, Begun
    <2>5. \A P : None(pending', P) <=> None(pending, P) /\ op \notin P
      BY <1>1, <1>3, <2>1, AppendKeeps
    <2>6. ~Neither(pending', ready', {op}, Tokens({op}))
      BY <2>5 DEF Neither
    <2> QED
      BY <1>1, <1>4, <2>1, <2>2, <2>3, <2>4, <2>5, <2>6
  <1>5. CASE sock # "open"
    <2>1. pending' = pending /\ ready' = Append(ready, c)
      BY <1>5 DEF Begin, c
    <2>2. ready' \in Seq(Completion)
      BY <1>1, <1>2, <2>1
    <2>3. \A P, Q : c \notin Q =>
            /\ Neither(pending, ready, P, Q) => Neither(pending', ready', P, Q)
            /\ OneOf(pending, ready, P, Q) => OneOf(pending', ready', P, Q)
      BY <1>1, <1>2, <2>1, Added
    <2>4. \A P, Q : Neither(pending, ready, P, Q) => OneOf(pending', ready', P, Q)
      BY <1>1, <1>2, <2>1, Added
    <2>5. /\ \A Q : None(ready', Q) <=> None(ready, Q) /\ c \notin Q
          /\ \A P, Q : Behind(ready, P, Q) /\ c \notin Q => Behind(ready', P, Q)
      BY <1>1, <1>2, <2>1, AppendKeeps
    <2>6. ~Neither(pending', ready', {op}, Tokens({op}))
      BY <1>2, <2>5 DEF Neither
    <2> QED
      BY <1>1, <1>2, <1>5, <2>1, <2>2, <2>3, <2>4, <2>5, <2>6 DEF c
  <1> QED
    BY <1>4, <1>5

\* Arithmetic modulo m.
LEMMA Modulo ==
  ASSUME NEW m \in Nat \ {0}
  PROVE  /\ \A x \in Int : x % m \in 0 .. m - 1
         /\ \A x \in 0 .. m - 1 : x % m = x /\ (x + m) % m = x
  <1>1. \A x \in Int : x % m \in 0 .. m - 1
    OBVIOUS
  <1>2. \A x \in 0 .. m - 1 : x % m = x
    OBVIOUS
  <1>3. \A x \in 0 .. m - 1 : (x + m) % m = x
    OBVIOUS
  <1> QED
    BY <1>1, <1>2, <1>3

\* The message at the front leaves the buffer.
LEMMA FrontKeeps ==
  ASSUME NEW buf \in Seq(Seq(1 .. MaxPieces) \ {<<>>}), buf # <<>>, NEW len \in 0 .. SizeMod - 1,
         SendFront(buf, len)
  PROVE  /\ m_current_send_msg' \in Seq(1 .. MaxPieces) /\ m_current_send_msg' # <<>>
         /\ m_write_buf' \in Seq(Seq(1 .. MaxPieces) \ {<<>>}) /\ m_all_len' \in 0 .. SizeMod - 1
         /\ (\A i \in DOMAIN buf : Len(buf[i]) = 1) /\ len = Len(buf) =>
              /\ \A i \in DOMAIN m_write_buf' : Len(m_write_buf'[i]) = 1
              /\ m_all_len' = Len(m_write_buf') /\ m_all_len' <= len
         /\ Begin("write")
  <1> DEFINE M == Seq(1 .. MaxPieces) \ {<<>>}
  <1>1. SizeMod \in Nat \ {0}
    BY StreamAssumption
  <1>2. /\ m_current_send_msg' = Head(buf) /\ m_write_buf' = Tail(buf)
        /\ m_all_len' = (len + SizeMod - Len(Head(buf))) % SizeMod
        /\ Begin("write")
    BY DEF SendFront
  <1>3. buf \in Seq(M)
    OBVIOUS
  <1>4. Head(buf) \in Seq(1 .. MaxPieces) /\ Head(buf) # <<>>
    <2>1. Head(buf) \in M
      <3> HIDE DEF M
      <3> QED
        BY <1>3
    <2> QED
      BY <2>1
  <1>5. Len(Head(buf)) \in Nat
    BY <1>4
  <1>6. Tail(buf) \in Seq(M)
    <2> HIDE DEF M
    <2> QED
      BY <1>3
  <1>7. m_all_len' \in 0 .. SizeMod - 1
    <2>1. len + SizeMod - Len(Head(buf)) \in Int
      BY <1>1, <1>5
    <2> QED
      BY <1>1, <1>2, <2>1, Modulo
  <1>8. ASSUME \A i \in DOMAIN buf : Len(buf[i]) = 1, len = Len(buf)
        PROVE  /\ \A i \in DOMAIN Tail(buf) : Len(Tail(buf)[i]) = 1
               /\ m_all_len' = Len(Tail(buf)) /\ m_all_len' <= len
    <2> HIDE DEF M
    <2>1. /\ Len(Tail(buf)) = Len(buf) - 1 /\ Len(buf) \in Nat /\ Len(buf) >= 1
          /\ \A i \in DOMAIN Tail(buf) : i + 1 \in DOMAIN buf /\ Tail(buf)[i] = buf[i + 1]
          /\ Head(buf) = buf[1] /\ 1 \in DOMAIN buf
      BY <1>3
    <2>2. Len(Head(buf)) = 1
      BY <1>8, <2>1
    <2>3. m_all_len' = ((len - 1) + SizeMod) % SizeMod
      <3>1. len + SizeMod - 1 = (len - 1) + SizeMod
        BY <1>1
      <3> QED
        BY <1>2, <2>2, <3>1
    <2>4. len - 1 \in 0 .. SizeMod - 1
      BY <1>1, <1>8, <2>1
    <2>5. m_all_len' = len - 1
      BY <1>1, <2>3, <2>4, Modulo
    <2> QED
      BY <1>8, <2>1, <2>5
  <1> QED
    BY <1>2, <1>4, <1>6, <1>7, <1>8

\* No thread comes to a close() or goes on with one.
Quiet == \A s \in Threads : \A p \in {"close"} \cup Resets : Top(s)' = p <=> Top(s) = p

LEMMA QuietKeeps ==
  ASSUME SwitchInv, UNCHANGED <<switch, late>>, Quiet
  PROVE  Locked' = Locked /\ SwitchInv' /\ (StopsFirst => StopsFirst')
  <1>1. Users \subseteq Threads
    BY DEF Threads
  <1>2. UNCHANGED <<m_binit, m_bstart, m_bstop>>
    BY DEF switch
  <1>3. Locked' = Locked
    BY DEF Locked, Quiet
  <1>4. \A s \in Threads : \A p \in {"close", "reset_start", "reset_stop", "reset_init"} :
          Top(s)' = p <=> Top(s) = p
    BY DEF Quiet, Resets
  <1>5. SwitchInv'
    BY <1>2, <1>4 DEF SwitchInv
  <1>6. StopsFirst => StopsFirst'
    BY <1>1, <1>2, <1>4 DEF StopsFirst
  <1> QED
    BY <1>3, <1>5, <1>6

\* The operations that open a session are not those that use it.
LEMMA Apart ==
  /\ \A op \in Transfers : /\ op \notin Openers /\ op \notin Starting
                           /\ \A ok : /\ [op |-> op, ok |-> ok] \notin Tokens(Openers)
                                      /\ [op |-> op, ok |-> ok] \notin Tokens(Starting)
                                      /\ [op |-> op, ok |-> ok] \notin Tokens({"start"})
  /\ Starting \subseteq Openers /\ Tokens(Starting) \subseteq Tokens(Openers)
  /\ \A op : Ok(op) \subseteq Tokens({op})
  /\ \A op, o, ok : op # o => [op |-> op, ok |-> ok] \notin Ok(o) /\ [op |-> op, ok |-> ok] \notin Tokens({o})
  /\ \A op, o : [op |-> op, ok |-> FALSE] \notin Ok(o)
  <1>1. Starting \subseteq Openers
    BY DEF Starting, Openers, Stages
  <1>2. Tokens(Starting) \subseteq Tokens(Openers)
    BY <1>1 DEF Tokens
  <1>3. \A op \in Transfers : op \notin Openers
    BY DEF Transfers, Openers, Stages
  <1>4. \A op, S, ok : op \notin S => [op |-> op, ok |-> ok] \notin Tokens(S)
    BY DEF Tokens
  <1>5. \A op, o, ok : op # o => [op |-> op, ok |-> ok] \notin Ok(o)
    BY DEF Ok
  <1>6. \A op, o : [op |-> op, ok |-> FALSE] \notin Ok(o)
    BY DEF Ok
  <1>7. \A op : Ok(op) \subseteq Tokens({op})
    BY DEF Ok, Tokens
  <1>8. \A op \in Transfers : op # "start"
    BY DEF Transfers
  <1> QED
    BY <1>1, <1>2, <1>3, <1>4, <1>5, <1>6, <1>7, <1>8

\* write and write_tail.
LEMMA EnqueueKeeps ==
  ASSUME SessionInv, UNCHANGED <<class, sock, pc, connects, switch, history, role, m_sessions>>,
         has_started, ~Locked, pieces' \in 0 .. MaxPieces,
         NEW buf \in Seq(Seq(1 .. MaxPieces) \ {<<>>}), buf # <<>>, NEW len \in 0 .. SizeMod - 1,
         Enqueued(buf, len), tailed' \in BOOLEAN,
         ~tailed' => (\A i \in DOMAIN buf : Len(buf[i]) = 1) /\ len = Len(buf) /\ len <= pieces'
  PROVE  SessionInv'
  <1> USE DEF SessionInv, switch, history
  <1>0. m_bstart /\ m_binit
    BY DEF has_started
  <1>1. ~(role = "server" /\ connects = 0)
    BY <1>0 DEF RoleInv
  <1>2. Locked' = Locked /\ SwitchInv' /\ (StopsFirst => StopsFirst')
    <2>1. Quiet
      BY DEF Quiet, Top
    <2> QED
      BY <2>1, QuietKeeps
  <1>3. CASE m_current_send_msg # <<>>
    <2>1. m_write_buf' = buf /\ m_all_len' = len /\ UNCHANGED <<m_current_send_msg, pending, ready>>
      BY <1>3 DEF Enqueued
    <2>2. buf \in Seq(Seq(1 .. MaxPieces))
      BY SeqOfMore
    <2>3. TypeInv'
      BY <2>1, <2>2 DEF TypeInv, TypeOK, AsioTypeOK, SwitchTypeOK
    <2>4. RoleInv' /\ IdleInv' /\ LenInv'
      BY <1>0, <1>1, <1>2, <2>1 DEF RoleInv, IdleInv, LenInv
    <2>5. AttemptInv'
      BY <2>1 DEF AttemptInv, Starting, Top
    <2>6. WriteInv'
      BY <2>1 DEF WriteInv, Single, Starting, Top
    <2>7. ReadInv'
      BY <1>2, <2>1 DEF ReadInv, Single, Starting, Top
    <2>8. EarlyInv' /\ OwnerInv'
      BY <1>2, <2>1 DEF EarlyInv, OwnerInv, Starting, Top
    <2> QED
      BY <1>2, <2>3, <2>4, <2>5, <2>6, <2>7, <2>8
  <1>4. CASE m_current_send_msg = <<>>
    <2>1. SendFront(buf, len)
      BY <1>4 DEF Enqueued
    <2>2. /\ m_current_send_msg' \in Seq(1 .. MaxPieces) /\ m_current_send_msg' # <<>>
          /\ m_write_buf' \in Seq(Seq(1 .. MaxPieces) \ {<<>>}) /\ m_all_len' \in 0 .. SizeMod - 1
          /\ (\A i \in DOMAIN buf : Len(buf[i]) = 1) /\ len = Len(buf) =>
               /\ \A i \in DOMAIN m_write_buf' : Len(m_write_buf'[i]) = 1
               /\ m_all_len' = Len(m_write_buf') /\ m_all_len' <= len
          /\ Begin("write")
      BY <2>1, FrontKeeps
    <2>3. m_write_buf' \in Seq(Seq(1 .. MaxPieces))
      BY <2>2, SeqOfMore
    <2>4. "write" \in Transfers
      BY DEF Transfers
    <2>5. /\ pending' \in Seq(Transfers \cup Stages) /\ ready' \in Seq(Completion)
          /\ \A P, Q : "write" \notin P /\ [op |-> "write", ok |-> FALSE] \notin Q =>
               /\ Neither(pending, ready, P, Q) => Neither(pending', ready', P, Q)
               /\ OneOf(pending, ready, P, Q) => OneOf(pending', ready', P, Q)
          /\ \A P, Q : Neither(pending, ready, P, Q) => OneOf(pending', ready', P, Q)
          /\ \A P, o : Behind(ready, P, Ok(o)) => Behind(ready', P, Ok(o))
          /\ \A Q : [op |-> "write", ok |-> FALSE] \notin Q /\ None(ready, Q) => None(ready', Q)
      BY <2>2, <2>4, BeginKeeps
    <2>6. TypeInv'
      BY <2>2, <2>3, <2>5 DEF TypeInv, TypeOK, AsioTypeOK, SwitchTypeOK
    <2>7. RoleInv'
      BY <1>1, <2>4, <2>5, Apart DEF RoleInv
    <2>8. IdleInv'
      BY <1>0, <1>2 DEF IdleInv
    <2>9. LenInv'
      <3>1. pieces' \in Int /\ len \in Int /\ m_all_len' \in Int
        BY <2>2, StreamAssumption
      <3> QED
        BY <2>2, <3>1 DEF LenInv
    <2>10. Starting' = Starting /\ Top(Io)' = Top(Io)
      BY DEF Starting, Top
    <2>11. AttemptInv'
      BY <1>0, <2>4, <2>5, <2>10, Apart DEF AttemptInv
    <2>12. WriteInv'
      BY <1>0, <1>4, <2>2, <2>5, <2>10, Apart DEF WriteInv, Single
    <2>13. ReadInv'
      <3>1. "write" \notin {"read"} /\ [op |-> "write", ok |-> FALSE] \notin Ok("read")
        BY Apart
      <3> QED
        BY <1>0, <1>2, <2>5, <2>10, <3>1 DEF ReadInv, Single
    <2>14. EarlyInv'
      BY <1>0, <1>2, <2>4, <2>5, <2>10, Apart DEF EarlyInv
    <2>15. OwnerInv'
      BY <1>0, <1>2 DEF OwnerInv
    <2> QED
      BY <1>2, <2>6, <2>7, <2>8, <2>9, <2>11, <2>12, <2>13, <2>14, <2>15
  <1> QED
    BY <1>3, <1>4

\* write makes a message of one piece; write_tail does so too, or adds to the last one.
LEMMA WritesKeep ==
  ASSUME SessionInv, UNCHANGED class, NEW t \in Threads, Write(t) \/ WriteTail(t)
  PROVE  SessionInv'
  <1> DEFINE M == Seq(1 .. MaxPieces) \ {<<>>}
             piece == pieces'
             added == append(m_write_buf, piece)
  <1>1. /\ m_write_buf \in Seq(M) /\ m_all_len \in 0 .. SizeMod - 1 /\ pieces \in 0 .. MaxPieces
        /\ tailed \in BOOLEAN
    BY DEF SessionInv, TypeInv, TypeOK
  <1>2. MayWrite(t)
    BY DEF Write, WriteTail
  <1>3. /\ UNCHANGED <<sock, pc, connects, switch, history, role, m_sessions>> /\ has_started /\ ~Locked
        /\ pieces < MaxPieces /\ pieces' = pieces + 1
    BY <1>2 DEF MayWrite
  <1>4. SizeMod \in Nat \ {0} /\ MaxPieces \in Nat /\ MaxPieces < SizeMod
    BY StreamAssumption
  <1>5. piece \in 1 .. MaxPieces /\ pieces' \in 0 .. MaxPieces /\ pieces \in Nat
    BY <1>1, <1>3, <1>4
  <1>6. <<piece>> \in M
    BY <1>5
  <1> HIDE DEF M, piece
  <1>7. /\ added \in Seq(M) /\ added # <<>> /\ Len(added) = Len(m_write_buf) + 1
        /\ \A i \in DOMAIN added : \/ i \in DOMAIN m_write_buf /\ added[i] = m_write_buf[i]
                                   \/ added[i] = <<piece>>
    BY <1>1, <1>6 DEF append
  <1>8. Longer \in 0 .. SizeMod - 1
    <2>1. m_all_len + 1 \in Int
      BY <1>1, <1>4
    <2> QED
      BY <1>4, <2>1, Modulo DEF Longer
  <1>9. ~tailed => /\ \A i \in DOMAIN added : Len(added[i]) = 1
                   /\ Longer = Len(added) /\ Longer <= pieces'
    <2> SUFFICES ASSUME ~tailed
                 PROVE  /\ \A i \in DOMAIN added : Len(added[i]) = 1
                        /\ Longer = Len(added) /\ Longer <= pieces'
      OBVIOUS
    <2>1. /\ \A i \in DOMAIN m_write_buf : Len(m_write_buf[i]) = 1
          /\ m_all_len = Len(m_write_buf) /\ m_all_len <= pieces
      BY DEF SessionInv, LenInv
    <2>2. \A i \in DOMAIN added : Len(added[i]) = 1
      BY <1>7, <2>1
    <2>3. m_all_len + 1 \in 0 .. SizeMod - 1
      BY <1>1, <1>3, <1>4, <1>5, <2>1
    <2>4. Longer = m_all_len + 1
      BY <1>4, <2>3, Modulo DEF Longer
    <2> QED
      BY <1>1, <1>3, <1>4, <1>5, <1>7, <2>1, <2>2, <2>4
  <1> HIDE DEF added
  <1>10. CASE Write(t)
    <2>1. Enqueued(added, Longer) /\ tailed' = tailed
      BY <1>10 DEF Write, added, piece
    <2> QED
      BY <1>1, <1>3, <1>5, <1>7, <1>8, <1>9, <2>1, EnqueueKeeps DEF M
  <1>11. CASE WriteTail(t) /\ ~ExtendsTail(m_write_buf)
    <2>1. Enqueued(added, Longer) /\ tailed' = (tailed \/ FALSE)
      BY <1>11 DEF WriteTail, append_tail, added, piece
    <2>2. tailed' = tailed
      BY <1>1, <2>1
    <2> QED
      BY <1>1, <1>3, <1>5, <1>7, <1>8, <1>9, <2>1, <2>2, EnqueueKeeps DEF M
  <1>12. CASE WriteTail(t) /\ ExtendsTail(m_write_buf)
    <2> DEFINE n == Len(m_write_buf)
               longer == [m_write_buf EXCEPT ![n] = Append(@, piece)]
    <2>1. Enqueued(longer, m_all_len)
      BY <1>12 DEF WriteTail, append_tail, piece
    <2>2. tailed' = TRUE
      BY <1>1, <1>12 DEF WriteTail
    <2>3. m_write_buf # <<>> /\ n \in DOMAIN m_write_buf
      BY <1>1, <1>12 DEF ExtendsTail
    <2>4. m_write_buf[n] \in Seq(1 .. MaxPieces)
      BY <1>1, <2>3 DEF M
    <2>5. Append(m_write_buf[n], piece) \in M
      BY <1>5, <2>4 DEF M, piece
    <2>6. longer \in Seq(M) /\ longer # <<>>
      BY <1>1, <2>3, <2>5
    <2> HIDE DEF longer
    <2> QED
      BY <1>1, <1>3, <1>5, <2>1, <2>2, <2>6, EnqueueKeeps DEF M
  <1> QED
    BY <1>10, <1>11, <1>12

\* The next read begins.
LEMMA ReadKeeps ==
  ASSUME SessionInv, UNCHANGED class, Read
  PROVE  SessionInv'
  <1> USE DEF SessionInv, switch, history, stream_vars, buffer
  <1>1. /\ Top(Io) = "read" /\ Goto(Io, <<>>) /\ Begin("read")
        /\ UNCHANGED <<sock, connects, switch, stream_vars>>
    BY DEF Read, Return
  <1>2. pc[Io] # <<>> /\ Head(pc[Io]) = "read" /\ Io \in Threads
    BY <1>1 DEF Top, Threads
  <1>3. /\ DOMAIN pc' = Threads /\ \A s \in Threads : StackOK(pc'[s], s)
        /\ \A s \in Threads : s # Io => pc'[s] = pc[s] /\ Top(s)' = Top(s)
        /\ \A P : None(pc'[Io], P) <=> None(<<>>, P) /\ None(Tail(pc[Io]), P)
        /\ None(pc'[Io], Inside \cup Handling)
        /\ Top(Io)' \in Callbacks \cup Rests \cup {"out"}
    BY <1>1, <1>2, GotoKeeps
  <1>4. StackOK(pc[Io], Io)
    BY <1>2 DEF TypeInv
  <1>5. None(Tail(pc[Io]), Rests) /\ ~None(pc[Io], {"read", "after_read"})
    BY <1>2, <1>4, Below
  <1>6. None(pc'[Io], {"read", "after_read"}) /\ None(pc'[Io], {"release"})
    <2>1. None(pc'[Io], Rests)
      BY <1>3, <1>5, Short
    <2> QED
      BY <1>3, <2>1 DEF None, Rests, Handling
  <1>7. "read" \in Transfers
    BY DEF Transfers
  <1>8. /\ pending' \in Seq(Transfers \cup Stages) /\ ready' \in Seq(Completion)
        /\ \A P, Q : "read" \notin P /\ [op |-> "read", ok |-> FALSE] \notin Q =>
             /\ Neither(pending, ready, P, Q) => Neither(pending', ready', P, Q)
             /\ OneOf(pending, ready, P, Q) => OneOf(pending', ready', P, Q)
        /\ \A P, Q : Neither(pending, ready, P, Q) => OneOf(pending', ready', P, Q)
        /\ \A P, o : Behind(ready, P, Ok(o)) => Behind(ready', P, Ok(o))
        /\ \A P : "read" \notin P /\ None(pending, P) => None(pending', P)
        /\ \A Q : [op |-> "read", ok |-> FALSE] \notin Q /\ None(ready, Q) => None(ready', Q)
        /\ \A Q : ~None(ready, Q) => ~None(ready', Q)
        /\ sock # "open" => pending' = pending
    BY <1>1, <1>7, BeginKeeps
  <1>9. TypeInv'
    BY <1>1, <1>3, <1>8 DEF TypeInv, TypeOK, AsioTypeOK, SwitchTypeOK
  <1>10. Top(Io)' \notin {"read", "start"} /\ \A s \in Threads : Top(s)' \in Inside => Top(s) \in Inside
    BY <1>2, <1>3 DEF Callbacks, Rests, Inside, Resets
  <1>11. Locked' = Locked /\ SwitchInv' /\ (StopsFirst => StopsFirst')
    <2>1. Quiet
      BY <1>1, <1>2, <1>3 DEF Quiet, Callbacks, Rests, Resets
    <2> QED
      BY <1>1, <2>1, QuietKeeps
  <1>12. RoleInv'
    BY <1>1, <1>2, <1>7, <1>8, Apart DEF RoleInv
  <1>13. IdleInv'
    BY <1>1, <1>8, <1>11 DEF IdleInv
  <1>14. Starting' = Starting
    BY DEF Starting
  <1>15. AttemptInv'
    BY <1>1, <1>7, <1>8, <1>10, <1>14, Apart DEF AttemptInv
  <1>16. WriteInv'
    <2>1. "read" \notin {"write"} /\ [op |-> "read", ok |-> FALSE] \notin Ok("write")
      BY Apart
    <2> QED
      BY <1>1, <1>6, <1>8, <1>10, <1>14, <2>1 DEF WriteInv, Single
  <1>17. ReadInv'
    BY <1>1, <1>5, <1>6, <1>8, <1>10, <1>11, <1>14 DEF ReadInv, Single
  <1>18. EarlyInv'
    BY <1>1, <1>7, <1>8, <1>10, <1>11, <1>14, Apart DEF EarlyInv
  <1>19. OwnerInv'
    BY <1>1, <1>8, <1>11 DEF OwnerInv
  <1>20. LenInv'
    BY <1>1 DEF LenInv
  <1> QED
    BY <1>9, <1>11, <1>12, <1>13, <1>15, <1>16, <1>17, <1>18, <1>19, <1>20

\* A write has been followed up: the next one begins, when there is something to write.
LEMMA ReleaseKeeps ==
  ASSUME SessionInv, UNCHANGED class, ReleaseSent
  PROVE  SessionInv'
  <1> USE DEF SessionInv, switch, history
  <1>1. /\ Top(Io) = "release" /\ ~Locked /\ Goto(Io, <<>>)
        /\ UNCHANGED <<sock, connects, switch, tailed, pieces, history, role, m_sessions>>
    BY DEF ReleaseSent, Return
  <1>2. pc[Io] # <<>> /\ Head(pc[Io]) = "release" /\ Io \in Threads
    BY <1>1 DEF Top, Threads
  <1>3. /\ DOMAIN pc' = Threads /\ \A s \in Threads : StackOK(pc'[s], s)
        /\ \A s \in Threads : s # Io => pc'[s] = pc[s] /\ Top(s)' = Top(s)
        /\ \A P : None(pc'[Io], P) <=> None(<<>>, P) /\ None(Tail(pc[Io]), P)
        /\ None(pc'[Io], Inside \cup Handling)
        /\ Top(Io)' \in Callbacks \cup Rests \cup {"out"}
    BY <1>1, <1>2, GotoKeeps
  <1>4. StackOK(pc[Io], Io)
    BY <1>2 DEF TypeInv
  <1>5. None(Tail(pc[Io]), Places) /\ ~None(pc[Io], {"release"})
    BY <1>2, <1>4, Below DEF Rests
  <1>6. None(pc'[Io], {"read", "after_read"}) /\ None(pc'[Io], {"release"})
    <2>1. None(pc'[Io], Places)
      BY <1>3, <1>5, Short
    <2> QED
      BY <2>1 DEF None, Places, Rests, Handling
  <1>7. Top(Io)' \notin {"read", "start"} /\ \A s \in Threads : Top(s)' \in Inside => Top(s) \in Inside
    BY <1>2, <1>3 DEF Callbacks, Rests, Inside, Resets
  <1>8. ~Locked' /\ SwitchInv' /\ (StopsFirst => StopsFirst')
    <2>1. Quiet
      BY <1>1, <1>2, <1>3 DEF Quiet, Callbacks, Rests, Resets
    <2> QED
      BY <1>1, <2>1, QuietKeeps
  <1>9. Starting' = Starting /\ ~(role = "server" /\ connects = 0)
    BY <1>2 DEF Starting, RoleInv
  <1>10. CASE /\ m_write_buf = <<>> /\ m_current_send_msg' = <<>>
              /\ UNCHANGED <<pending, ready, m_write_buf, m_all_len>>
    <2>1. TypeInv'
      BY <1>1, <1>3, <1>10 DEF TypeInv, TypeOK, AsioTypeOK, SwitchTypeOK
    <2>2. RoleInv' /\ IdleInv' /\ OwnerInv' /\ LenInv'
      BY <1>1, <1>8, <1>9, <1>10 DEF RoleInv, IdleInv, OwnerInv, LenInv
    <2>3. AttemptInv'
      BY <1>1, <1>7, <1>9, <1>10 DEF AttemptInv
    <2>4. WriteInv'
      BY <1>1, <1>5, <1>6, <1>7, <1>9, <1>10 DEF WriteInv, Single
    <2>5. ReadInv'
      BY <1>1, <1>6, <1>7, <1>8, <1>9, <1>10 DEF ReadInv, Single
    <2>6. EarlyInv'
      BY <1>1, <1>7, <1>8, <1>9, <1>10 DEF EarlyInv
    <2> QED
      BY <1>8, <2>1, <2>2, <2>3, <2>4, <2>5, <2>6
  <1>11. CASE m_write_buf # <<>> /\ SendFront(m_write_buf, m_all_len)
    <2>1. /\ m_write_buf \in Seq(Seq(1 .. MaxPieces) \ {<<>>}) /\ m_all_len \in 0 .. SizeMod - 1
          /\ pieces \in 0 .. MaxPieces
      BY DEF TypeInv, TypeOK
    <2>2. /\ m_current_send_msg' \in Seq(1 .. MaxPieces) /\ m_current_send_msg' # <<>>
          /\ m_write_buf' \in Seq(Seq(1 .. MaxPieces) \ {<<>>}) /\ m_all_len' \in 0 .. SizeMod - 1
          /\ (\A i \in DOMAIN m_write_buf : Len(m_write_buf[i]) = 1) /\ m_all_len = Len(m_write_buf) =>
               /\ \A i \in DOMAIN m_write_buf' : Len(m_write_buf'[i]) = 1
               /\ m_all_len' = Len(m_write_buf') /\ m_all_len' <= m_all_len
          /\ Begin("write")
      BY <1>11, <2>1, FrontKeeps
    <2>3. m_write_buf' \in Seq(Seq(1 .. MaxPieces))
      BY <2>2, SeqOfMore
    <2>4. "write" \in Transfers
      BY DEF Transfers
    <2>5. /\ pending' \in Seq(Transfers \cup Stages) /\ ready' \in Seq(Completion)
          /\ \A P, Q : "write" \notin P /\ [op |-> "write", ok |-> FALSE] \notin Q =>
               /\ Neither(pending, ready, P, Q) => Neither(pending', ready', P, Q)
               /\ OneOf(pending, ready, P, Q) => OneOf(pending', ready', P, Q)
          /\ \A P, Q : Neither(pending, ready, P, Q) => OneOf(pending', ready', P, Q)
          /\ \A P, o : Behind(ready, P, Ok(o)) => Behind(ready', P, Ok(o))
          /\ \A P : "write" \notin P /\ None(pending, P) => None(pending', P)
          /\ \A Q : [op |-> "write", ok |-> FALSE] \notin Q /\ None(ready, Q) => None(ready', Q)
          /\ \A Q : ~None(ready, Q) => ~None(ready', Q)
      BY <2>2, <2>4, BeginKeeps
    <2>6. m_bstart /\ m_binit
      BY <1>1, <1>11 DEF IdleInv
    <2>7. TypeInv'
      BY <1>1, <1>3, <2>2, <2>3, <2>5 DEF TypeInv, TypeOK, AsioTypeOK, SwitchTypeOK
    <2>8. RoleInv'
      BY <1>1, <1>9, <2>4, <2>5, Apart DEF RoleInv
    <2>9. IdleInv'
      BY <1>1, <1>8, <2>6 DEF IdleInv
    <2>10. AttemptInv'
      BY <1>1, <1>7, <1>9, <2>4, <2>5, Apart DEF AttemptInv
    <2>11. WriteInv'
      BY <1>1, <1>5, <1>6, <1>7, <1>9, <2>2, <2>5, <2>6 DEF WriteInv, Single
    <2>12. ReadInv'
      <3>1. "write" \notin {"read"} /\ [op |-> "write", ok |-> FALSE] \notin Ok("read")
        BY Apart
      <3> QED
        BY <1>1, <1>6, <1>7, <1>8, <1>9, <2>5, <2>6, <3>1 DEF ReadInv, Single
    <2>13. EarlyInv'
      BY <1>1, <1>7, <1>8, <1>9, <2>4, <2>5, <2>6, Apart DEF EarlyInv
    <2>14. OwnerInv'
      BY <1>1, <1>8, <2>5, <2>6 DEF OwnerInv
    <2>15. LenInv'
      <3>1. pieces \in Int /\ m_all_len \in Int /\ m_all_len' \in Int
        BY <2>1, <2>2, StreamAssumption
      <3> QED
        BY <1>1, <2>2, <3>1 DEF LenInv
    <2> QED
      BY <1>8, <2>7, <2>8, <2>9, <2>10, <2>11, <2>12, <2>13, <2>14, <2>15
  <1> QED
    BY <1>10, <1>11 DEF ReleaseSent

\* The first completion has been taken, whatever it is of.
LEMMA TakenFirst ==
  ASSUME TypeInv, NEW op, Handles(op)
  PROVE  /\ ready # <<>> /\ pc[Io] = <<>> /\ Io \in Threads
         /\ Tail(ready) \in Seq(Completion)
         /\ Head(ready) = [op |-> op, ok |-> Head(ready).ok] /\ Head(ready).ok \in BOOLEAN
         /\ \A P, Q : Neither(pending, ready, P, Q) => Neither(pending, Tail(ready), P, Q)
         /\ \A P, Q : OneOf(pending, ready, P, Q) => OneOf(pending, Tail(ready), P, Q)
         /\ \A P, Q : OneOf(pending, ready, P, Q) /\ Head(ready) \in Q
                        => Neither(pending, Tail(ready), P, Q)
         /\ \A P, Q : Behind(ready, P, Q) => Behind(Tail(ready), P, Q)
         /\ \A P, Q : Behind(ready, P, Q) /\ Head(ready) \in P => None(Tail(ready), Q)
         /\ \A Q : None(ready, Q) => None(Tail(ready), Q) /\ Head(ready) \notin Q
         /\ \A Q : Head(ready) \notin Q => (None(Tail(ready), Q) <=> None(ready, Q))
  <1>1. ready \in Seq(Completion) /\ ready # <<>> /\ pc[Io] = <<>> /\ Head(ready).op = op
    BY DEF TypeInv, TypeOK, AsioTypeOK, Handles
  <1>2. Head(ready) \in Completion /\ Tail(ready) \in Seq(Completion)
    BY <1>1
  <1>3. Head(ready) = [op |-> op, ok |-> Head(ready).ok] /\ Head(ready).ok \in BOOLEAN
    BY <1>1, <1>2 DEF Completion
  <1>4. Head(ready) = ready[1] /\ 1 \in DOMAIN ready
    BY <1>1
  <1>5. \A Q : None(ready, Q) => Head(ready) \notin Q
    BY <1>4 DEF None
  <1> QED
    BY <1>1, <1>2, <1>3, <1>5, Popped, TailKeeps DEF Threads

\* A completion is taken, and the io thread has places to go.
LEMMA TakesKeep ==
  ASSUME SessionInv,
         UNCHANGED <<class, sock, pending, connects, buffer, pieces, overlapped, late, role,
                     m_sessions>>,
         NEW op \in Transfers \cup Openers,
         NEW places \in {<<>>, <<"stop">>, <<"close">>, <<"read_cbk", "after_read">>, <<"release">>,
                         <<"write_cbk", "release">>, <<"start">>},
         Handles(op), ready' = Tail(ready), Call(Io, places) \/ (places = <<>> /\ pc' = pc),
         UNCHANGED <<m_bstart, m_bstop>>, m_binit' \in BOOLEAN, m_binit => m_binit',
         overtaken' \in BOOLEAN, overtaken => overtaken',
         m_bstart /\ places \in {<<"release">>, <<"write_cbk", "release">>} => Head(ready) \in Ok("write"),
         m_bstart /\ places = <<"read_cbk", "after_read">> => Head(ready) \in Ok("read"),
         places \in {<<"stop">>, <<"close">>} => m_bstart \/ Head(ready) \in Tokens(Openers),
         places = <<"start">> => Head(ready) \in Tokens(Starting) /\ m_binit',
         class = "websocket_ssl" /\ Head(ready) \in Ok("connect") => m_binit' /\ (Locked => overtaken')
  PROVE  SessionInv'
  <1> USE DEF SessionInv, buffer
  <1>1. /\ ready # <<>> /\ pc[Io] = <<>> /\ Io \in Threads
        /\ Tail(ready) \in Seq(Completion)
        /\ Head(ready) = [op |-> op, ok |-> Head(ready).ok] /\ Head(ready).ok \in BOOLEAN
        /\ \A P, Q : Neither(pending, ready, P, Q) => Neither(pending, Tail(ready), P, Q)
        /\ \A P, Q : OneOf(pending, ready, P, Q) => OneOf(pending, Tail(ready), P, Q)
        /\ \A P, Q : OneOf(pending, ready, P, Q) /\ Head(ready) \in Q
                       => Neither(pending, Tail(ready), P, Q)
        /\ \A P, Q : Behind(ready, P, Q) => Behind(Tail(ready), P, Q)
        /\ \A P, Q : Behind(ready, P, Q) /\ Head(ready) \in P => None(Tail(ready), Q)
        /\ \A Q : None(ready, Q) => None(Tail(ready), Q) /\ Head(ready) \notin Q
        /\ \A Q : Head(ready) \notin Q => (None(Tail(ready), Q) <=> None(ready, Q))
    BY TakenFirst
  <1>2. /\ DOMAIN pc' = Threads /\ \A s \in Threads : StackOK(pc'[s], s)
        /\ \A s \in Threads : s # Io => pc'[s] = pc[s] /\ Top(s)' = Top(s)
        /\ pc'[Io] = places /\ Top(Io)' = IF places = <<>> THEN "out" ELSE Head(places)
    <2>1. CASE Call(Io, places)
      BY <1>1, <2>1, TakeKeeps
    <2>2. CASE places = <<>> /\ pc' = pc
      BY <1>1, <2>2 DEF TypeInv, TypeOK, AsioTypeOK, Top
    <2> QED
      BY <2>1, <2>2
  <1>3. Starting' = Starting
    BY DEF Starting
  <1>4. ~(role = "server" /\ connects = 0)
    <2>1. Head(ready) \in Tokens(Transfers \cup Openers)
      BY <1>1 DEF Tokens
    <2> QED
      BY <1>1, <2>1 DEF RoleInv
  <1>5. /\ places \notin {<<"release">>, <<"write_cbk", "release">>} => None(pc'[Io], {"release"})
        /\ places # <<"read_cbk", "after_read">> => None(pc'[Io], {"read", "after_read"})
    BY <1>2, Short
  <1>6. /\ Top(Io) = "out" /\ Top(Io)' \notin {"read", "remove_session"} \cup Resets
        /\ Top(Io)' = "start" => places = <<"start">>
        /\ Top(Io)' \in {"stop", "close"} => places \in {<<"stop">>, <<"close">>}
    BY <1>1, <1>2 DEF Top, Resets
  <1>7. Locked' = Locked
    BY <1>2, <1>6 DEF Locked, Resets
  <1>8. Top(Io)' = "start" /\ ~overlapped =>
          /\ Neither(pending, Tail(ready), Starting, Tokens(Starting))
          /\ ~late => ~m_bstart
    <2> SUFFICES ASSUME places = <<"start">>, ~overlapped
                 PROVE  /\ Neither(pending, Tail(ready), Starting, Tokens(Starting))
                        /\ ~late => ~m_bstart
      BY <1>6
    <2>1. Head(ready) \in Tokens(Starting) /\ Head(ready) \in Tokens(Openers)
      BY Apart
    <2>2. Neither(pending, Tail(ready), Openers, Tokens(Openers))
      BY <1>1, <2>1 DEF AttemptInv
    <2>3. Neither(pending, Tail(ready), Starting, Tokens(Starting))
      BY <2>2, Apart DEF Neither, None
    <2>4. ~late => ~m_bstart
      BY <1>1, <2>1 DEF AttemptInv, Neither
    <2> QED
      BY <2>3, <2>4
  <1>9. TypeInv'
    BY <1>1, <1>2 DEF TypeInv, TypeOK, AsioTypeOK, SwitchTypeOK, switch
  <1>10. RoleInv' /\ LenInv'
    BY <1>1, <1>4 DEF RoleInv, LenInv
  <1>11. SwitchInv'
    <2>1. \A s \in Threads : Top(s) \in {"close", "reset_start", "reset_stop"} => Top(s)' = Top(s)
      BY <1>2, <1>6
    <2>2. \A s \in Threads : Top(s)' \in {"reset_stop", "reset_init"} => Top(s)' = Top(s)
      BY <1>2, <1>6 DEF Resets
    <2> QED
      BY <2>1, <2>2 DEF SwitchInv
  <1>12. IdleInv'
    BY <1>7 DEF IdleInv
  <1>13. AttemptInv'
    BY <1>1, <1>3, <1>6, <1>8 DEF AttemptInv
  <1>14. WriteInv'
    <2> SUFFICES ASSUME ~overlapped, ~late
                 PROVE  /\ Behind(ready', Tokens(Starting), Ok("write"))
                        /\ Top(Io)' = "start" => None(ready', Ok("write"))
                        /\ m_bstart => Single("write", {"release"})'
                        /\ m_bstart /\ m_current_send_msg = <<>> =>
                             /\ None(pc'[Io], {"release"})
                             /\ Neither(pending', ready', {"write"}, Ok("write"))
      BY <1>3 DEF WriteInv
    <2>1. Behind(ready', Tokens(Starting), Ok("write"))
      BY <1>1 DEF WriteInv
    <2>2. Top(Io)' = "start" => None(ready', Ok("write"))
      BY <1>1, <1>6 DEF WriteInv
    <2>3. ASSUME m_bstart PROVE Single("write", {"release"})'
      BY <1>1, <1>5, <2>3 DEF WriteInv, Single
    <2>4. ASSUME m_bstart, m_current_send_msg = <<>>
          PROVE  None(pc'[Io], {"release"}) /\ Neither(pending', ready', {"write"}, Ok("write"))
      <3>1. Neither(pending, ready, {"write"}, Ok("write")) /\ None(ready, Ok("write"))
        BY <2>4 DEF WriteInv, Neither
      <3> QED
        BY <1>1, <1>5, <2>4, <3>1
    <2> QED
      BY <2>1, <2>2, <2>3, <2>4
  <1>15. ReadInv'
    <2>1. ASSUME m_bstart, ~overlapped, ~overtaken PROVE Single("read", {"read", "after_read"})'
      BY <1>1, <1>5, <2>1 DEF ReadInv, Single
    <2>2. ~overlapped /\ ~overtaken /\ Top(Io)' = "start" => None(ready', Ok("read"))
      BY <1>1, <1>6 DEF ReadInv
    <2> QED
      BY <1>1, <1>3, <1>6, <1>7, <2>1, <2>2 DEF ReadInv
  <1>16. EarlyInv'
    <2> SUFFICES ASSUME ~overlapped, ~overtaken'
                 PROVE  /\ ~late /\ StopsFirst'
                        /\ \/ /\ Neither(pending, Tail(ready), Starting, Tokens(Starting))
                              /\ Top(Io)' # "start"
                           \/ /\ ~m_bstart /\ (m_binit' \/ role = "server")
                              /\ \A t \in Threads : Top(t)' \notin Inside
      BY <1>3 DEF EarlyInv
    <2>1. ~late /\ StopsFirst
      BY DEF EarlyInv
    <2>2. StopsFirst'
      BY <1>2, <2>1, AsioAssumption DEF StopsFirst, Threads, Io
    <2>3. CASE places \in {<<"stop">>, <<"close">>}
      <3>1. m_bstart => Neither(pending, ready, Starting, Tokens(Starting))
        BY <2>1 DEF AttemptInv
      <3>2. Head(ready) \in Tokens(Openers) => Neither(pending, Tail(ready), Openers, Tokens(Openers))
        BY <1>1 DEF AttemptInv
      <3>3. Head(ready) \in Tokens(Openers) => Neither(pending, Tail(ready), Starting, Tokens(Starting))
        BY <3>2, Apart DEF Neither, None
      <3>4. Top(Io)' # "start"
        BY <1>6, <2>3
      <3> QED
        BY <1>1, <2>1, <2>2, <2>3, <3>1, <3>3, <3>4
    <2>4. CASE places \notin {<<"stop">>, <<"close">>}
      <3>1. Top(Io)' \notin Inside
        BY <1>6, <2>4 DEF Inside
      <3>2. Top(Io)' = "start" => ~Neither(pending, ready, Starting, Tokens(Starting))
        BY <1>1, <1>6 DEF Neither
      <3> QED
        BY <1>1, <1>2, <2>1, <2>2, <3>1, <3>2 DEF EarlyInv
    <2> QED
      BY <2>3, <2>4
  <1>17. OwnerInv'
    BY <1>1, <1>7 DEF OwnerInv
  <1> QED
    BY <1>9, <1>10, <1>11, <1>12, <1>13, <1>14, <1>15, <1>16, <1>17

\* The compare_exchange of start(): the session starts, or is refused.
LEMMA SwitchesKeep ==
  ASSUME SessionInv, UNCHANGED class, Switches
  PROVE  SessionInv'
  <1> USE DEF SessionInv, switch, buffer
  <1>0. PICK refused \in {<<>>, <<"close">>} : Start(refused)
    BY DEF Switches
  <1>1. /\ Top(Io) = "start"
        /\ UNCHANGED <<sock, pending, ready, connects, buffer, pieces, overtaken, overlapped, role,
                       m_sessions>>
        /\ \/ m_bstart /\ Goto(Io, refused) /\ UNCHANGED <<switch, late>>
           \/ /\ ~m_bstart /\ Goto(Io, <<"read", "open_cbk">>)
              /\ m_bstart' = TRUE /\ UNCHANGED <<m_binit, m_bstop>>
              /\ late' = (late \/ ~MayStart \/ Locked)
    BY <1>0 DEF Start, StartCas
  <1>2. /\ Io \in Threads /\ pc[Io] # <<>>
        /\ m_bstop \in BOOLEAN /\ m_bstart \in BOOLEAN /\ m_binit \in BOOLEAN
    BY <1>1 DEF Top, Threads, TypeInv, TypeOK, SwitchTypeOK
  <1>3. PICK places \in {<<>>, <<"close">>, <<"read", "open_cbk">>} :
          Goto(Io, places) /\ (m_bstart => places = refused)
                           /\ (~m_bstart => places = <<"read", "open_cbk">>)
    BY <1>1
  <1>4. /\ DOMAIN pc' = Threads /\ \A s \in Threads : StackOK(pc'[s], s)
        /\ \A s \in Threads : s # Io => pc'[s] = pc[s] /\ Top(s)' = Top(s)
        /\ pc'[Io] = places /\ Top(Io)' = IF places = <<>> THEN "out" ELSE Head(places)
    BY <1>1, <1>3, SwitchKeeps
  <1>5. /\ Top(Io)' \in {"out", "close", "read"}
        /\ ~m_bstart => Top(Io)' = "read"
    BY <1>3, <1>4
  <1>6. Locked' = Locked /\ \A s \in Threads : Top(s) # "start" => Top(s)' = Top(s)
    BY <1>1, <1>4, <1>5 DEF Locked, Resets
  <1>7. Starting' = Starting
    BY DEF Starting
  <1>8. ~(role = "server" /\ connects = 0)
    BY <1>2 DEF RoleInv
  <1>9. ~overlapped /\ ~overtaken =>
          ~late /\ ~m_bstart /\ m_binit /\ ~m_bstop /\ ~Locked
            /\ \A s \in Threads : Top(s) \notin Inside
    <2> SUFFICES ASSUME ~overlapped, ~overtaken
                 PROVE  ~late /\ ~m_bstart /\ m_binit /\ ~m_bstop /\ ~Locked
                          /\ \A s \in Threads : Top(s) \notin Inside
      OBVIOUS
    <2>1. ~late /\ \A s \in Threads : Top(s) \notin Inside
      BY <1>1 DEF EarlyInv
    <2>2. m_binit /\ ~m_bstart
      BY <1>1, <2>1 DEF AttemptInv
    <2> QED
      BY <2>1, <2>2 DEF SwitchInv, Locked, Inside, Resets
  <1>10. m_bstart => overlapped \/ late
    BY <1>1 DEF AttemptInv
  <1>11. ~late' => ~late
    BY <1>1
  <1>12. \A P, Q : Neither(pending, ready, P, Q) => OneOf(pending, ready, P, Q)
    BY DEF Neither, OneOf, None, Once
  <1>13. ~m_bstart => None(pc'[Io], {"release"})
    BY <1>3, <1>4, Short
  <1>14. TypeInv'
    BY <1>1, <1>2, <1>4 DEF TypeInv, TypeOK, AsioTypeOK, SwitchTypeOK
  <1>15. RoleInv' /\ LenInv'
    BY <1>1, <1>8 DEF RoleInv, LenInv
  <1>16. SwitchInv'
    <2>1. \A s \in Threads : Top(s) \in {"close", "reset_start", "reset_stop"} => Top(s)' = Top(s)
      BY <1>6
    <2>2. \A s \in Threads : Top(s)' \in {"reset_stop", "reset_init"} =>
                               Top(s)' = Top(s) /\ Locked
      BY <1>4, <1>5 DEF Locked, Resets
    <2>3. m_bstart => m_bstart' = m_bstart /\ m_binit' = m_binit /\ late' = late
      BY <1>1
    <2>4. ~m_bstart /\ ~late' => m_binit' /\ ~Locked
      <3>1. ~m_bstart => late' = (late \/ ~MayStart \/ Locked) /\ m_binit' = m_binit
        BY <1>1
      <3>2. ~m_bstart /\ ~late' => MayStart /\ ~Locked
        BY <3>1
      <3>3. MayStart => m_binit
        BY DEF MayStart
      <3> QED
        BY <3>1, <3>2, <3>3
    <2>5. m_bstop' = m_bstop
      BY <1>1
    <2> QED
      BY <1>1, <1>2, <2>1, <2>2, <2>3, <2>4, <2>5 DEF SwitchInv
  <1>17. IdleInv'
    BY <1>1, <1>6 DEF IdleInv
  <1>18. AttemptInv'
    BY <1>1, <1>5, <1>7, <1>11 DEF AttemptInv
  <1>19. WriteInv'
    <2> SUFFICES ASSUME ~overlapped, ~late' PROVE WriteInv'
      BY <1>1 DEF WriteInv
    <2>1. ~late /\ ~m_bstart
      BY <1>10, <1>11
    <2>2. Neither(pending, ready, {"write"}, Ok("write")) /\ Behind(ready, Tokens(Starting), Ok("write"))
      BY <1>1, <2>1 DEF WriteInv, IdleInv, Neither
    <2> QED
      BY <1>1, <1>5, <1>7, <1>12, <1>13, <2>1, <2>2 DEF WriteInv, Single
  <1>20. ReadInv'
    <2> SUFFICES ASSUME ~overlapped, ~overtaken PROVE ReadInv'
      BY <1>1 DEF ReadInv
    <2>1. Neither(pending, ready, {"read"}, Ok("read")) /\ Behind(ready, Tokens(Starting), Ok("read"))
      BY <1>1, <1>9 DEF ReadInv, Neither
    <2>2. m_bstart' /\ ~Locked'
      BY <1>1, <1>6, <1>9
    <2> QED
      BY <1>1, <1>5, <1>7, <1>9, <1>12, <2>1, <2>2 DEF ReadInv, Single
  <1>21. EarlyInv'
    <2> SUFFICES ASSUME ~overlapped, ~overtaken
                 PROVE  /\ ~late' /\ StopsFirst'
                        /\ Neither(pending, ready, Starting, Tokens(Starting)) /\ Top(Io)' # "start"
      BY <1>1, <1>7 DEF EarlyInv
    <2>1. ~late'
      BY <1>1, <1>9 DEF MayStart
    <2>2. Neither(pending, ready, Starting, Tokens(Starting)) /\ Top(Io)' # "start"
      BY <1>1, <1>5, <1>9 DEF AttemptInv
    <2>3. StopsFirst'
      BY <1>4, <1>9, AsioAssumption DEF StopsFirst, Threads, Io, Inside, Resets
    <2> QED
      BY <2>1, <2>2, <2>3
  <1>22. OwnerInv'
    BY <1>1, <1>6 DEF OwnerInv
  <1> QED
    BY <1>14, <1>15, <1>16, <1>17, <1>18, <1>19, <1>20, <1>21, <1>22

\* The handlers of reads and writes, and of the last stage of opening.
LEMMA HandlersKeep ==
  ASSUME SessionInv, UNCHANGED class, HandleRead \/ HandleWrite \/ Opens \/ (class = "tcp" /\ Starts)
  PROVE  SessionInv'
  <1>1. TypeInv /\ RoleInv /\ AttemptInv /\ WriteInv /\ IdleInv
    BY DEF SessionInv
  <1>2. m_bstop \in BOOLEAN /\ m_bstart \in BOOLEAN /\ m_binit \in BOOLEAN /\ overtaken \in BOOLEAN
    BY <1>1 DEF TypeInv, TypeOK, SwitchTypeOK, switch
  <1>3. ASSUME NEW op \in Transfers \cup Openers,
               NEW places \in {<<>>, <<"stop">>, <<"close">>, <<"read_cbk", "after_read">>,
                               <<"release">>, <<"write_cbk", "release">>, <<"start">>},
               Handle(op, places), UNCHANGED switch \/ init,
               m_bstart /\ places \in {<<"release">>, <<"write_cbk", "release">>} =>
                 Head(ready) \in Ok("write"),
               m_bstart /\ places = <<"read_cbk", "after_read">> => Head(ready) \in Ok("read"),
               places \in {<<"stop">>, <<"close">>} => m_bstart \/ Head(ready) \in Tokens(Openers),
               places = <<"start">> => Head(ready) \in Tokens(Starting) /\ m_binit',
               class = "websocket_ssl" => Head(ready) \notin Ok("connect")
        PROVE  SessionInv'
    <2>1. /\ Handles(op) /\ ready' = Tail(ready) /\ Call(Io, places)
          /\ UNCHANGED <<sock, pending, connects, buffer, pieces, overtaken, overlapped, late, role,
                         m_sessions>>
      BY <1>3 DEF Handle, stream_vars, history
    <2>2. UNCHANGED <<m_bstart, m_bstop>> /\ m_binit' \in BOOLEAN /\ (m_binit => m_binit')
      <3>1. CASE UNCHANGED switch
        BY <1>2, <3>1 DEF switch
      <3>2. CASE init
        BY <3>2 DEF init
      <3> QED
        BY <1>3, <3>1, <3>2
    <2> QED
      BY <1>2, <1>3, <2>1, <2>2, TakesKeep
  <1>4. CASE HandleRead
    <2> DEFINE places == IF Succeeded THEN <<"read_cbk", "after_read">> ELSE Shutdown
    <2>1. Handle("read", places) /\ Handles("read") /\ UNCHANGED switch
      BY <1>4 DEF HandleRead, Handle
    <2>2. Head(ready) = [op |-> "read", ok |-> Head(ready).ok] /\ Head(ready).ok \in BOOLEAN
      BY <1>1, <2>1, TakenFirst
    <2>3. /\ places \in {<<"read_cbk", "after_read">>, <<"stop">>, <<>>}
          /\ places = <<"read_cbk", "after_read">> => Head(ready).ok
          /\ places = <<"stop">> => m_bstart
      BY DEF Shutdown, MayStop, Succeeded
    <2>4. places = <<"read_cbk", "after_read">> => Head(ready) \in Ok("read")
      BY <2>2, <2>3 DEF Ok
    <2>5. Head(ready) \notin Ok("connect")
      BY <2>2 DEF Ok
    <2>6. places \notin {<<"release">>, <<"write_cbk", "release">>, <<"close">>, <<"start">>}
      BY <2>3
    <2>7. "read" \in Transfers \cup Openers
      BY DEF Transfers
    <2> HIDE DEF places
    <2> QED
      BY <1>3, <2>1, <2>3, <2>4, <2>5, <2>6, <2>7
  <1>5. CASE HandleWrite
    <2> DEFINE places == IF ~Succeeded THEN Shutdown
                         ELSE IF has_stoped THEN <<>>
                         ELSE IF m_current_send_msg # <<>> THEN <<"write_cbk", "release">>
                         ELSE <<"release">>
    <2>1. Handle("write", places) /\ Handles("write") /\ UNCHANGED switch
      BY <1>5 DEF HandleWrite, Handle
    <2>2. Head(ready) = [op |-> "write", ok |-> Head(ready).ok] /\ Head(ready).ok \in BOOLEAN
      BY <1>1, <2>1, TakenFirst
    <2>3. /\ places \in {<<"write_cbk", "release">>, <<"release">>, <<"stop">>, <<>>}
          /\ places \in {<<"write_cbk", "release">>, <<"release">>} => Head(ready).ok
          /\ places = <<"stop">> => m_bstart
      BY DEF Shutdown, MayStop, Succeeded
    <2>4. places \in {<<"write_cbk", "release">>, <<"release">>} => Head(ready) \in Ok("write")
      BY <2>2, <2>3 DEF Ok
    <2>5. Head(ready) \notin Ok("connect")
      BY <2>2 DEF Ok
    <2>6. places \notin {<<"read_cbk", "after_read">>, <<"close">>, <<"start">>}
      BY <2>3
    <2>7. "write" \in Transfers \cup Openers
      BY DEF Transfers
    <2> HIDE DEF places
    <2> QED
      BY <1>3, <2>1, <2>3, <2>4, <2>5, <2>6, <2>7
  <1>6. CASE Opens
    <2>1. PICK op \in Starting \ {"start"}, refused \in {<<>>, <<"close">>} : HandleOpened(op, refused)
      BY <1>6 DEF Opens
    <2> DEFINE places == IF ~Succeeded THEN <<"close">> ELSE IF MayStart THEN <<"start">> ELSE refused
    <2>2. Handle(op, places) /\ Handles(op) /\ UNCHANGED switch
      BY <2>1 DEF HandleOpened, Handle
    <2>3. Head(ready) = [op |-> op, ok |-> Head(ready).ok] /\ Head(ready).ok \in BOOLEAN
      BY <1>1, <2>2, TakenFirst
    <2>4. places \in {<<>>, <<"close">>, <<"start">>} /\ (places = <<"start">> => MayStart)
      BY <2>1
    <2>5. places \notin {<<"release">>, <<"write_cbk", "release">>, <<"read_cbk", "after_read">>, <<"stop">>}
      BY <2>4
    <2>6. op \in Openers
      BY <2>1, Apart
    <2>7. Head(ready) \in Tokens(Openers) /\ Head(ready) \in Tokens(Starting)
      BY <2>1, <2>3, <2>6 DEF Tokens
    <2>8. class = "websocket_ssl" => Head(ready) \notin Ok("connect")
      BY <2>1, <2>3 DEF Starting, Ok
    <2>9. places = <<"start">> => m_binit'
      BY <2>2, <2>4 DEF MayStart, switch
    <2> HIDE DEF places
    <2> QED
      BY <1>3, <2>2, <2>4, <2>5, <2>6, <2>7, <2>8, <2>9
  <1>7. CASE class = "tcp" /\ Starts
    <2>1. Handle("start", <<"start">>) /\ Handles("start") /\ init /\ m_binit' = TRUE
      BY <1>7 DEF Starts, Handle, init
    <2>2. Head(ready) = [op |-> "start", ok |-> Head(ready).ok] /\ Head(ready).ok \in BOOLEAN
      BY <1>1, <2>1, TakenFirst
    <2>3. "start" \in Starting /\ "start" \in Transfers \cup Openers
      BY <1>7 DEF Starting, Openers
    <2>4. Head(ready) \in Tokens(Starting)
      BY <2>2, <2>3 DEF Tokens
    <2>5. <<"start">> \notin {<<"release">>, <<"write_cbk", "release">>, <<"read_cbk", "after_read">>,
                              <<"stop">>, <<"close">>}
      OBVIOUS
    <2> QED
      BY <1>3, <1>7, <2>1, <2>3, <2>4, <2>5
  <1> QED
    BY <1>4, <1>5, <1>6, <1>7

\* A stage of opening has completed and the next one begins, or fails at once.
LEMMA StageKeeps ==
  ASSUME SessionInv,
         UNCHANGED <<class, sock, pc, connects, buffer, pieces, overlapped, late, role, m_sessions>>,
         NEW op \in Openers, NEW next \in Starting \ {"start"}, Handles(op),
         UNCHANGED <<m_bstart, m_bstop>>, m_binit' \in BOOLEAN, m_binit => m_binit',
         overtaken' \in BOOLEAN, overtaken => overtaken',
         ~overlapped /\ ~late => ~m_bstart,
         ~overlapped /\ ~overtaken' =>
           (m_binit' \/ role = "server") /\ \A t \in Threads : Top(t) \notin Inside,
         class = "websocket_ssl" /\ Head(ready) \in Ok("connect") => m_binit',
         \/ pending' = Append(pending, next) /\ ready' = Tail(ready)
         \/ pending' = pending /\ ready' = Append(Tail(ready), [op |-> next, ok |-> FALSE])
  PROVE  SessionInv'
  <1> USE DEF SessionInv, buffer
  <1> DEFINE c == [op |-> next, ok |-> FALSE]
  <1>1. /\ ready # <<>> /\ pc[Io] = <<>> /\ Io \in Threads
        /\ Tail(ready) \in Seq(Completion)
        /\ Head(ready) = [op |-> op, ok |-> Head(ready).ok] /\ Head(ready).ok \in BOOLEAN
        /\ \A P, Q : Neither(pending, ready, P, Q) => Neither(pending, Tail(ready), P, Q)
        /\ \A P, Q : OneOf(pending, ready, P, Q) => OneOf(pending, Tail(ready), P, Q)
        /\ \A P, Q : OneOf(pending, ready, P, Q) /\ Head(ready) \in Q
                       => Neither(pending, Tail(ready), P, Q)
        /\ \A P, Q : Behind(ready, P, Q) => Behind(Tail(ready), P, Q)
        /\ \A Q : None(ready, Q) => None(Tail(ready), Q) /\ Head(ready) \notin Q
        /\ \A Q : Head(ready) \notin Q => (None(Tail(ready), Q) <=> None(ready, Q))
    BY TakenFirst
  <1>2. pending \in Seq(Transfers \cup Stages)
    BY DEF TypeInv, TypeOK, AsioTypeOK
  <1>3. next \in Stages /\ next \in Transfers \cup Stages /\ next \notin Transfers /\ next \in Openers
    BY DEF Starting, Openers, Stages, Transfers
  <1>4. c \in Completion /\ (\A o : c \notin Ok(o)) /\ c \notin Tokens({"start"})
    BY <1>3 DEF Completion, Ok, Tokens
  <1> HIDE DEF c
  <1>5. /\ pending' \in Seq(Transfers \cup Stages) /\ ready' \in Seq(Completion)
        /\ \A P, Q : next \notin P /\ c \notin Q =>
             /\ Neither(pending, Tail(ready), P, Q) => Neither(pending', ready', P, Q)
             /\ OneOf(pending, Tail(ready), P, Q) => OneOf(pending', ready', P, Q)
        /\ \A P, Q : Neither(pending, Tail(ready), P, Q) => OneOf(pending', ready', P, Q)
        /\ \A P, Q : Behind(Tail(ready), P, Q) /\ c \notin Q => Behind(ready', P, Q)
        /\ \A P : None(pending, P) /\ next \notin P => None(pending', P)
        /\ \A Q : None(Tail(ready), Q) /\ c \notin Q => None(ready', Q)
        /\ \A Q : ~None(Tail(ready), Q) => ~None(ready', Q)
    <2>1. CASE pending' = Append(pending, next) /\ ready' = Tail(ready)
      <3>1. /\ pending' \in Seq(Transfers \cup Stages) /\ ready' \in Seq(Completion)
            /\ \A P : None(pending', P) <=> None(pending, P) /\ next \notin P
        BY <1>1, <1>2, <1>3, <2>1, AppendKeeps
      <3>2. /\ \A P, Q : Neither(pending, Tail(ready), P, Q) => OneOf(pending', ready', P, Q)
            /\ \A P, Q : next \notin P =>
                 /\ Neither(pending, Tail(ready), P, Q) => Neither(pending', ready', P, Q)
                 /\ OneOf(pending, Tail(ready), P, Q) => OneOf(pending', ready', P, Q)
        BY <1>2, <1>3, <2>1, Begun
      <3> QED
        BY <2>1, <3>1, <3>2
    <2>2. CASE pending' = pending /\ ready' = Append(Tail(ready), c)
      <3>1. /\ pending' \in Seq(Transfers \cup Stages) /\ ready' \in Seq(Completion)
            /\ \A Q : None(ready', Q) <=> None(Tail(ready), Q) /\ c \notin Q
            /\ \A P, Q : Behind(Tail(ready), P, Q) /\ c \notin Q => Behind(ready', P, Q)
        <4>1. c \in Completion /\ Tail(ready) \in Seq(Completion)
          BY <1>1, <1>4
        <4>2. /\ \A Q : None(Append(Tail(ready), c), Q) <=> None(Tail(ready), Q) /\ c \notin Q
              /\ \A P, Q : Behind(Tail(ready), P, Q) /\ c \notin Q => Behind(Append(Tail(ready), c), P, Q)
          BY <4>1, AppendKeeps
        <4>3. Append(Tail(ready), c) \in Seq(Completion)
          BY <4>1
        <4> QED
          BY <1>2, <2>2, <4>2, <4>3
      <3>2. /\ \A P, Q : Neither(pending, Tail(ready), P, Q) => OneOf(pending', ready', P, Q)
            /\ \A P, Q : c \notin Q =>
                 /\ Neither(pending, Tail(ready), P, Q) => Neither(pending', ready', P, Q)
                 /\ OneOf(pending, Tail(ready), P, Q) => OneOf(pending', ready', P, Q)
        BY <1>1, <1>4, <2>2, Added
      <3> QED
        BY <2>2, <3>1, <3>2
    <2> QED
      BY <2>1, <2>2 DEF c
  <1>6. Starting' = Starting
    BY DEF Starting
  <1>7. Head(ready) \in Tokens(Openers)
    BY <1>1 DEF Tokens
  <1>8. ~(role = "server" /\ connects = 0)
    <2>1. Head(ready) \in Tokens(Transfers \cup Openers)
      BY <1>1 DEF Tokens
    <2> QED
      BY <1>1, <2>1 DEF RoleInv
  <1>9. TypeInv'
    BY <1>5 DEF TypeInv, TypeOK, AsioTypeOK, SwitchTypeOK, switch
  <1>10. RoleInv'
    BY <1>1, <1>4, <1>5, <1>8 DEF RoleInv
  <1>11. Locked' = Locked /\ Top(Io) = "out" /\ \A t \in Threads : Top(t)' = Top(t)
    BY <1>1 DEF Locked, Top
  <1>12. IdleInv' /\ LenInv'
    BY <1>3, <1>5, <1>11 DEF IdleInv, LenInv, Transfers
  <1>13. SwitchInv'
    BY <1>11 DEF SwitchInv
  <1>14. AttemptInv'
    BY <1>1, <1>5, <1>7, <1>11 DEF AttemptInv
  <1>15. WriteInv'
    BY <1>1, <1>4, <1>5, <1>6, <1>11 DEF WriteInv
  <1>16. ~overlapped /\ ~overtaken => ~late /\ ~m_bstart
    BY DEF EarlyInv
  <1>17. ReadInv'
    BY <1>1, <1>3, <1>4, <1>5, <1>6, <1>11, <1>16 DEF ReadInv, Transfers
  <1>18. EarlyInv'
    <2>1. StopsFirst => StopsFirst'
      BY <1>11 DEF StopsFirst, Threads
    <2> QED
      BY <1>11, <1>16, <2>1 DEF EarlyInv
  <1>19. OwnerInv'
    <2>1. (\A t \in Threads : Top(t) \notin Inside) => ~Locked
      BY DEF Locked, Inside
    <2> QED
      BY <1>1, <1>5, <1>11, <2>1 DEF OwnerInv
  <1> QED
    BY <1>9, <1>10, <1>12, <1>13, <1>14, <1>15, <1>17, <1>18, <1>19

\* The stages of opening, the first handler of a WebsocketSslSession among them.
LEMMA GoesKeep ==
  ASSUME SessionInv, UNCHANGED class, Goes \/ (class = "websocket_ssl" /\ Secures)
  PROVE  SessionInv'
  <1>1. TypeInv /\ AttemptInv /\ SwitchInv /\ EarlyInv
    BY DEF SessionInv
  <1>2. m_bstop \in BOOLEAN /\ m_bstart \in BOOLEAN /\ m_binit \in BOOLEAN /\ overtaken \in BOOLEAN
    BY <1>1 DEF TypeInv, TypeOK, SwitchTypeOK, switch
  <1>3. ASSUME NEW op \in Openers, NEW places \in {<<>>, <<"close">>},
               Handles(op), ready' = Tail(ready), Call(Io, places) \/ (places = <<>> /\ pc' = pc),
               UNCHANGED <<sock, pending, connects, buffer, pieces, overlapped, late, role, m_sessions>>,
               UNCHANGED <<m_bstart, m_bstop>>, m_binit' \in BOOLEAN, m_binit => m_binit',
               overtaken' \in BOOLEAN, overtaken => overtaken',
               class = "websocket_ssl" /\ Head(ready) \in Ok("connect") =>
                 m_binit' /\ (Locked => overtaken')
        PROVE  SessionInv'
    <2>1. Head(ready) \in Tokens(Openers)
      BY <1>1, <1>3, TakenFirst DEF Tokens
    <2>2. places \notin {<<"release">>, <<"write_cbk", "release">>, <<"read_cbk", "after_read">>,
                         <<"stop">>, <<"start">>}
      BY <1>3, SMTT(30)
    <2> QED
      BY <1>3, <2>1, <2>2, TakesKeep
  <1>4. CASE Goes
    <2>1. PICK op \in Starting \ {"start"}, next \in Starting \ {"start"} : HandleStage(op, next)
      BY <1>4 DEF Goes
    <2>2. /\ op \in Openers /\ Handles(op)
          /\ UNCHANGED <<sock, connects, switch, buffer, pieces, overtaken, overlapped, late, role,
                         m_sessions>>
      BY <2>1, Apart DEF HandleStage, stream_vars, history
    <2>3. Head(ready) = [op |-> op, ok |-> Head(ready).ok] /\ Head(ready).ok \in BOOLEAN
      BY <1>1, <2>2, TakenFirst
    <2>4. class = "websocket_ssl" => Head(ready) \notin Ok("connect")
      BY <2>1, <2>3 DEF Starting, Ok
    <2>5. ~Neither(pending, ready, Starting, Tokens(Starting))
      <3>1. Head(ready) \in Tokens(Starting)
        BY <2>1, <2>3 DEF Tokens
      <3> QED
        BY <1>1, <2>2, <3>1, TakenFirst DEF Neither
    <2>6. /\ ~overlapped /\ ~late => ~m_bstart
          /\ ~overlapped /\ ~overtaken =>
               (m_binit \/ role = "server") /\ \A t \in Threads : Top(t) \notin Inside
      BY <1>1, <2>5 DEF AttemptInv, EarlyInv
    <2>7. UNCHANGED <<m_binit, m_bstart, m_bstop>>
      BY <2>2 DEF switch
    <2>8. CASE ~Succeeded
      <3>1. ready' = Tail(ready) /\ Call(Io, <<"close">>) /\ UNCHANGED pending
        BY <2>1, <2>8 DEF HandleStage
      <3> QED
        BY <1>2, <1>3, <2>2, <2>4, <2>7, <3>1
    <2>9. CASE Succeeded
      <3>1. \/ pending' = Append(pending, next) /\ ready' = Tail(ready) /\ pc' = pc
            \/ /\ pending' = pending /\ ready' = Append(Tail(ready), [op |-> next, ok |-> FALSE])
               /\ pc' = pc
        BY <2>1, <2>9 DEF HandleStage
      <3> QED
        BY <1>2, <2>1, <2>2, <2>4, <2>6, <2>7, <3>1, StageKeeps
    <2> QED
      BY <2>8, <2>9
  <1>5. CASE class = "websocket_ssl" /\ Secures
    <2>1. "connect" \in Openers /\ "tls" \in Starting \ {"start"}
      BY <1>5 DEF Starting, Openers, Stages
    <2>2. CASE Handles("connect") /\ Succeeded
      <3>1. /\ ready' = Tail(ready)
            /\ \/ m_binit /\ UNCHANGED <<pending, pc, switch>>
               \/ init /\ Call(Io, <<"close">>) /\ UNCHANGED pending
               \/ init /\ pending' = Append(pending, "tls") /\ UNCHANGED pc
            /\ overtaken' = (overtaken \/ Occupied(Io))
            /\ UNCHANGED <<sock, connects, buffer, pieces, overlapped, late, role, m_sessions>>
        BY <1>5, <2>2 DEF Secures
      <3>2. pc[Io] = <<>> /\ Io \in Threads
        BY <2>2 DEF Handles, Threads
      <3>3. /\ overtaken' \in BOOLEAN /\ (overtaken => overtaken')
            /\ ~overtaken' => \A t \in Threads : Top(t) = "out"
        BY <1>2, <3>1, <3>2 DEF Occupied, Top
      <3>4. Locked => overtaken'
        BY <3>3 DEF Locked, Resets
      <3>5. CASE m_binit /\ UNCHANGED <<pending, pc, switch>>
        BY <1>2, <1>3, <2>1, <2>2, <3>1, <3>3, <3>4, <3>5 DEF switch
      <3>6. CASE init /\ Call(Io, <<"close">>) /\ UNCHANGED pending
        BY <1>2, <1>3, <2>1, <2>2, <3>1, <3>3, <3>4, <3>6 DEF init
      <3>7. CASE init /\ pending' = Append(pending, "tls") /\ UNCHANGED pc
        <4>1. ~late => ~m_bstart
          BY <1>1, <3>7 DEF SwitchInv, init
        <4>2. \A t \in Threads : Top(t) = "out" => Top(t) \notin Inside
          BY DEF Inside, Resets
        <4>3. m_binit' = TRUE /\ UNCHANGED <<m_bstart, m_bstop>>
          BY <3>7 DEF init
        <4> QED
          BY <1>2, <2>1, <2>2, <3>1, <3>3, <3>7, <4>1, <4>2, <4>3, StageKeeps
      <3> QED
        BY <3>1, <3>5, <3>6, <3>7
    <2>3. CASE ~(Handles("connect") /\ Succeeded)
      <3>1. Handle("connect", <<"close">>) /\ UNCHANGED switch /\ Handles("connect") /\ ~Succeeded
        BY <1>5, <2>3 DEF Secures, Handle
      <3>2. Head(ready) \notin Ok("connect")
        BY <3>1 DEF Ok, Succeeded
      <3>3. /\ ready' = Tail(ready) /\ Call(Io, <<"close">>)
            /\ UNCHANGED <<sock, pending, connects, buffer, pieces, overtaken, overlapped, late, role,
                           m_sessions, m_binit, m_bstart, m_bstop>>
        BY <3>1 DEF Handle, stream_vars, history, switch
      <3> QED
        BY <1>2, <1>3, <2>1, <3>1, <3>2, <3>3
    <2> QED
      BY <2>2, <2>3
  <1> QED
    BY <1>4, <1>5

\* The socket is connected anew, whatever was outstanding on it.
LEMMA ResolvedKeeps ==
  ASSUME SessionInv, UNCHANGED class, class # "tcp", HandleResolved
  PROVE  SessionInv'
  <1> USE DEF SessionInv, stream_vars, history, buffer
  <1>1. Handles("resolve") /\ UNCHANGED <<connects, switch, stream_vars>>
    BY DEF HandleResolved
  <1>2. /\ ready # <<>> /\ pc[Io] = <<>> /\ Io \in Threads
        /\ Tail(ready) \in Seq(Completion)
        /\ Head(ready) = [op |-> "resolve", ok |-> Head(ready).ok] /\ Head(ready).ok \in BOOLEAN
        /\ \A P, Q : Neither(pending, ready, P, Q) => Neither(pending, Tail(ready), P, Q)
        /\ \A P, Q : OneOf(pending, ready, P, Q) => OneOf(pending, Tail(ready), P, Q)
        /\ \A P, Q : OneOf(pending, ready, P, Q) /\ Head(ready) \in Q
                       => Neither(pending, Tail(ready), P, Q)
        /\ \A P, Q : Behind(ready, P, Q) => Behind(Tail(ready), P, Q)
        /\ \A Q : None(ready, Q) => None(Tail(ready), Q) /\ Head(ready) \notin Q
    BY <1>1, TakenFirst
  <1>3. Head(ready) \in Tokens(Openers)
    BY <1>2 DEF Tokens, Openers, Stages
  <1>4. Head(ready) \notin Ok("connect") /\ Head(ready) \notin Ok("read") /\ Head(ready) \notin Ok("write")
    BY <1>2 DEF Ok
  <1>5. ~(role = "server" /\ connects = 0)
    <2>1. Head(ready) \in Tokens(Transfers \cup Openers)
      BY <1>2 DEF Tokens, Openers, Stages
    <2> QED
      BY <1>2, <2>1 DEF RoleInv
  <1>6. m_bstop \in BOOLEAN /\ m_bstart \in BOOLEAN /\ m_binit \in BOOLEAN
    BY DEF TypeInv, TypeOK, SwitchTypeOK, switch
  <1>7. Starting' = Starting
    BY DEF Starting
  <1>8. CASE ~Succeeded
    <2>1. /\ ready' = Tail(ready) /\ Call(Io, <<"close">>)
          /\ UNCHANGED <<sock, pending, m_binit, m_bstart, m_bstop>>
      BY <1>1, <1>8 DEF HandleResolved, switch
    <2>2. <<"close">> \notin {<<"release">>, <<"write_cbk", "release">>, <<"read_cbk", "after_read">>,
                            <<"start">>}
      OBVIOUS
    <2>3. "resolve" \in Transfers \cup Openers
      BY DEF Openers, Stages
    <2>4. overtaken \in BOOLEAN
      BY DEF TypeInv
    <2> QED
      BY <1>1, <1>3, <1>4, <1>6, <2>1, <2>2, <2>3, <2>4, TakesKeep
  <1>9. CASE Succeeded
    <2>1. /\ pending' = Append(Unaborted, "connect") /\ ready' = Tail(ready) \o Aborted
          /\ sock' = "opening" /\ pc' = pc
      BY <1>9 DEF HandleResolved
    <2>2. pending \in Seq(Transfers \cup Stages)
      BY DEF TypeInv, TypeOK, AsioTypeOK
    <2>3. /\ Unaborted \in Seq(Transfers \cup Stages) /\ ready' \in Seq(Completion)
          /\ \A P, Q : Q \subseteq Tokens(P) /\ Neither(pending, Tail(ready), P, Q)
                         => Neither(Unaborted, ready', P, Q)
          /\ \A P, Q : Q \subseteq Tokens(P) /\ OneOf(pending, Tail(ready), P, Q)
                         => OneOf(Unaborted, ready', P, Q)
          /\ \A P, op : Behind(Tail(ready), P, Ok(op)) => Behind(ready', P, Ok(op))
          /\ \A P : "resolve" \notin P \/ None(pending, P) => None(Unaborted, P)
      BY <1>2, <2>1, <2>2, AbortKeeps
    <2>4. "connect" \in Transfers \cup Stages
      BY DEF Stages
    <2>5. /\ pending' \in Seq(Transfers \cup Stages)
          /\ \A P : None(pending', P) <=> None(Unaborted, P) /\ "connect" \notin P
      <3>1. Unaborted \in Seq(Transfers \cup Stages)
        BY <2>3
      <3>2. \A P : None(Append(Unaborted, "connect"), P) <=> None(Unaborted, P) /\ "connect" \notin P
        BY <2>4, <3>1, AppendKeeps
      <3>3. Append(Unaborted, "connect") \in Seq(Transfers \cup Stages)
        BY <2>4, <3>1
      <3> QED
        BY <2>1, <3>2, <3>3
    <2>6. /\ \A P, Q : Neither(Unaborted, ready', P, Q) => OneOf(pending', ready', P, Q)
          /\ \A P, Q : Neither(Unaborted, ready', P, Q) /\ "connect" \notin P
                         => Neither(pending', ready', P, Q)
          /\ \A P, Q : OneOf(Unaborted, ready', P, Q) /\ "connect" \notin P
                         => OneOf(pending', ready', P, Q)
      BY <2>1, <2>3, <2>4, Begun
    <2>7. TypeInv'
      BY <1>1, <2>1, <2>3, <2>5 DEF TypeInv, TypeOK, AsioTypeOK, SwitchTypeOK, switch
    <2>8. RoleInv'
      <3>1. role = "client" => None(ready', Tokens({"start"}))
        <4>1. "start" \notin Transfers \cup Stages
          BY DEF Transfers, Stages
        <4>2. None(pending, {"start"})
          BY <2>2, <4>1 DEF None
        <4>3. role = "client" => Neither(pending, Tail(ready), {"start"}, Tokens({"start"}))
          BY <1>2, <4>2 DEF RoleInv, Neither
        <4> QED
          BY <2>3, <4>3 DEF Neither
      <3> QED
        BY <1>1, <1>5, <3>1 DEF RoleInv
    <2>18. Locked' = Locked /\ SwitchInv' /\ (StopsFirst => StopsFirst')
      <3>1. Quiet
        BY <2>1 DEF Quiet, Top
      <3> QED
        BY <1>1, <3>1, QuietKeeps
    <2>9. IdleInv'
      BY <1>1, <2>3, <2>5, <2>18 DEF IdleInv, switch
    <2>10. ~overlapped => Neither(Unaborted, ready', Openers, Tokens(Openers))
      BY <1>2, <1>3, <2>3 DEF AttemptInv
    <2>19. Top(Io)' = "out"
      BY <1>2, <2>1 DEF Top
    <2>11. AttemptInv'
      <3>1. ~overlapped => OneOf(pending', ready', Openers, Tokens(Openers))
        BY <2>6, <2>10
      <3>2. CASE class = "websocket_ssl"
        <4>1. "connect" \notin Starting
          BY <3>2 DEF Starting
        <4>2. ~overlapped /\ ~late /\ m_bstart => Neither(pending, Tail(ready), Starting, Tokens(Starting))
          BY <1>2 DEF AttemptInv
        <4>3. ~overlapped /\ ~late /\ m_bstart => Neither(pending', ready', Starting, Tokens(Starting))
          BY <2>3, <2>6, <4>1, <4>2
        <4> QED
          BY <1>1, <1>7, <2>19, <3>1, <4>3 DEF AttemptInv, switch
      <3>3. CASE class # "websocket_ssl"
        <4>1. Starting = Openers
          BY <3>3 DEF Starting
        <4>2. ~overlapped /\ ~late => ~m_bstart
          BY <1>2, <1>3, <4>1 DEF AttemptInv, Neither
        <4> QED
          BY <1>1, <2>19, <3>1, <4>2 DEF AttemptInv, switch
      <3> QED
        BY <3>2, <3>3
    <2>12. ASSUME NEW op \in Transfers
           PROVE  /\ OneOf(pending, ready, {op}, Ok(op)) => OneOf(pending', ready', {op}, Ok(op))
                  /\ Neither(pending, ready, {op}, Ok(op)) => Neither(pending', ready', {op}, Ok(op))
                  /\ None(pending', {op})
      <3>1. "connect" \notin {op} /\ "resolve" \notin {op} /\ Ok(op) \subseteq Tokens({op})
        BY Apart DEF Transfers
      <3> QED
        BY <1>2, <2>3, <2>5, <2>6, <3>1
    <2>13. "read" \in Transfers /\ "write" \in Transfers
      BY DEF Transfers
    <2>14. WriteInv'
      BY <1>1, <1>2, <1>7, <2>1, <2>3, <2>12, <2>13, <2>19 DEF WriteInv, Single, switch
    <2>15. ReadInv'
      BY <1>1, <1>2, <1>7, <2>1, <2>3, <2>12, <2>13, <2>18, <2>19 DEF ReadInv, Single, switch
    <2>16. EarlyInv'
      <3>1. Neither(pending, ready, Starting, Tokens(Starting)) =>
              Neither(pending', ready', Starting, Tokens(Starting))
        <4>1. CASE class = "websocket_ssl"
          <5>1. "connect" \notin Starting
            BY <4>1 DEF Starting
          <5> QED
            BY <1>2, <2>3, <2>6, <5>1
        <4>2. CASE class # "websocket_ssl"
          <5>1. Head(ready) \in Tokens(Starting)
            BY <1>3, <4>2 DEF Starting
          <5> QED
            BY <1>2, <5>1 DEF Neither
        <4> QED
          BY <4>1, <4>2
      <3>2. \A t \in Threads : Top(t)' = Top(t)
        BY <2>1 DEF Top
      <3> QED
        BY <1>1, <1>2, <1>7, <2>18, <2>19, <3>1, <3>2 DEF EarlyInv, switch
    <2>17. OwnerInv' /\ LenInv'
      BY <1>1, <2>1 DEF OwnerInv, LenInv
    <2> QED
      BY <2>7, <2>8, <2>9, <2>11, <2>14, <2>15, <2>16, <2>17, <2>18
  <1> QED
    BY <1>8, <1>9

\* The connect timer of a TcpSession: its expiry, and the handler that closes the socket.
LEMMA TimerKeeps ==
  ASSUME SessionInv, UNCHANGED class, TimeOut \/ (class = "tcp" /\ TimedOut)
  PROVE  SessionInv'
  <1> USE DEF SessionInv, stream_vars, history, buffer
  <1>1. /\ UNCHANGED <<pc, connects, switch, stream_vars>>
        /\ Starting' = Starting /\ \A t : Top(t)' = Top(t)
    BY DEF TimeOut, TimedOut, Starting, Top
  <1>6. Locked' = Locked /\ SwitchInv' /\ (StopsFirst => StopsFirst')
    <2>1. Quiet
      BY <1>1 DEF Quiet
    <2> QED
      BY <1>1, <2>1, QuietKeeps
  <1>2. pending \in Seq(Transfers \cup Stages) /\ ready \in Seq(Completion)
    BY DEF TypeInv, TypeOK, AsioTypeOK
  <1> DEFINE c == [op |-> "overtime", ok |-> TRUE]
  <1>3. c \in Completion /\ c \notin Tokens(Openers) /\ c \notin Tokens(Starting)
        /\ c \notin Tokens({"start"}) /\ c \notin Tokens(Transfers \cup Openers)
        /\ c \notin Ok("read") /\ c \notin Ok("write")
    BY DEF Completion, Tokens, Openers, Starting, Stages, Transfers, Ok
  <1> HIDE DEF c
  <1>4. CASE TimeOut
    <2>1. ready' = Append(ready, c) /\ pending' = pending /\ sock' = sock
      BY <1>4 DEF TimeOut, c
    <2>2. /\ ready' \in Seq(Completion)
          /\ \A Q : None(ready', Q) <=> None(ready, Q) /\ c \notin Q
          /\ \A P, Q : Behind(ready, P, Q) /\ c \notin Q => Behind(ready', P, Q)
      BY <1>2, <1>3, <2>1, AppendKeeps
    <2>3. \A P, Q : c \notin Q =>
                      /\ Neither(pending, ready, P, Q) => Neither(pending', ready', P, Q)
                      /\ OneOf(pending, ready, P, Q) => OneOf(pending', ready', P, Q)
      BY <1>2, <1>3, <2>1, Added
    <2>4. TypeInv'
      BY <1>1, <2>1, <2>2 DEF TypeInv, TypeOK, AsioTypeOK, SwitchTypeOK, switch
    <2>5. RoleInv'
      BY <1>1, <1>3, <2>1, <2>2 DEF RoleInv, switch
    <2>6. IdleInv' /\ LenInv'
      BY <1>1, <1>6, <2>1 DEF IdleInv, LenInv, switch
    <2>7. AttemptInv'
      BY <1>1, <1>3, <2>3 DEF AttemptInv, switch
    <2>8. WriteInv'
      BY <1>1, <1>3, <2>2, <2>3 DEF WriteInv, Single, switch
    <2>9. ReadInv'
      BY <1>1, <1>3, <1>6, <2>1, <2>2, <2>3 DEF ReadInv, Single, switch
    <2>10. EarlyInv'
      BY <1>1, <1>3, <1>6, <2>3 DEF EarlyInv, switch
    <2>11. OwnerInv'
      BY <1>1, <1>6, <2>1, <2>2 DEF OwnerInv, switch
    <2> QED
      BY <1>6, <2>4, <2>5, <2>6, <2>7, <2>8, <2>9, <2>10, <2>11
  <1>5. CASE class = "tcp" /\ TimedOut
    <2>1. /\ Handles("overtime") /\ sock' = "closed"
          /\ ready' = Tail(ready) \o Aborted /\ pending' = Unaborted
      BY <1>5 DEF TimedOut, Abort
    <2>2. /\ pc[Io] = <<>> /\ Tail(ready) \in Seq(Completion)
          /\ \A P, Q : Neither(pending, ready, P, Q) => Neither(pending, Tail(ready), P, Q)
          /\ \A P, Q : OneOf(pending, ready, P, Q) => OneOf(pending, Tail(ready), P, Q)
          /\ \A P, Q : Behind(ready, P, Q) => Behind(Tail(ready), P, Q)
          /\ \A Q : None(ready, Q) => None(Tail(ready), Q)
      BY <2>1, TakenFirst
    <2>3. /\ pending' \in Seq(Transfers \cup Stages) /\ ready' \in Seq(Completion)
          /\ \A P, Q : Q \subseteq Tokens(P) /\ Neither(pending, Tail(ready), P, Q)
                         => Neither(pending', ready', P, Q)
          /\ \A P, Q : Q \subseteq Tokens(P) /\ OneOf(pending, Tail(ready), P, Q)
                         => OneOf(pending', ready', P, Q)
          /\ \A P, op : Behind(Tail(ready), P, Ok(op)) => Behind(ready', P, Ok(op))
          /\ \A P : "resolve" \notin P \/ None(pending, P) => None(pending', P)
      BY <1>2, <2>1, <2>2, AbortKeeps
    <2>4. /\ \A P, Q : Q \subseteq Tokens(P) /\ Neither(pending, ready, P, Q)
                         => Neither(pending', ready', P, Q)
          /\ \A P, Q : Q \subseteq Tokens(P) /\ OneOf(pending, ready, P, Q)
                         => OneOf(pending', ready', P, Q)
      BY <2>2, <2>3
    <2>5. TypeInv'
      BY <1>1, <2>1, <2>3 DEF TypeInv, TypeOK, AsioTypeOK, SwitchTypeOK, switch
    <2>6. RoleInv'
      <3>1. None(pending, {"start"})
        BY <1>2 DEF None, Transfers, Stages
      <3>2. role = "client" => None(ready', Tokens({"start"}))
        BY <2>4, <3>1 DEF RoleInv, Neither
      <3>3. CASE role = "server" /\ connects = 0
        <4>1. /\ pending = <<>> /\ None(ready, Tokens(Transfers \cup Openers))
              /\ ~m_binit /\ ~m_bstart /\ ~m_sessions /\ \A t \in Threads : pc[t] = <<>>
          BY <3>3 DEF RoleInv
        <4>2. None(pending, Transfers \cup Openers) /\ None(pending, Transfers \cup Stages)
          BY <4>1, Short
        <4>3. None(ready', Tokens(Transfers \cup Openers)) /\ None(pending', Transfers \cup Stages)
          BY <2>3, <2>4, <4>1, <4>2 DEF Neither
        <4>4. pending' = <<>>
          BY <2>3, <4>3 DEF None
        <4> QED
          BY <1>1, <3>2, <3>3, <4>1, <4>3, <4>4 DEF RoleInv, switch
      <3> QED
        BY <1>1, <3>2, <3>3 DEF RoleInv
    <2>7. IdleInv'
      BY <1>1, <1>6, <2>3 DEF IdleInv, switch
    <2>8. AttemptInv'
      BY <1>1, <2>4 DEF AttemptInv, switch
    <2>9. Ok("read") \subseteq Tokens({"read"}) /\ Ok("write") \subseteq Tokens({"write"})
      BY Apart
    <2>14. Top(Io)' = "out"
      BY <1>1, <2>2 DEF Top
    <2>10. WriteInv'
      BY <1>1, <2>2, <2>3, <2>4, <2>9, <2>14 DEF WriteInv, Single, switch
    <2>11. ReadInv'
      BY <1>1, <1>6, <2>2, <2>3, <2>4, <2>9, <2>14 DEF ReadInv, Single, switch
    <2>12. EarlyInv'
      BY <1>1, <1>6, <2>4 DEF EarlyInv, switch
    <2>13. OwnerInv' /\ LenInv'
      BY <1>1, <2>1 DEF OwnerInv, LenInv
    <2> QED
      BY <1>6, <2>5, <2>6, <2>7, <2>8, <2>10, <2>11, <2>12, <2>13
  <1> QED
    BY <1>4, <1>5

\* A call of connect.
LEMMA ConnectsKeep ==
  ASSUME SessionInv, UNCHANGED class, Connects
  PROVE  SessionInv'
  <1> USE DEF SessionInv, buffer
  <1>1. PICK t \in Threads : \/ class = "tcp" /\ ConnectsTcp(t)
                             \/ class = "websocket" /\ ConnectsWs(t)
                             \/ class = "websocket_ssl" /\ ConnectsWss(t)
    BY DEF Connects
  <1>2. /\ MayConnect(t) /\ UNCHANGED <<ready, pc, buffer, pieces, late, role, m_sessions>>
        /\ role = "client" /\ connects < MaxConnects /\ connects' = connects + 1
        /\ (t # Io /\ pc[t] = <<>>) \/ Top(t) = "close_cbk"
        /\ overtaken' = (overtaken \/ \E s \in Threads \ {t} : pc[s] # <<>>)
        /\ overlapped' = (overlapped \/ Opening)
    BY <1>1 DEF ConnectsTcp, ConnectsWs, ConnectsWss, MayConnect, Occupied
  <1>3. PICK op \in {"connect", "resolve"} :
          /\ pending' = Append(pending, op)
          /\ class = "tcp" => op = "connect" /\ sock' = "opening"
          /\ class # "tcp" => op = "resolve" /\ sock' = sock
    BY <1>1 DEF ConnectsTcp, ConnectsWs, ConnectsWss
  <1>4. /\ class # "websocket_ssl" => ~m_binit /\ m_binit' = TRUE /\ UNCHANGED <<m_bstart, m_bstop>>
        /\ class = "websocket_ssl" => UNCHANGED switch
    BY <1>1 DEF ConnectsTcp, ConnectsWs, ConnectsWss, init
  <1>5. /\ m_binit \in BOOLEAN /\ m_bstart \in BOOLEAN /\ m_bstop \in BOOLEAN /\ connects \in Nat
        /\ pending \in Seq(Transfers \cup Stages) /\ ready \in Seq(Completion)
        /\ overtaken \in BOOLEAN /\ overlapped \in BOOLEAN /\ connects \in 0 .. MaxConnects
        /\ sock \in {"closed", "opening", "open"} /\ class \in {"tcp", "websocket", "websocket_ssl"}
    BY ClassesAssumption DEF TypeInv, TypeOK, AsioTypeOK, SwitchTypeOK, switch
  <1>6. UNCHANGED <<m_bstart, m_bstop>> /\ m_binit' \in BOOLEAN /\ (m_binit => m_binit')
    <2>1. CASE class = "websocket_ssl"
      BY <1>4, <1>5, <2>1 DEF switch
    <2>2. CASE class # "websocket_ssl"
      BY <1>4, <2>2
    <2> QED
      BY <2>1, <2>2
  <1>7. op \in Transfers \cup Stages /\ op \in Openers /\ op \notin Transfers
    BY DEF Stages, Openers, Transfers
  <1>8. /\ pending' \in Seq(Transfers \cup Stages)
        /\ \A P : None(pending', P) <=> None(pending, P) /\ op \notin P
    <2>1. \A P : None(Append(pending, op), P) <=> None(pending, P) /\ op \notin P
      BY <1>5, <1>7, AppendKeeps
    <2> QED
      BY <1>3, <1>5, <1>7, <2>1
  <1>9. /\ \A P, Q : Neither(pending, ready, P, Q) => OneOf(pending', ready', P, Q)
        /\ \A P, Q : op \notin P =>
             /\ Neither(pending, ready, P, Q) => Neither(pending', ready', P, Q)
             /\ OneOf(pending, ready, P, Q) => OneOf(pending', ready', P, Q)
    BY <1>2, <1>3, <1>5, <1>7, Begun
  <1>10. /\ ~overlapped' => ~overlapped /\ Neither(pending, ready, Openers, Tokens(Openers))
         /\ ~overtaken' => ~overtaken /\ \A s \in Threads : s # t => pc[s] = <<>>
    <2>1. ~overtaken' => ~overtaken /\ \A s \in Threads : s # t => pc[s] = <<>>
      BY <1>2, <1>5
    <2>2. ~overlapped' => ~overlapped /\ ~Opening
      BY <1>2, <1>5
    <2>3. ASSUME ~Opening PROVE Neither(pending, ready, Openers, Tokens(Openers))
      <3>1. None(pending, Openers)
        <4>1. \A i \in DOMAIN pending : pending[i] # "start"
          BY <1>5 DEF Transfers, Stages
        <4> QED
          BY <2>3, <4>1 DEF Opening, None, Openers
      <3>2. None(ready, Tokens(Openers))
        <4>1. \A i \in DOMAIN ready : ready[i].op \notin Stages
          BY <2>3 DEF Opening
        <4>2. None(ready, Tokens({"start"}))
          BY <1>2 DEF RoleInv
        <4>3. ASSUME NEW i \in DOMAIN ready, ready[i] \in Tokens(Openers) PROVE FALSE
          <5>1. ready[i].op = "start" /\ ready[i] \in Tokens({"start"})
            BY <4>1, <4>3 DEF Tokens, Openers
          <5> QED
            BY <4>2, <5>1 DEF None
        <4> QED
          BY <4>3 DEF None
      <3> QED
        BY <3>1, <3>2 DEF Neither
    <2> QED
      BY <2>1, <2>2, <2>3
  <1>11. /\ \A s \in Threads : Top(s)' = Top(s)
         /\ ~overtaken' => \A s \in Threads : Top(s) \in {"out", "close_cbk"}
         /\ Locked' = Locked
    <2>1. \A s \in Threads : Top(s)' = Top(s)
      BY <1>2 DEF Top
    <2> QED
      BY <1>2, <1>10, <2>1 DEF Top, Locked
  <1>23. Io \in Threads
    BY DEF Threads
  <1>12. Starting' = Starting
    BY DEF Starting
  <1>13. TypeInv'
    <2>1. connects' \in 0 .. MaxConnects
      BY <1>2, <1>5, AsioAssumption
    <2>2. overtaken' \in BOOLEAN /\ overlapped' \in BOOLEAN
      BY <1>2, <1>5
    <2>3. sock' \in {"closed", "opening", "open"}
      BY <1>3, <1>5
    <2> QED
      BY <1>2, <1>6, <1>8, <2>1, <2>2, <2>3 DEF TypeInv, TypeOK, AsioTypeOK, SwitchTypeOK, switch
  <1>14. RoleInv' /\ LenInv'
    BY <1>2 DEF RoleInv, LenInv
  <1>15. IdleInv'
    BY <1>2, <1>6, <1>7, <1>8, <1>11 DEF IdleInv, Transfers
  <1>24. SwitchInv'
    BY <1>2, <1>6, <1>11 DEF SwitchInv
  <1>16. \A S : S \subseteq Openers /\ Neither(pending, ready, Openers, Tokens(Openers))
                  => Neither(pending, ready, S, Tokens(S))
    BY DEF Neither, None, Tokens
  <1>17. AttemptInv'
    <2>1. ~overlapped' => OneOf(pending', ready', Openers, Tokens(Openers))
      BY <1>9, <1>10
    <2>2. ASSUME ~overlapped', ~late, m_bstart \/ Top(Io) = "start"
          PROVE  Neither(pending', ready', Starting, Tokens(Starting))
      <3>1. class = "websocket_ssl"
        BY <1>4, <1>10, <2>2 DEF SwitchInv, AttemptInv
      <3>2. op \notin Starting
        BY <1>3, <3>1 DEF Starting
      <3> QED
        BY <1>9, <1>10, <1>16, <2>2, <3>2, Apart
    <2> QED
      BY <1>2, <1>6, <1>10, <1>11, <1>12, <1>23, <2>1, <2>2 DEF AttemptInv
  <1>18. op \notin {"read"} /\ op \notin {"write"}
    OBVIOUS
  <1>19. WriteInv'
    BY <1>2, <1>6, <1>9, <1>10, <1>11, <1>12, <1>18, <1>23 DEF WriteInv, Single
  <1>20. ReadInv'
    BY <1>2, <1>6, <1>8, <1>9, <1>10, <1>11, <1>12, <1>18, <1>23 DEF ReadInv, Single
  <1>21. EarlyInv'
    <2> SUFFICES ASSUME ~overlapped', ~overtaken' PROVE EarlyInv'
      BY DEF EarlyInv
    <2>1. ~late' /\ StopsFirst'
      BY <1>2, <1>6, <1>10, <1>11 DEF EarlyInv, StopsFirst, Threads
    <2>2. \A s \in Threads : Top(s) \notin Inside /\ Top(s) # "start"
      BY <1>11 DEF Inside, Resets
    <2>3. CASE class = "websocket_ssl"
      <3>1. op \notin Starting
        BY <1>3, <2>3 DEF Starting
      <3>2. Neither(pending', ready', Starting, Tokens(Starting))
        BY <1>9, <1>10, <1>16, <3>1, Apart
      <3> QED
        BY <1>11, <1>12, <1>23, <2>1, <2>2, <3>2 DEF EarlyInv
    <2>4. CASE class # "websocket_ssl"
      <3>1. ~m_binit /\ m_binit' = TRUE /\ m_bstart' = m_bstart
        BY <1>4, <2>4
      <3>2. ~m_bstart
        BY <1>2, <2>1, <3>1 DEF SwitchInv
      <3> QED
        BY <1>11, <2>1, <2>2, <3>1, <3>2 DEF EarlyInv
    <2> QED
      BY <2>3, <2>4
  <1>22. OwnerInv'
    <2>1. ~overtaken' => ~Locked'
      BY <1>11 DEF Locked, Resets
    <2>2. class # "tcp" => sock' = sock
      BY <1>3
    <2> QED
      BY <1>2, <1>3, <1>4, <1>6, <1>10, <2>1, <2>2 DEF OwnerInv
  <1> QED
    BY <1>13, <1>14, <1>15, <1>17, <1>19, <1>20, <1>21, <1>22, <1>24

\* A server accepts the session: start is dispatched, or the first stage begins.
LEMMA AcceptsKeep ==
  ASSUME SessionInv, UNCHANGED class,
         \/ class = "tcp" /\ AcceptsTcp
         \/ \E op \in Starting \ {"start"} : Accepts(op)
  PROVE  SessionInv'
  <1> USE DEF SessionInv, buffer, history
  <1>1. /\ role = "server" /\ connects = 0 /\ connects' = 1 /\ m_sessions' = TRUE
        /\ UNCHANGED <<sock, pc, buffer, pieces, history, role>>
    BY DEF AcceptsTcp, Accepts, Accepted
  <1>2. /\ ~m_binit /\ ~m_bstart /\ ~m_sessions /\ pending = <<>> /\ ~overlapped
        /\ None(ready, Tokens(Transfers \cup Openers)) /\ \A t \in Threads : pc[t] = <<>>
    BY <1>1 DEF RoleInv
  <1>3. /\ ready \in Seq(Completion) /\ m_bstart \in BOOLEAN /\ m_bstop \in BOOLEAN /\ m_binit \in BOOLEAN
        /\ Io \in Threads
    BY DEF TypeInv, TypeOK, AsioTypeOK, SwitchTypeOK, switch, Threads
  <1>4. Starting' = Starting
    BY DEF Starting
  <1>5. \A S : S \subseteq Transfers \cup Openers => Neither(pending, ready, S, Tokens(S))
    BY <1>2, Short DEF Neither, None, Tokens
  <1>6. Neither(pending, ready, Openers, Tokens(Openers))
    BY <1>5
  <1>7. /\ UNCHANGED <<m_bstart, m_bstop>> /\ m_binit' \in BOOLEAN
        /\ pending' \in Seq(Transfers \cup Stages) /\ ready' \in Seq(Completion)
        /\ OneOf(pending', ready', Openers, Tokens(Openers))
        /\ None(pending', {"read"}) /\ None(pending', {"write"})
        /\ None(ready', Ok("read")) /\ None(ready', Ok("write"))
    <2>1. None(ready, Ok("read")) /\ None(ready, Ok("write"))
      <3>1. \A o \in Transfers : None(ready, Tokens({o})) /\ Ok(o) \subseteq Tokens({o})
        BY <1>5, Apart DEF Neither
      <3>2. \A o \in Transfers : None(ready, Ok(o))
        BY <3>1 DEF None
      <3> QED
        BY <3>2 DEF Transfers
    <2>2. CASE AcceptsTcp
      <3> DEFINE c == [op |-> "start", ok |-> TRUE]
      <3>1. ready' = Append(ready, c) /\ UNCHANGED <<pending, switch>>
        BY <2>2 DEF AcceptsTcp
      <3>2. c \in Completion /\ c \notin Ok("read") /\ c \notin Ok("write")
        BY DEF Completion, Ok
      <3> HIDE DEF c
      <3>3. \A Q : None(Append(ready, c), Q) <=> None(ready, Q) /\ c \notin Q
        BY <1>3, <3>2, AppendKeeps
      <3>4. OneOf(pending, Append(ready, c), Openers, Tokens(Openers))
        BY <1>3, <1>6, <3>2, Added
      <3>5. <<>> \in Seq(Transfers \cup Stages) /\ Append(ready, c) \in Seq(Completion)
        BY <1>3, <3>2
      <3> QED
        BY <1>2, <1>3, <2>1, <3>1, <3>2, <3>3, <3>4, <3>5, Short DEF switch
    <2>3. CASE \E op \in Starting \ {"start"} : Accepts(op)
      <3>1. PICK op \in Starting \ {"start"} : Accepts(op)
        BY <2>3
      <3>2. ready' = ready /\ pending' = Append(<<>>, op) /\ init
        BY <1>2, <3>1 DEF Accepts
      <3>3. op \in Stages /\ op \notin {"read"} /\ op \notin {"write"}
        BY DEF Starting, Openers, Stages
      <3>4. pending' = <<op>>
        BY <3>2
      <3>5. OneOf(Append(pending, op), ready, Openers, Tokens(Openers))
        <4>1. pending \in Seq(Stages)
          BY <1>2
        <4> QED
          BY <1>6, <3>3, <4>1, Begun
      <3>6. <<op>> \in Seq(Transfers \cup Stages)
        BY <3>3
      <3> QED
        BY <1>2, <1>3, <2>1, <3>2, <3>3, <3>4, <3>5, <3>6, Short DEF init
    <2> QED
      BY <2>2, <2>3
  <1>8. TypeInv'
    <2>1. connects' \in 0 .. MaxConnects
      BY <1>1, AsioAssumption
    <2> QED
      BY <1>1, <1>7, <2>1 DEF TypeInv, TypeOK, AsioTypeOK, SwitchTypeOK, switch
  <1>9. RoleInv' /\ LenInv'
    BY <1>1, <1>2 DEF RoleInv, LenInv
  <1>16. \A s \in Threads : Top(s) = "out" /\ Top(s)' = Top(s)
    BY <1>1, <1>2 DEF Top
  <1>17. ~Locked /\ ~Locked' /\ ~m_bstop
    BY <1>16 DEF Locked, Resets, SwitchInv
  <1>10. IdleInv'
    BY <1>1, <1>2, <1>7, <1>17 DEF IdleInv
  <1>18. SwitchInv'
    BY <1>2, <1>7, <1>16, <1>17 DEF SwitchInv
  <1>11. AttemptInv'
    BY <1>2, <1>3, <1>7, <1>16 DEF AttemptInv
  <1>12. \A P : Behind(ready', P, Ok("read")) /\ Behind(ready', P, Ok("write"))
    BY <1>7 DEF Behind, None
  <1>13. WriteInv'
    BY <1>1, <1>2, <1>7, <1>12 DEF WriteInv
  <1>14. ReadInv'
    <2>1. Top(Io)' # "read"
      BY <1>3, <1>16
    <2> QED
      BY <1>1, <1>2, <1>7, <1>12, <2>1 DEF ReadInv
  <1>15. EarlyInv' /\ OwnerInv'
    <2>1. ~overlapped /\ ~overtaken => ~late
      BY DEF EarlyInv
    <2>2. StopsFirst'
      BY <1>2, <1>7 DEF StopsFirst
    <2>3. \A s \in Threads : Top(s)' \notin Inside
      BY <1>16 DEF Inside, Resets
    <2> QED
      BY <1>1, <1>2, <1>7, <2>1, <2>2, <2>3 DEF EarlyInv, OwnerInv
  <1> QED
    BY <1>8, <1>9, <1>10, <1>11, <1>13, <1>14, <1>15, <1>18

\* The network settles something, or data or an end of the stream arrives.
LEMMA EnvironmentKeeps ==
  ASSUME SessionInv, UNCHANGED class, Environment
  PROVE  SessionInv'
  <1> USE DEF SessionInv, buffer, history, stream_vars
  <1>1. PICK i \in DOMAIN pending, ok \in BOOLEAN : Completes(i, ok)
    BY DEF Environment, Settles, Arrives
  <1> DEFINE op == pending[i]
             c == [op |-> op, ok |-> ok]
  <1>2. /\ pending' = RemoveAt(pending, i) /\ ready' = Append(ready, c)
        /\ sock' = (IF ok /\ op = "connect" THEN "open" ELSE sock)
        /\ UNCHANGED <<pc, connects, switch, stream_vars>>
    BY <1>1 DEF Completes, Environment
  <1>3. /\ pending \in Seq(Transfers \cup Stages) /\ ready \in Seq(Completion)
        /\ sock \in {"closed", "opening", "open"}
    BY DEF TypeInv, TypeOK, AsioTypeOK
  <1>4. op \in Transfers \cup Stages
    BY <1>3
  <1>5. /\ c \in Completion /\ (\A S : c \in Tokens(S) => op \in S) /\ (\A o : c \in Ok(o) => op = o)
        /\ op # "start" /\ (op = "connect" /\ ok => c \in Ok("connect"))
    BY <1>4 DEF Completion, Tokens, Ok, Transfers, Stages
  <1>6. \A P : op \in P => ~None(pending, P)
    BY DEF None
  <1> HIDE DEF op, c
  <1>7. /\ pending' \in Seq(Transfers \cup Stages) /\ \A P : None(pending, P) => None(pending', P)
    BY <1>2, <1>3, RemoveAtKeeps
  <1>8. /\ ready' \in Seq(Completion)
        /\ \A Q : None(ready', Q) <=> None(ready, Q) /\ c \notin Q
        /\ \A P, Q : Behind(ready, P, Q) /\ (c \notin Q \/ None(ready, P)) => Behind(ready', P, Q)
    <2>1. /\ \A Q : None(Append(ready, c), Q) <=> None(ready, Q) /\ c \notin Q
          /\ \A P, Q : Behind(ready, P, Q) /\ (c \notin Q \/ None(ready, P))
                         => Behind(Append(ready, c), P, Q)
      BY <1>3, <1>5, AppendKeeps
    <2>2. Append(ready, c) \in Seq(Completion)
      BY <1>3, <1>5
    <2> QED
      BY <1>2, <2>1, <2>2
  <1>9. /\ \A P, Q : Neither(pending, ready, P, Q) /\ (c \in Q => op \in P)
                       => Neither(pending', ready', P, Q)
        /\ \A P, Q : OneOf(pending, ready, P, Q) /\ (c \in Q => op \in P)
                       => OneOf(pending', ready', P, Q)
    <2>1. /\ \A P, Q : Neither(pending, ready, P, Q) /\ (c \in Q => pending[i] \in P)
                         => Neither(RemoveAt(pending, i), Append(ready, c), P, Q)
          /\ \A P, Q : OneOf(pending, ready, P, Q) /\ (c \in Q => pending[i] \in P)
                         => OneOf(RemoveAt(pending, i), Append(ready, c), P, Q)
      BY <1>3, <1>5, Moved
    <2> QED
      BY <1>2, <2>1 DEF op
  <1>10. ~(role = "server" /\ connects = 0)
    BY <1>3 DEF RoleInv
  <1>11. Starting' = Starting /\ \A t : Top(t)' = Top(t)
    BY <1>2 DEF Starting, Top
  <1>12. TypeInv'
    <2>1. sock' \in {"closed", "opening", "open"}
      BY <1>2, <1>3
    <2> QED
      BY <1>2, <1>7, <1>8, <2>1 DEF TypeInv, TypeOK, AsioTypeOK, SwitchTypeOK, switch
  <1>13. RoleInv' /\ LenInv'
    BY <1>2, <1>5, <1>8, <1>10 DEF RoleInv, LenInv
  <1>14. Locked' = Locked /\ SwitchInv' /\ (StopsFirst => StopsFirst')
    <2>1. Quiet
      BY <1>11 DEF Quiet
    <2> QED
      BY <1>2, <2>1, QuietKeeps
  <1>15. IdleInv'
    BY <1>2, <1>7, <1>14 DEF IdleInv, switch
  <1>16. AttemptInv'
    BY <1>2, <1>5, <1>9, <1>11 DEF AttemptInv, switch
  <1>17. WriteInv'
    <2> SUFFICES ASSUME ~overlapped, ~late PROVE WriteInv'
      BY <1>2 DEF WriteInv
    <2>1. c \in Ok("write") => m_bstart /\ None(ready, Tokens(Starting)) /\ Top(Io) # "start"
      <3>1. c \in Ok("write") => ~None(pending, {"write"})
        BY <1>5, <1>6
      <3> QED
        BY <3>1 DEF IdleInv, AttemptInv, Neither
    <2>2. Behind(ready', Tokens(Starting), Ok("write"))
      BY <1>8, <2>1 DEF WriteInv
    <2>3. Top(Io) = "start" => None(ready', Ok("write"))
      BY <1>8, <2>1 DEF WriteInv
    <2>4. c \in Ok("write") => op \in {"write"}
      BY <1>5
    <2> QED
      BY <1>2, <1>9, <1>11, <2>2, <2>3, <2>4 DEF WriteInv, Single, switch
  <1>18. ReadInv'
    <2> SUFFICES ASSUME ~overlapped, ~overtaken PROVE ReadInv'
      BY <1>2 DEF ReadInv
    <2>1. c \in Ok("read") => m_bstart /\ None(ready, Tokens(Starting)) /\ Top(Io) # "start"
      <3>1. c \in Ok("read") => ~None(pending, {"read"})
        BY <1>5, <1>6
      <3> QED
        BY <3>1 DEF ReadInv, EarlyInv, AttemptInv, Neither
    <2>2. Behind(ready', Tokens(Starting), Ok("read"))
      BY <1>8, <2>1 DEF ReadInv
    <2>3. Top(Io) = "start" => None(ready', Ok("read"))
      BY <1>8, <2>1 DEF ReadInv
    <2>4. c \in Ok("read") => op \in {"read"}
      BY <1>5
    <2>5. sock # "open" /\ None(pending, {"connect"}) => sock' # "open" /\ None(pending', {"connect"})
      BY <1>2, <1>6, <1>7
    <2> QED
      BY <1>2, <1>7, <1>9, <1>11, <1>14, <2>2, <2>3, <2>4, <2>5 DEF ReadInv, Single, switch
  <1>19. EarlyInv'
    BY <1>2, <1>5, <1>9, <1>11, <1>14 DEF EarlyInv, switch
  <1>20. OwnerInv'
    <2> SUFFICES ASSUME ~overlapped, ~overtaken, role = "client", sock' = "open"
                 PROVE  \/ m_binit /\ ~Locked
                        \/ class = "websocket_ssl" /\ ~None(ready', Ok("connect"))
      BY <1>2, <1>14 DEF OwnerInv, switch
    <2>1. CASE sock = "open"
      BY <1>8, <2>1 DEF OwnerInv
    <2>2. CASE sock # "open"
      <3>1. ok /\ op = "connect"
        BY <1>2, <2>2
      <3>2. CASE class = "websocket_ssl"
        BY <1>5, <1>8, <3>1, <3>2
      <3>3. CASE class # "websocket_ssl"
        <4>1. op \in Starting
          BY <3>1, <3>3 DEF Starting, Openers, Stages
        <4> QED
          BY <1>6, <4>1 DEF EarlyInv, Neither, Locked, Inside
      <3> QED
        BY <3>2, <3>3
    <2> QED
      BY <2>1, <2>2
  <1> QED
    BY <1>12, <1>13, <1>14, <1>15, <1>16, <1>17, <1>18, <1>19, <1>20

\* A thread inside close goes on.
LEMMA ClosingKeeps ==
  ASSUME TypeInv, RoleInv, NEW t \in Threads, Top(t) \in {"close"} \cup Resets,
         NEW places \in {<<"reset_start">>, <<"reset_stop">>, <<"reset_init">>, <<"close_cbk">>,
                         <<"remove_session", "close_cbk">>},
         Goto(t, places)
  PROVE  /\ DOMAIN pc' = Threads /\ \A s \in Threads : StackOK(pc'[s], s)
         /\ \A s \in Threads : s # t => Top(s)' = Top(s)
         /\ Top(t)' = Head(places)
         /\ \A r \in {"read", "start"} : Top(Io)' = r <=> Top(Io) = r
         /\ \A P \in {{"release"}, {"read", "after_read"}} : None(pc'[Io], P) <=> None(pc[Io], P)
         /\ ~(role = "server" /\ connects = 0)
  <1>1. pc[t] # <<>> /\ Top(t) = Head(pc[t]) /\ StackOK(pc[t], t) /\ Io \in Threads
    BY DEF Top, Resets, TypeInv, Threads
  <1>2. /\ places # <<>> /\ places # <<"read">>
        /\ Head(places) \in {"reset_start", "reset_stop", "reset_init", "close_cbk", "remove_session"}
    OBVIOUS
  <1>3. /\ DOMAIN pc' = Threads /\ \A s \in Threads : StackOK(pc'[s], s)
        /\ \A s \in Threads : s # t => pc'[s] = pc[s] /\ Top(s)' = Top(s)
        /\ \A P : None(pc'[t], P) <=> None(places, P) /\ None(Tail(pc[t]), P)
        /\ Top(t)' \in {Head(places)}
    BY <1>1, <1>2, GotoKeeps
  <1>4. \A r \in {"read", "start"} : Top(Io)' = r <=> Top(Io) = r
    BY <1>1, <1>2, <1>3 DEF Resets
  <1>5. ASSUME NEW P \in {{"release"}, {"read", "after_read"}} PROVE None(pc'[Io], P) <=> None(pc[Io], P)
    <2>1. CASE t = Io
      <3>1. Head(pc[Io]) \notin P
        BY <1>1, <1>5, <2>1 DEF Resets
      <3>2. None(Tail(pc[Io]), P) <=> None(pc[Io], P)
        BY <1>1, <2>1, <3>1, Below
      <3>3. None(places, P)
        BY <1>5, Short
      <3> QED
        BY <1>3, <2>1, <3>2, <3>3
    <2>2. CASE t # Io
      BY <1>1, <1>3, <2>2
    <2> QED
      BY <2>1, <2>2
  <1> QED
    BY <1>1, <1>3, <1>4, <1>5 DEF RoleInv

\* close() has m_write_mtx and closes the socket.
LEMMA CloseKeeps ==
  ASSUME SessionInv, UNCHANGED class, NEW t \in Threads, Close(t)
  PROVE  SessionInv'
  <1> USE DEF SessionInv, switch, stream_vars, buffer, history
  <1>1. /\ Top(t) = "close" /\ ~Locked /\ Goto(t, <<"reset_start">>)
        /\ sock' = IF m_binit THEN "closed" ELSE sock
        /\ ready' = ready \o Aborted /\ pending' = Unaborted
        /\ UNCHANGED <<connects, switch, stream_vars>>
    BY DEF Close, Abort, has_init
  <1>2. /\ pending \in Seq(Transfers \cup Stages) /\ ready \in Seq(Completion) /\ Io \in Threads
        /\ m_binit \in BOOLEAN
    BY DEF TypeInv, TypeOK, AsioTypeOK, SwitchTypeOK, Threads
  <1>3. /\ DOMAIN pc' = Threads /\ \A s \in Threads : StackOK(pc'[s], s)
        /\ \A s \in Threads : s # t => Top(s)' = Top(s)
        /\ Top(t)' = "reset_start"
        /\ \A r \in {"read", "start"} : Top(Io)' = r <=> Top(Io) = r
        /\ \A P \in {{"release"}, {"read", "after_read"}} : None(pc'[Io], P) <=> None(pc[Io], P)
        /\ ~(role = "server" /\ connects = 0)
    BY <1>1, ClosingKeeps
  <1>4. /\ pending' \in Seq(Transfers \cup Stages) /\ ready' \in Seq(Completion)
        /\ \A P, Q : Q \subseteq Tokens(P) /\ Neither(pending, ready, P, Q)
                       => Neither(pending', ready', P, Q)
        /\ \A P, Q : Q \subseteq Tokens(P) /\ OneOf(pending, ready, P, Q)
                       => OneOf(pending', ready', P, Q)
        /\ \A op : None(ready', Ok(op)) <=> None(ready, Ok(op))
        /\ \A P, op : Behind(ready, P, Ok(op)) => Behind(ready', P, Ok(op))
        /\ \A P : "resolve" \notin P => None(pending', P)
    BY <1>1, <1>2, AbortKeeps
  <1>5. Starting' = Starting /\ Locked' /\ \A o : Ok(o) \subseteq Tokens({o})
    BY <1>3, Apart DEF Starting, Locked, Resets
  <1>6. /\ None(pending', {"write"}) /\ None(pending', {"read"}) /\ None(pending', {"connect"})
    BY <1>4
  <1>7. TypeInv'
    BY <1>1, <1>3, <1>4 DEF TypeInv, TypeOK, AsioTypeOK, SwitchTypeOK
  <1>8. RoleInv' /\ LenInv'
    <2>1. None(pending, {"start"})
      BY <1>2 DEF None, Transfers, Stages
    <2>2. role = "client" => None(ready', Tokens({"start"}))
      BY <1>4, <2>1 DEF RoleInv, Neither
    <2> QED
      BY <1>1, <1>3, <2>2 DEF RoleInv, LenInv
  <1>9. SwitchInv'
    BY <1>1, <1>3 DEF SwitchInv
  <1>10. IdleInv'
    BY <1>5, <1>6 DEF IdleInv
  <1>11. AttemptInv'
    BY <1>1, <1>3, <1>4, <1>5 DEF AttemptInv
  <1>12. WriteInv'
    BY <1>1, <1>3, <1>4, <1>5 DEF WriteInv, Single
  <1>13. ReadInv'
    <2> SUFFICES ASSUME ~overlapped, ~overtaken PROVE ReadInv'
      BY <1>1 DEF ReadInv
    <2>1. Top(Io) = "read" => sock' # "open"
      BY <1>1, <1>2 DEF ReadInv, EarlyInv, SwitchInv
    <2> QED
      BY <1>1, <1>3, <1>4, <1>5, <1>6, <2>1 DEF ReadInv, Single
  <1>14. EarlyInv'
    <2> SUFFICES ASSUME ~overlapped, ~overtaken PROVE EarlyInv'
      BY <1>1 DEF EarlyInv
    <2>1. ~late /\ StopsFirst /\ Neither(pending, ready, Starting, Tokens(Starting)) /\ Top(Io) # "start"
      BY <1>1 DEF EarlyInv, Inside
    <2>2. StopsFirst'
      BY <1>1, <1>3, <2>1 DEF StopsFirst, Threads
    <2> QED
      BY <1>1, <1>3, <1>4, <1>5, <2>1, <2>2 DEF EarlyInv
  <1>15. OwnerInv'
    BY <1>1, <1>4 DEF OwnerInv
  <1> QED
    BY <1>7, <1>8, <1>9, <1>10, <1>11, <1>12, <1>13, <1>14, <1>15

\* reset() stores m_bstart, then m_bstop.
LEMMA ResetsKeep ==
  ASSUME SessionInv, UNCHANGED class, NEW t \in Threads, ResetStart(t) \/ ResetStop(t)
  PROVE  SessionInv'
  <1> USE DEF SessionInv, switch, stream_vars, buffer, history
  <1>1. /\ UNCHANGED <<sock, pending, ready, connects, stream_vars, m_binit>>
        /\ \/ Top(t) = "reset_start" /\ Goto(t, <<"reset_stop">>) /\ m_bstart' = FALSE /\ m_bstop' = m_bstop
           \/ Top(t) = "reset_stop" /\ Goto(t, <<"reset_init">>) /\ m_bstop' = FALSE /\ m_bstart' = m_bstart
    BY DEF ResetStart, ResetStop, StoreStart, StoreStop
  <1>2. Io \in Threads /\ m_bstart \in BOOLEAN /\ m_bstop \in BOOLEAN
    BY DEF Threads, TypeInv, TypeOK, SwitchTypeOK
  <1>3. /\ DOMAIN pc' = Threads /\ \A s \in Threads : StackOK(pc'[s], s)
        /\ \A s \in Threads : s # t => Top(s)' = Top(s)
        /\ Top(t) = "reset_start" => Top(t)' = "reset_stop"
        /\ Top(t) = "reset_stop" => Top(t)' = "reset_init"
        /\ \A r \in {"read", "start"} : Top(Io)' = r <=> Top(Io) = r
        /\ \A P \in {{"release"}, {"read", "after_read"}} : None(pc'[Io], P) <=> None(pc[Io], P)
        /\ ~(role = "server" /\ connects = 0)
    <2>1. PICK places \in {<<"reset_stop">>, <<"reset_init">>} :
            /\ Goto(t, places)
            /\ Top(t) = "reset_start" => places = <<"reset_stop">>
            /\ Top(t) = "reset_stop" => places = <<"reset_init">>
      BY <1>1
    <2>2. Top(t) \in {"close"} \cup Resets
      BY <1>1 DEF Resets
    <2>3. /\ DOMAIN pc' = Threads /\ \A s \in Threads : StackOK(pc'[s], s)
          /\ \A s \in Threads : s # t => Top(s)' = Top(s)
          /\ Top(t)' = Head(places)
          /\ \A r \in {"read", "start"} : Top(Io)' = r <=> Top(Io) = r
          /\ \A P \in {{"release"}, {"read", "after_read"}} : None(pc'[Io], P) <=> None(pc[Io], P)
          /\ ~(role = "server" /\ connects = 0)
      BY <2>1, <2>2, ClosingKeeps
    <2> QED
      BY <2>1, <2>3
  <1>4. Starting' = Starting /\ Locked' /\ Locked
    BY <1>1, <1>3 DEF Starting, Locked, Resets
  <1>5. TypeInv' /\ RoleInv' /\ LenInv' /\ IdleInv'
    <2>1. m_bstart' \in BOOLEAN /\ m_bstop' \in BOOLEAN
      BY <1>1, <1>2
    <2> QED
      BY <1>1, <1>3, <1>4, <2>1 DEF TypeInv, TypeOK, AsioTypeOK, SwitchTypeOK, RoleInv, LenInv, IdleInv
  <1>6. m_bstart' => m_bstart
    BY <1>1, <1>2
  <1>7. SwitchInv'
    <2>1. CASE Top(t) = "reset_start"
      <3>1. m_bstart' = FALSE /\ m_bstop' = m_bstop
        BY <1>1, <2>1
      <3> QED
        BY <1>1, <1>3, <2>1, <3>1 DEF SwitchInv
    <2>2. CASE Top(t) = "reset_stop"
      <3>1. m_bstart' = m_bstart /\ m_bstop' = FALSE
        BY <1>1, <2>2
      <3> QED
        BY <1>1, <1>3, <2>2, <3>1 DEF SwitchInv
    <2> QED
      BY <1>1, <2>1, <2>2
  <1>8. AttemptInv'
    BY <1>1, <1>2, <1>3, <1>4, <1>6 DEF AttemptInv
  <1>9. WriteInv'
    BY <1>1, <1>3, <1>4, <1>6 DEF WriteInv, Single
  <1>10. ReadInv'
    BY <1>1, <1>3, <1>4, <1>6 DEF ReadInv, Single
  <1>11. EarlyInv'
    <2> SUFFICES ASSUME ~overlapped, ~overtaken PROVE EarlyInv'
      BY <1>1 DEF EarlyInv
    <2>1. ~late /\ Neither(pending, ready, Starting, Tokens(Starting)) /\ Top(Io) # "start"
      BY <1>1 DEF EarlyInv, Inside, Resets
    <2>2. ~m_bstart'
      BY <1>1, <2>1 DEF SwitchInv
    <2> QED
      BY <1>1, <1>3, <1>4, <2>1, <2>2 DEF EarlyInv, StopsFirst
  <1>12. OwnerInv'
    BY <1>1, <1>4 DEF OwnerInv
  <1> QED
    BY <1>5, <1>7, <1>8, <1>9, <1>10, <1>11, <1>12

\* The end of close(): m_binit is stored, the buffers are cleared and the mutex is released.
LEMMA ResetInitKeeps ==
  ASSUME SessionInv, UNCHANGED class, NEW t \in Threads, ResetInit(t)
  PROVE  SessionInv'
  <1> USE DEF SessionInv, switch, history
  <1> DEFINE places == IF role = "server" THEN <<"remove_session", "close_cbk">> ELSE <<"close_cbk">>
  <1>1. /\ Top(t) = "reset_init" /\ Goto(t, places)
        /\ m_binit' = FALSE /\ UNCHANGED <<m_bstart, m_bstop>>
        /\ m_write_buf' = <<>> /\ m_all_len' = 0 /\ tailed' = FALSE /\ m_current_send_msg' = <<>>
        /\ late' = (late \/ Top(Io) = "start")
        /\ UNCHANGED <<sock, pending, ready, connects, pieces, overtaken, overlapped, role, m_sessions>>
    BY DEF ResetInit, StoreInit, ClearBuffers
  <1>2. Io \in Threads /\ late \in BOOLEAN /\ Locked
    BY <1>1 DEF Threads, TypeInv, Locked, Resets
  <1>3. /\ DOMAIN pc' = Threads /\ \A s \in Threads : StackOK(pc'[s], s)
        /\ \A s \in Threads : s # t => Top(s)' = Top(s)
        /\ Top(t)' \in {"remove_session", "close_cbk"}
        /\ \A r \in {"read", "start"} : Top(Io)' = r <=> Top(Io) = r
        /\ \A P \in {{"release"}, {"read", "after_read"}} : None(pc'[Io], P) <=> None(pc[Io], P)
        /\ ~(role = "server" /\ connects = 0)
    <2>1. /\ places \in {<<"close_cbk">>, <<"remove_session", "close_cbk">>}
          /\ Head(places) \in {"close_cbk", "remove_session"}
      OBVIOUS
    <2>2. Top(t) \in {"close"} \cup Resets
      BY <1>1 DEF Resets
    <2> HIDE DEF places
    <2>3. /\ DOMAIN pc' = Threads /\ \A s \in Threads : StackOK(pc'[s], s)
          /\ \A s \in Threads : s # t => Top(s)' = Top(s)
          /\ Top(t)' = Head(places)
          /\ \A r \in {"read", "start"} : Top(Io)' = r <=> Top(Io) = r
          /\ \A P \in {{"release"}, {"read", "after_read"}} : None(pc'[Io], P) <=> None(pc[Io], P)
          /\ ~(role = "server" /\ connects = 0)
      BY <1>1, <2>1, <2>2, ClosingKeeps
    <2> QED
      BY <2>1, <2>3
  <1>4. Starting' = Starting /\ (~late' => ~late /\ Top(Io) # "start")
    BY <1>1, <1>2 DEF Starting
  <1>5. ~late => ~m_bstart
    BY <1>1 DEF SwitchInv
  <1>6. TypeInv'
    <2>1. <<>> \in Seq(Seq(1 .. MaxPieces) \ {<<>>}) /\ <<>> \in Seq(Seq(1 .. MaxPieces))
          /\ <<>> \in Seq(1 .. MaxPieces)
      BY ShortOver
    <2>2. 0 \in 0 .. SizeMod - 1
      BY StreamAssumption
    <2>3. late' \in BOOLEAN
      BY <1>1, <1>2
    <2> QED
      BY <1>1, <1>3, <2>1, <2>2, <2>3 DEF TypeInv, TypeOK, AsioTypeOK, SwitchTypeOK
  <1>7. RoleInv'
    BY <1>1, <1>3 DEF RoleInv
  <1>8. SwitchInv'
    BY <1>1, <1>3, <1>4, <1>5 DEF SwitchInv
  <1>9. IdleInv'
    BY <1>1, <1>2 DEF IdleInv
  <1>10. AttemptInv'
    BY <1>1, <1>3, <1>4, <1>5 DEF AttemptInv
  <1>11. WriteInv'
    BY <1>1, <1>3, <1>4, <1>5 DEF WriteInv
  <1>12. ReadInv'
    <2>1. ~overlapped /\ ~overtaken => ~m_bstart
      BY <1>5 DEF EarlyInv
    <2> QED
      BY <1>1, <1>2, <1>3, <1>4, <2>1 DEF ReadInv
  <1>13. EarlyInv'
    <2> SUFFICES ASSUME ~overlapped, ~overtaken PROVE EarlyInv'
      BY <1>1 DEF EarlyInv
    <2>1. ~late /\ Neither(pending, ready, Starting, Tokens(Starting)) /\ Top(Io) # "start"
      BY <1>1 DEF EarlyInv, Inside, Resets
    <2>2. ~late' /\ ~m_bstart'
      BY <1>1, <1>5, <2>1
    <2> QED
      BY <1>1, <1>3, <1>4, <2>1, <2>2 DEF EarlyInv, StopsFirst
  <1>14. OwnerInv'
    BY <1>1, <1>2 DEF OwnerInv
  <1>15. LenInv'
    <2>1. pieces \in Nat
      BY StreamAssumption DEF TypeInv, TypeOK
    <2> QED
      BY <1>1, <2>1 DEF LenInv
  <1> QED
    BY <1>6, <1>7, <1>8, <1>9, <1>10, <1>11, <1>12, <1>13, <1>14, <1>15

\* The invariant holds of a session that nobody has connected or accepted yet.
LEMMA InitInv ==
  Init => SessionInv
  <1> SUFFICES ASSUME Init PROVE SessionInv
    OBVIOUS
  <1>1. /\ m_binit = FALSE /\ m_bstart = FALSE /\ m_bstop = FALSE
        /\ pending = <<>> /\ ready = <<>> /\ connects = 0
        /\ pc = [t \in Threads |-> <<>>]
        /\ m_write_buf = <<>> /\ m_current_send_msg = <<>> /\ m_all_len = 0
        /\ tailed = FALSE /\ pieces = 0 /\ overtaken = FALSE /\ overlapped = FALSE /\ late = FALSE
        /\ role \in {"client", "server"} /\ m_sessions = FALSE
        /\ sock = (IF role = "server" THEN "open" ELSE "closed") /\ class \in Classes
    BY DEF Init, SessionInit, SwitchInit
  <1>2. /\ \A P : None(<<>>, P) /\ Once(<<>>, P)
        /\ \A P, Q : Behind(<<>>, P, Q)
        /\ \A P, Q : Neither(<<>>, <<>>, P, Q) /\ OneOf(<<>>, <<>>, P, Q)
    BY DEF None, Once, Behind, Neither, OneOf
  <1>3. /\ \A t \in Threads : pc[t] = <<>> /\ Top(t) = "out"
        /\ Io \in Threads
    BY <1>1 DEF Top, Threads
  <1>4. TypeInv
    <2>1. \A S : <<>> \in Seq(S)
      BY ShortOver
    <2>2. \A t \in Threads : StackOK(pc[t], t)
      BY <1>2, <1>3, <2>1 DEF StackOK
    <2>3. 0 \in 0 .. SizeMod - 1 /\ 0 \in 0 .. MaxPieces /\ 0 \in 0 .. MaxConnects
      BY StreamAssumption, AsioAssumption
    <2> QED
      BY <1>1, <2>1, <2>2, <2>3 DEF TypeInv, TypeOK, AsioTypeOK, SwitchTypeOK, switch
  <1>5. RoleInv /\ SwitchInv /\ IdleInv /\ OwnerInv
    BY <1>1, <1>2, <1>3 DEF RoleInv, SwitchInv, IdleInv, OwnerInv
  <1>6. AttemptInv /\ WriteInv /\ ReadInv
    BY <1>1, <1>2, <1>3 DEF AttemptInv, WriteInv, ReadInv
  <1>7. EarlyInv /\ LenInv
    BY <1>1, <1>2, <1>3 DEF EarlyInv, StopsFirst, LenInv
  <1> QED
    BY <1>4, <1>5, <1>6, <1>7 DEF SessionInv

\* Every step preserves the invariant.
LEMMA NextInv ==
  SessionInv /\ [Next]_vars => SessionInv'
  <1> SUFFICES ASSUME SessionInv, [Next]_vars PROVE SessionInv'
    OBVIOUS
  <1>1. CASE UNCHANGED vars
    <2> USE <1>1 DEF vars, session_vars, asio_vars, switch, stream_vars, buffer, history, SessionInv
    <2>1. TypeInv' /\ RoleInv' /\ LenInv'
      BY DEF TypeInv, TypeOK, AsioTypeOK, SwitchTypeOK, RoleInv, LenInv
    <2>2. Locked' = Locked /\ SwitchInv' /\ (StopsFirst => StopsFirst')
      <3>1. Quiet
        BY DEF Quiet, Top
      <3> QED
        BY <3>1, QuietKeeps
    <2>3. AttemptInv' /\ WriteInv'
      BY DEF AttemptInv, WriteInv, Single, Starting, Top
    <2>4. ReadInv' /\ IdleInv' /\ OwnerInv'
      BY <2>2 DEF ReadInv, IdleInv, OwnerInv, Single, Starting, Top
    <2>5. EarlyInv'
      BY <2>2 DEF EarlyInv, Starting, Top
    <2> QED
      BY <2>1, <2>2, <2>3, <2>4, <2>5
  <1>2. CASE Next
    <2>1. UNCHANGED class /\ Kinds
      BY <1>2, StepKinds
    <2>2. CASE Shared
      <3>1. CASE HandleRead \/ HandleWrite
        BY <2>1, <3>1, HandlersKeep
      <3>2. CASE DropSessions \/ AfterRead
        BY <2>1, <3>2, ThreadsKeep DEF Threads
      <3>3. CASE \E t \in Threads : \/ Write(t) \/ WriteTail(t) \/ CallShutdown(t) \/ Stop(t) \/ Close(t)
                                    \/ ResetStart(t) \/ ResetStop(t) \/ ResetInit(t)
                                    \/ RemoveSession(t) \/ CallbackReturns(t)
        BY <2>1, <3>3, WritesKeep, ThreadsKeep, CloseKeeps, ResetsKeep, ResetInitKeeps
      <3> QED
        BY <2>1, <2>2, <3>1, <3>2, <3>3, EnvironmentKeeps, ReadKeeps, ReleaseKeeps DEF Shared
    <2> QED
      BY <2>1, <2>2, HandlersKeep, SwitchesKeep, GoesKeep, ResolvedKeeps, TimerKeeps, ConnectsKeep, AcceptsKeep
         DEF Kinds
  <1> QED
    BY <1>1, <1>2

\* The inductive invariant holds in every reachable state of a session of any class: of its
\* switch, its buffer, the operations outstanding on its socket and the threads inside it.
THEOREM SessionInvHolds ==
  Spec => []SessionInv
  BY InitInv, NextInv, PTL DEF Spec

\* The variables have their types in every reachable state: completions are of known
\* operations, messages are of accepted pieces, m_all_len is a size_t.
THEOREM SessionTypeCorrect ==
  Spec => []TypeOK
  <1>1. SessionInv => TypeOK
    BY DEF SessionInv, TypeInv
  <1> QED
    BY <1>1, SessionInvHolds, PTL

------------------------------------------------------------------------------
(* What follows: the safety properties of the sessions                     *)

\* At most one element of s is x.
LEMMA CountOnce ==
  ASSUME NEW S, NEW s \in Seq(S), NEW x, Once(s, {x})
  PROVE  Cardinality({i \in DOMAIN s : s[i] = x}) <= 1
  <1> DEFINE I == {i \in DOMAIN s : s[i] = x}
  <1>1. I = {} => Cardinality(I) = 0
    BY FS_EmptySet
  <1>2. I # {} => Cardinality(I) = 1
    <2> SUFFICES ASSUME I # {} PROVE Cardinality(I) = 1
      OBVIOUS
    <2>1. PICK i \in I : TRUE
      OBVIOUS
    <2>2. I = {i}
      BY <2>1 DEF Once
    <2>3. Cardinality({i}) = 1
      BY FS_Singleton
    <2> QED
      BY <2>2, <2>3
  <1>3. Cardinality(I) <= 1
    <2> HIDE DEF I
    <2> QED
      BY <1>1, <1>2
  <1> QED
    BY <1>3

\* Some element of s is x.
LEMMA CountSome ==
  ASSUME NEW S, NEW s \in Seq(S), NEW x
  PROVE  Cardinality({i \in DOMAIN s : s[i] = x}) > 0 <=> ~None(s, {x})
  <1> DEFINE I == {i \in DOMAIN s : s[i] = x}
  <1>1. ~None(s, {x}) <=> I # {}
    <2>1. ~None(s, {x}) <=> \E i \in DOMAIN s : s[i] = x
      BY DEF None
    <2> QED
      BY <2>1
  <1>2. IsFiniteSet(I)
    <2>1. 1 \in Int /\ Len(s) \in Int /\ I \subseteq 1 .. Len(s)
      OBVIOUS
    <2>2. IsFiniteSet(1 .. Len(s))
      BY <2>1, FS_Interval
    <2> QED
      BY <2>1, <2>2, FS_Subset
  <1>3. Cardinality(I) \in Nat /\ (Cardinality(I) = 0 <=> I = {})
    BY <1>2, FS_CardinalityType, FS_EmptySet
  <1> QED
    BY <1>1, <1>3

\* write, write_tail and handle_write never have two async_write outstanding on a socket,
\* unless an attempt to connect began before the one before had ended, or a stop came in the
\* middle of a start().
THEOREM WritesAreSerial ==
  Spec => []OneWriteInFlight
  <1>1. SessionInv => OneWriteInFlight
    <2> SUFFICES ASSUME SessionInv, ~overlapped, ~late PROVE Outstanding("write") <= 1
      BY DEF OneWriteInFlight
    <2>1. pending \in Seq(Transfers \cup Stages)
      BY DEF SessionInv, TypeInv, TypeOK, AsioTypeOK
    <2>2. Once(pending, {"write"})
      <3>1. m_bstart => Once(pending, {"write"})
        BY DEF SessionInv, WriteInv, Single, OneOf
      <3>2. ~m_bstart => None(pending, {"write"})
        BY DEF SessionInv, IdleInv
      <3> QED
        BY <3>1, <3>2 DEF None, Once
    <2> QED
      BY <2>1, <2>2, CountOnce DEF Outstanding
  <1> QED
    BY <1>1, SessionInvHolds, PTL

\* handle_start and handle_read never have two async_read outstanding on a socket, unless a
\* connection began while another thread was inside the session or an attempt was under way.
THEOREM ReadsAreSerial ==
  Spec => []OneReadInFlight
  <1>1. SessionInv => OneReadInFlight
    <2> SUFFICES ASSUME SessionInv, ~overlapped, ~overtaken PROVE Outstanding("read") <= 1
      BY DEF OneReadInFlight
    <2>1. pending \in Seq(Transfers \cup Stages)
      BY DEF SessionInv, TypeInv, TypeOK, AsioTypeOK
    <2>2. Once(pending, {"read"})
      BY DEF SessionInv, ReadInv, Single, OneOf, None, Once
    <2> QED
      BY <2>1, <2>2, CountOnce DEF Outstanding
  <1> QED
    BY <1>1, SessionInvHolds, PTL

\* An open socket of a client belongs to an initialised session, or to an attempt to connect
\* whose completion waits: close() and the handlers leave none behind.
THEOREM SocketsAreOwned ==
  Spec => []NoOrphanSocket
  <1>1. SessionInv => NoOrphanSocket
    <2> SUFFICES ASSUME SessionInv, sock = "open", role = "client", ~overtaken, ~overlapped, ~m_binit
                 PROVE  \E i \in DOMAIN ready : ready[i].op \in Stages
      BY DEF NoOrphanSocket
    <2>1. PICK i \in DOMAIN ready : ready[i] \in Ok("connect")
      BY DEF SessionInv, OwnerInv, None
    <2> QED
      BY <2>1 DEF Ok, Stages
  <1> QED
    BY <1>1, SessionInvHolds, PTL

\* The length that WriteBuffer counts in append, send and clear is the length of what waits,
\* as long as append_tail has not extended a message in place.
THEOREM LengthIsExact ==
  Spec => []LenIsExact
  <1>1. SessionInv => LenIsExact
    <2> SUFFICES ASSUME SessionInv, ~tailed PROVE m_all_len = Len(FlattenSeq(m_write_buf))
      BY DEF LenIsExact
    <2>1. m_write_buf \in Seq(Seq(1 .. MaxPieces))
      BY DEF SessionInv, TypeInv, TypeOK
    <2>2. (\A i \in DOMAIN m_write_buf : Len(m_write_buf[i]) = 1) /\ m_all_len = Len(m_write_buf)
      BY DEF SessionInv, LenInv
    <2> QED
      BY <2>1, <2>2, FlattenSingles
  <1> QED
    BY <1>1, SessionInvHolds, PTL

------------------------------------------------------------------------------
(* A started session hears, and the server's map forgets a closed one      *)

\* A thread that has one of these ahead of it begins a read, or ends the session.
Hearing == {"read", "after_read", "stop", "close"} \cup Resets

Hears == \/ ~None(pending, {"read"}) \/ ~None(ready, Tokens({"read"}))
         \/ \E t \in Threads : ~None(pc[t], Hearing)
Forgets == ~None(ready, Tokens({"start"})) \/ \E t \in Threads : Top(t) = "remove_session"

ServedInv == (has_started /\ ~late => Hears) /\ (m_sessions /\ ~m_binit => Forgets)

\* The read that is outstanding, and the start that waits, are not lost.
Listens ==
  /\ ~None(pending, {"read"}) => ~None(pending', {"read"}) \/ ~None(ready', Tokens({"read"}))
  /\ \A S : ~None(ready, Tokens(S)) /\ S \in {{"read"}, {"start"}} => ~None(ready', Tokens(S))

\* The session does not start, and the switch stays initialised.
StartsNot ==
  late' = late /\ (~late /\ has_started' => has_started) /\ (m_binit => m_binit')

\* No thread moves.
LEMMA StaysServed ==
  ASSUME ServedInv, pc' = pc, StartsNot, m_sessions' => m_sessions, Listens
  PROVE  ServedInv'
  <1>1. \A t : Top(t)' = Top(t)
    BY DEF Top
  <1>2. has_started' /\ ~late' => Hears'
    BY DEF ServedInv, Hears, StartsNot, Listens
  <1>3. m_sessions' /\ ~m_binit' => Forgets'
    BY <1>1 DEF ServedInv, Forgets, StartsNot, Listens
  <1> QED
    BY <1>2, <1>3 DEF ServedInv

\* The io thread takes a completion.
LEMMA TakesServed ==
  ASSUME SessionInv, ServedInv,
         NEW op, NEW places \in {<<>>, <<"stop">>, <<"close">>, <<"read_cbk", "after_read">>,
                                 <<"release">>, <<"write_cbk", "release">>, <<"start">>},
         Handles(op), ready' = Tail(ready), Call(Io, places) \/ (places = <<>> /\ pc' = pc),
         m_sessions' = m_sessions,
         ~None(pending, {"read"}) => ~None(pending', {"read"}),
         op = "start" => m_binit',
         op = "read" /\ has_started => ~None(places, Hearing),
         StartsNot
  PROVE  ServedInv'
  <1>1. TypeInv
    BY DEF SessionInv
  <1>2. /\ pc[Io] = <<>> /\ Io \in Threads /\ DOMAIN pc = Threads
        /\ Head(ready) = [op |-> op, ok |-> Head(ready).ok]
        /\ \A Q : Head(ready) \notin Q => (None(Tail(ready), Q) <=> None(ready, Q))
    BY <1>1, TakenFirst DEF TypeInv, TypeOK, AsioTypeOK
  <1>3. /\ \A s \in Threads : s # Io => pc'[s] = pc[s] /\ Top(s)' = Top(s)
        /\ pc'[Io] = places
    <2>1. CASE Call(Io, places)
      BY <1>1, <1>2, <2>1, TakeKeeps
    <2>2. CASE places = <<>> /\ pc' = pc
      BY <1>2, <2>2 DEF Top
    <2> QED
      BY <2>1, <2>2
  <1>4. None(pc[Io], Hearing) /\ Top(Io) = "out"
    BY <1>2, Short DEF Top
  <1>5. \A S : op \notin S => (None(ready', Tokens(S)) <=> None(ready, Tokens(S)))
    <2> SUFFICES ASSUME NEW S, op \notin S
                 PROVE  None(ready', Tokens(S)) <=> None(ready, Tokens(S))
      OBVIOUS
    <2>1. Head(ready) \notin Tokens(S)
      BY <1>2 DEF Tokens
    <2> QED
      BY <1>2, <2>1
  <1>6. has_started' /\ ~late' => Hears'
    <2>1. has_started' /\ ~late' => has_started /\ ~late /\ Hears
      BY DEF StartsNot, ServedInv
    <2>2. CASE op = "read"
      BY <1>2, <1>3, <2>1, <2>2 DEF Hears
    <2>3. CASE op # "read"
      BY <1>3, <1>4, <1>5, <2>1, <2>3 DEF Hears
    <2> QED
      BY <2>2, <2>3
  <1>7. m_sessions' /\ ~m_binit' => Forgets'
    <2> SUFFICES ASSUME m_sessions', ~m_binit' PROVE Forgets'
      OBVIOUS
    <2>1. op # "start" /\ Forgets
      BY DEF ServedInv, StartsNot
    <2> QED
      BY <1>3, <1>4, <1>5, <2>1 DEF Forgets
  <1> QED
    BY <1>6, <1>7 DEF ServedInv

\* A thread goes on.
LEMMA GoesOnServed ==
  ASSUME SessionInv, ServedInv, NEW t \in Threads, pc[t] # <<>>, NEW places, Goto(t, places),
         \/ places \in {<<>>, <<"close">>, <<"reset_start">>, <<"reset_stop">>}
         \/ places = <<"read">> /\ t = Io /\ Top(Io) = "after_read",
         StartsNot, m_sessions' => m_sessions, Listens,
         has_started' =>
           \/ Top(t) \notin Hearing \/ places # <<>>
           \/ ~None(pending', {"read"}) \/ ~None(ready', Tokens({"read"})),
         m_sessions' => Top(t) # "remove_session"
  PROVE  ServedInv'
  <1>1. TypeInv /\ StackOK(pc[t], t)
    BY DEF SessionInv, TypeInv
  <1>2. /\ \A s \in Threads : s # t => pc'[s] = pc[s] /\ Top(s)' = Top(s)
        /\ \A P : None(pc'[t], P) <=> None(places, P) /\ None(Tail(pc[t]), P)
    BY <1>1, GotoKeeps
  <1>3. /\ Top(t) = Head(pc[t])
        /\ \A P : Head(pc[t]) \notin P => (None(Tail(pc[t]), P) <=> None(pc[t], P))
    BY <1>1, Below DEF Top
  <1>4. places # <<>> => ~None(places, Hearing)
    BY Short DEF Hearing, Resets
  <1>5. has_started' /\ ~late' => Hears'
    <2> SUFFICES ASSUME has_started', ~late' PROVE Hears'
      OBVIOUS
    <2>1. Hears
      BY DEF StartsNot, ServedInv
    <2>2. CASE ~None(pc'[t], Hearing)
      BY <2>2 DEF Hears
    <2>3. CASE None(pc'[t], Hearing)
      <3>1. places = <<>> /\ None(Tail(pc[t]), Hearing)
        BY <1>2, <1>4, <2>3
      <3>2. Top(t) \notin Hearing => None(pc[t], Hearing)
        BY <1>3, <3>1
      <3> QED
        BY <1>2, <2>1, <3>1, <3>2 DEF Hears, Listens
    <2> QED
      BY <2>2, <2>3
  <1>6. m_sessions' /\ ~m_binit' => Forgets'
    BY <1>2 DEF ServedInv, Forgets, StartsNot, Listens
  <1> QED
    BY <1>5, <1>6 DEF ServedInv

\* The compare_exchange of start().
LEMMA SwitchesServed ==
  ASSUME SessionInv, ServedInv, Switches
  PROVE  ServedInv'
  <1> USE DEF switch
  <1>0. PICK refused \in {<<>>, <<"close">>} : Start(refused)
    BY DEF Switches
  <1>1. TypeInv /\ Io \in Threads /\ Top(Io) = "start" /\ UNCHANGED <<pending, ready, m_sessions>>
    BY <1>0 DEF SessionInv, Start, Threads
  <1>2. pc[Io] # <<>> /\ Top(Io) \notin Hearing
    BY <1>1 DEF Top, Hearing, Resets
  <1>3. CASE m_bstart
    <2>1. Goto(Io, refused) /\ UNCHANGED <<switch, late>>
      BY <1>0, <1>3 DEF Start
    <2>2. StartsNot /\ Listens
      BY <1>1, <2>1 DEF StartsNot, Listens, has_started
    <2> QED
      BY <1>1, <1>2, <2>1, <2>2, GoesOnServed
  <1>4. CASE ~m_bstart
    <2>1. Goto(Io, <<"read", "open_cbk">>) /\ m_binit' = m_binit
      BY <1>0, <1>4 DEF Start, StartCas
    <2>2. /\ pc'[Io] = <<"read", "open_cbk">>
          /\ \A s \in Threads : s # Io => Top(s)' = Top(s)
      BY <1>1, <2>1, SwitchKeeps
    <2>3. ~None(pc'[Io], Hearing)
      BY <2>2, Short DEF Hearing
    <2>4. Hears'
      BY <1>1, <2>3 DEF Hears
    <2>5. m_sessions' /\ ~m_binit' => Forgets'
      BY <1>1, <2>1, <2>2 DEF ServedInv, Forgets
    <2> QED
      BY <2>4, <2>5 DEF ServedInv
  <1> QED
    BY <1>3, <1>4

\* The steps inside a thread, but for those of close().
LEMMA ThreadsServed ==
  ASSUME SessionInv, ServedInv, NEW t \in Threads,
         \/ Stop(t) \/ RemoveSession(t) \/ CallbackReturns(t) \/ CallShutdown(t)
         \/ t = Io /\ (AfterRead \/ Read \/ ReleaseSent)
  PROVE  ServedInv'
  <1> USE DEF stream_vars, history, switch
  <1>1. TypeInv /\ \A s \in Threads : Top(s) # "out" => pc[s] # <<>>
    BY DEF SessionInv, Top
  <1>2. \A op \in Transfers : Begin(op) =>
          /\ \A P : ~None(pending, P) => ~None(pending', P)
          /\ \A Q : ~None(ready, Q) => ~None(ready', Q)
          /\ ~Neither(pending', ready', {op}, Tokens({op}))
    BY <1>1, BeginKeeps
  <1>3. "read" \in Transfers /\ "write" \in Transfers
    BY DEF Transfers
  <1>4. CASE Stop(t)
    <2>1. Top(t) = "stop" /\ UNCHANGED <<pending, ready, m_sessions, late>>
      BY <1>4 DEF Stop
    <2>2. Listens
      BY <2>1 DEF Listens
    <2>3. CASE m_bstop
      <3>1. Goto(t, <<>>) /\ UNCHANGED switch
        BY <1>4, <2>3 DEF Stop, Return
      <3>2. ~has_started' /\ StartsNot
        BY <2>1, <2>3, <3>1 DEF has_started, StartsNot
      <3> QED
        BY <1>1, <2>1, <2>2, <3>1, <3>2, GoesOnServed
    <2>4. CASE ~m_bstop
      <3>1. Goto(t, <<"close">>) /\ m_bstop' = TRUE /\ m_binit' = m_binit
        BY <1>4, <2>4 DEF Stop, StopCas
      <3>2. ~has_started' /\ StartsNot
        BY <2>1, <3>1 DEF has_started, StartsNot
      <3> QED
        BY <1>1, <2>1, <2>2, <3>1, <3>2, GoesOnServed
    <2> QED
      BY <2>3, <2>4
  <1>5. CASE RemoveSession(t)
    <2>1. /\ Top(t) = "remove_session" /\ Goto(t, <<>>) /\ m_sessions' = FALSE
          /\ UNCHANGED <<pending, ready, switch, late>>
      BY <1>5 DEF RemoveSession, Return
    <2>2. Top(t) \notin Hearing /\ StartsNot /\ Listens
      BY <2>1 DEF Hearing, Resets, has_started, StartsNot, Listens
    <2> QED
      BY <1>1, <2>1, <2>2, GoesOnServed
  <1>6. CASE CallbackReturns(t)
    <2>1. Top(t) \in Callbacks /\ Goto(t, <<>>) /\ UNCHANGED <<pending, ready, switch, m_sessions, late>>
      BY <1>6 DEF CallbackReturns, Return
    <2>2. /\ Top(t) \notin Hearing /\ Top(t) # "remove_session" /\ Top(t) # "out"
          /\ StartsNot /\ Listens
      BY <2>1 DEF Hearing, Resets, has_started, Callbacks, StartsNot, Listens
    <2> QED
      BY <1>1, <2>1, <2>2, GoesOnServed
  <1>7. CASE CallShutdown(t)
    <2>1. InUserCode(t) /\ Call(t, <<"stop">>) /\ UNCHANGED <<pending, ready, switch, m_sessions, late>>
      BY <1>7 DEF CallShutdown, Reachable
    <2>2. /\ \A s \in Threads : s # t => Top(s)' = Top(s)
          /\ \A P : None(pc'[t], P) <=> "stop" \notin P /\ None(pc[t], P)
          /\ Top(t) \in Callbacks \cup {"out"}
      BY <1>1, <2>1, CallKeeps
    <2>3. Hears'
      BY <2>2 DEF Hears, Hearing
    <2>4. m_sessions' /\ ~m_binit' => Forgets'
      BY <2>1, <2>2 DEF ServedInv, Forgets, Callbacks
    <2> QED
      BY <2>3, <2>4 DEF ServedInv
  <1>9. CASE t = Io /\ AfterRead
    <2> DEFINE places == IF has_stoped THEN <<>> ELSE <<"read">>
    <2>1. /\ Top(t) = "after_read" /\ Goto(t, places)
          /\ UNCHANGED <<pending, ready, switch, m_sessions, late>>
      BY <1>9 DEF AfterRead
    <2>2. /\ places \in {<<>>, <<"read">>} /\ (has_started' => has_started)
          /\ (has_started' => places # <<>>)
      BY <2>1 DEF has_started, has_stoped
    <2>3. StartsNot /\ Listens
      BY <2>1, <2>2 DEF StartsNot, Listens
    <2> HIDE DEF places
    <2> QED
      BY <1>1, <1>9, <2>1, <2>2, <2>3, GoesOnServed
  <1>10. CASE t = Io /\ Read
    <2>1. Top(t) = "read" /\ Goto(t, <<>>) /\ Begin("read") /\ UNCHANGED <<switch, m_sessions, late>>
      BY <1>10 DEF Read, Return
    <2>2. ~None(pending', {"read"}) \/ ~None(ready', Tokens({"read"}))
      BY <1>2, <1>3, <2>1 DEF Neither
    <2>3. StartsNot
      BY <2>1 DEF has_started, StartsNot
    <2>4. Listens
      BY <1>2, <1>3, <2>1 DEF Listens
    <2> QED
      BY <1>1, <2>1, <2>2, <2>3, <2>4, GoesOnServed
  <1>11. CASE t = Io /\ ReleaseSent
    <2>1. /\ Top(t) = "release" /\ Goto(t, <<>>) /\ UNCHANGED <<switch, m_sessions, late>>
          /\ Begin("write") \/ UNCHANGED <<pending, ready>>
      BY <1>11 DEF ReleaseSent, Return, SendFront
    <2>2. Top(t) \notin Hearing /\ Top(t) # "remove_session" /\ StartsNot
      BY <2>1 DEF Hearing, Resets, has_started, StartsNot
    <2>3. Listens
      BY <1>2, <1>3, <2>1 DEF Listens
    <2> QED
      BY <1>1, <2>1, <2>2, <2>3, GoesOnServed
  <1> QED
    BY <1>4, <1>5, <1>6, <1>7, <1>9, <1>10, <1>11

\* The steps of close().
LEMMA ClosesServed ==
  ASSUME SessionInv, ServedInv, NEW t \in Threads,
         Close(t) \/ ResetStart(t) \/ ResetStop(t) \/ ResetInit(t)
  PROVE  ServedInv'
  <1> USE DEF stream_vars, history, switch
  <1>1. TypeInv /\ RoleInv /\ pc[t] # <<>>
    BY DEF SessionInv, Close, ResetStart, ResetStop, ResetInit, Top
  <1>2. /\ pending \in Seq(Transfers \cup Stages) /\ ready \in Seq(Completion)
        /\ m_sessions \in BOOLEAN
    BY <1>1 DEF TypeInv, TypeOK, AsioTypeOK
  <1>3. CASE Close(t)
    <2>1. /\ Top(t) = "close" /\ Goto(t, <<"reset_start">>)
          /\ ready' = ready \o Aborted /\ pending' = Unaborted
          /\ UNCHANGED <<switch, m_sessions, late>>
      BY <1>3 DEF Close, Abort
    <2>2. Listens
      BY <1>2, <2>1, AbortKeeps DEF Listens
    <2>3. StartsNot
      BY <2>1 DEF StartsNot, has_started
    <2> QED
      BY <1>1, <2>1, <2>2, <2>3, GoesOnServed
  <1>4. CASE ResetStart(t) \/ ResetStop(t)
    <2>1. PICK places \in {<<"reset_stop">>, <<"reset_init">>} :
            /\ Top(t) \in {"reset_start", "reset_stop"} /\ Goto(t, places)
            /\ UNCHANGED <<pending, ready, m_sessions, late, m_binit>>
            /\ ~late => ~has_started'
      <3>1. CASE ResetStart(t)
        BY <3>1 DEF ResetStart, StoreStart, has_started
      <3>2. CASE ResetStop(t)
        BY <3>2 DEF ResetStop, StoreStop, has_started, SessionInv, SwitchInv
      <3> QED
        BY <1>4, <3>1, <3>2
    <2>2. /\ \A s \in Threads : s # t => Top(s)' = Top(s)
          /\ places # <<>>
      <3>1. places # <<>> /\ Top(t) \in {"close"} \cup Resets
        BY <2>1 DEF Resets
      <3> QED
        BY <1>1, <2>1, <3>1, ClosingKeeps
    <2>3. m_sessions' /\ ~m_binit' => Forgets'
      BY <2>1, <2>2 DEF ServedInv, Forgets
    <2> QED
      BY <2>1, <2>3 DEF ServedInv
  <1>5. CASE ResetInit(t)
    <2>1. /\ Top(t) = "reset_init" /\ m_binit' = FALSE /\ m_sessions' = m_sessions
          /\ Goto(t, IF role = "server" THEN <<"remove_session", "close_cbk">> ELSE <<"close_cbk">>)
      BY <1>5 DEF ResetInit, StoreInit
    <2>2. ~has_started'
      BY <2>1 DEF has_started
    <2>3. m_sessions' => Top(t)' = "remove_session"
      <3> SUFFICES ASSUME m_sessions' PROVE Top(t)' = "remove_session"
        OBVIOUS
      <3>1. role = "server"
        BY <1>1, <2>1 DEF RoleInv, TypeInv
      <3> DEFINE places == <<"remove_session", "close_cbk">>
      <3>2. Goto(t, places)
        BY <2>1, <3>1
      <3>3. Head(places) = "remove_session" /\ Top(t) \in {"close"} \cup Resets
        BY <2>1 DEF Resets
      <3> HIDE DEF places
      <3>4. places = <<"remove_session", "close_cbk">>
        BY DEF places
      <3>5. Top(t)' = Head(places)
        BY <1>1, <3>2, <3>3, <3>4, ClosingKeeps
      <3> QED
        BY <3>3, <3>5
    <2> QED
      BY <2>2, <2>3 DEF ServedInv, Forgets
  <1> QED
    BY <1>3, <1>4, <1>5

\* The handlers of reads and writes, and of the last stage of opening.
LEMMA HandlersServed ==
  ASSUME SessionInv, ServedInv, HandleRead \/ HandleWrite \/ Opens \/ Starts \/ Secures
  PROVE  ServedInv'
  <1> USE DEF switch, stream_vars, history
  <1>0. TypeInv /\ pending \in Seq(Transfers \cup Stages)
    BY DEF SessionInv, TypeInv, TypeOK, AsioTypeOK
  <1>1. UNCHANGED <<switch, late>> => StartsNot
    BY DEF has_started, StartsNot
  <1>2. init /\ late' = late => StartsNot /\ m_binit'
    BY DEF init, has_started, StartsNot, SessionInv, SwitchInv
  <1>3. ASSUME NEW op, NEW places \in {<<>>, <<"stop">>, <<"close">>, <<"read_cbk", "after_read">>,
                                       <<"release">>, <<"write_cbk", "release">>, <<"start">>},
               Handle(op, places), op = "start" => init,
               UNCHANGED switch \/ init,
               op = "read" /\ has_started => ~None(places, Hearing)
        PROVE  ServedInv'
    <2>1. /\ Handles(op) /\ ready' = Tail(ready) /\ Call(Io, places)
          /\ UNCHANGED <<pending, m_sessions, late>>
      BY <1>3 DEF Handle
    <2>2. StartsNot /\ (op = "start" => m_binit')
      BY <1>1, <1>2, <1>3, <2>1
    <2> QED
      BY <1>3, <2>1, <2>2, TakesServed
  <1>4. CASE HandleRead
    <2> DEFINE places == IF Succeeded THEN <<"read_cbk", "after_read">> ELSE Shutdown
    <2>1. Handle("read", places) /\ UNCHANGED switch
      BY <1>4 DEF HandleRead
    <2>2. /\ places \in {<<"read_cbk", "after_read">>, <<"stop">>, <<>>}
          /\ has_started => places # <<>>
      BY DEF Shutdown, MayStop, has_started
    <2>3. has_started => ~None(places, Hearing)
      BY <2>2, Short DEF Hearing
    <2> HIDE DEF places
    <2> QED
      BY <1>3, <2>1, <2>2, <2>3
  <1>5. CASE HandleWrite
    <2> DEFINE places == IF ~Succeeded THEN Shutdown
                         ELSE IF has_stoped THEN <<>>
                         ELSE IF m_current_send_msg # <<>> THEN <<"write_cbk", "release">>
                         ELSE <<"release">>
    <2>1. Handle("write", places) /\ UNCHANGED switch
      BY <1>5 DEF HandleWrite
    <2>2. places \in {<<"write_cbk", "release">>, <<"release">>, <<"stop">>, <<>>}
      BY DEF Shutdown
    <2> HIDE DEF places
    <2> QED
      BY <1>3, <2>1, <2>2
  <1>6. CASE Opens
    <2>1. PICK op \in Starting \ {"start"}, refused \in {<<>>, <<"close">>} : HandleOpened(op, refused)
      BY <1>6 DEF Opens
    <2>2. op # "start" /\ op # "read"
      BY DEF Starting, Openers, Stages
    <2> DEFINE places == IF ~Succeeded THEN <<"close">> ELSE IF MayStart THEN <<"start">> ELSE refused
    <2>3. Handle(op, places) /\ UNCHANGED switch /\ places \in {<<>>, <<"close">>, <<"start">>}
      BY <2>1 DEF HandleOpened
    <2> HIDE DEF places
    <2> QED
      BY <1>3, <2>2, <2>3
  <1>7. CASE Starts
    BY <1>3, <1>7 DEF Starts
  <1>8. CASE Secures
    <2>1. CASE ~(Handles("connect") /\ Succeeded)
      <3>1. Handle("connect", <<"close">>) /\ UNCHANGED switch
        BY <1>8, <2>1 DEF Secures
      <3> QED
        BY <1>3, <3>1
    <2>2. CASE Handles("connect") /\ Succeeded
      <3>1. /\ ready' = Tail(ready) /\ UNCHANGED <<late, m_sessions>>
            /\ \/ UNCHANGED <<pending, pc, switch>>
               \/ init /\ Call(Io, <<"close">>) /\ UNCHANGED pending
               \/ init /\ pending' = Append(pending, "tls") /\ UNCHANGED pc
        BY <1>8, <2>2 DEF Secures
      <3>2. StartsNot
        BY <1>1, <1>2, <3>1
      <3>3. ~None(pending, {"read"}) => ~None(pending', {"read"})
        <4>1. "tls" \in Transfers \cup Stages
          BY DEF Stages
        <4>2. None(Append(pending, "tls"), {"read"}) => None(pending, {"read"})
          BY <1>0, <4>1, AppendKeeps
        <4> QED
          BY <3>1, <4>2
      <3>4. PICK places \in {<<>>, <<"close">>} : Call(Io, places) \/ (places = <<>> /\ pc' = pc)
        BY <3>1
      <3> QED
        BY <2>2, <3>1, <3>2, <3>3, <3>4, TakesServed
    <2> QED
      BY <2>1, <2>2
  <1> QED
    BY <1>4, <1>5, <1>6, <1>7, <1>8

\* The steps in which no thread moves, and the stages of opening.
LEMMA OthersServed ==
  ASSUME SessionInv, ServedInv,
         \/ \E t \in Threads : Write(t) \/ WriteTail(t)
         \/ Environment \/ DropSessions \/ Goes \/ Connects \/ TimeOut \/ HandleResolved \/ TimedOut
         \/ AcceptsTcp \/ \E op : Accepts(op)
  PROVE  ServedInv'
  <1> USE DEF stream_vars, asio_vars, switch, history
  <1>1. /\ TypeInv /\ pending \in Seq(Transfers \cup Stages) /\ ready \in Seq(Completion)
        /\ m_binit \in BOOLEAN
    BY DEF SessionInv, TypeInv, TypeOK, AsioTypeOK, SwitchTypeOK
  <1>2. UNCHANGED <<switch, late>> => StartsNot
    BY DEF has_started, StartsNot
  <1>3. init /\ late' = late => StartsNot /\ m_binit' /\ (~late => ~has_started')
    BY DEF init, has_started, StartsNot, SessionInv, SwitchInv
  <1>4. ASSUME NEW op, Handles(op), op \notin {"read", "start"}
        PROVE  /\ Tail(ready) \in Seq(Completion)
               /\ Head(ready) = [op |-> op, ok |-> Head(ready).ok]
               /\ \A S : S \in {{"read"}, {"start"}} =>
                    (None(Tail(ready), Tokens(S)) <=> None(ready, Tokens(S)))
    <2>1. /\ Tail(ready) \in Seq(Completion)
          /\ Head(ready) = [op |-> op, ok |-> Head(ready).ok]
          /\ \A Q : Head(ready) \notin Q => (None(Tail(ready), Q) <=> None(ready, Q))
      BY <1>1, <1>4, TakenFirst
    <2>2. \A S : S \in {{"read"}, {"start"}} => Head(ready) \notin Tokens(S)
      BY <1>4, <2>1 DEF Tokens
    <2> QED
      BY <2>1, <2>2
  <1>5. ASSUME NEW t \in Threads, Write(t) \/ WriteTail(t) PROVE ServedInv'
    <2>1. /\ UNCHANGED <<pc, switch, m_sessions, late>>
          /\ Begin("write") \/ UNCHANGED <<pending, ready>>
      BY <1>5 DEF Write, WriteTail, MayWrite, Enqueued, SendFront
    <2>2. "write" \in Transfers
      BY DEF Transfers
    <2>3. /\ \A P : ~None(pending, P) => ~None(pending', P)
          /\ \A Q : ~None(ready, Q) => ~None(ready', Q)
      BY <1>1, <2>1, <2>2, BeginKeeps
    <2> QED
      BY <1>2, <2>1, <2>3, StaysServed DEF Listens
  <1>6. CASE Environment
    <2>1. PICK i \in DOMAIN pending, ok \in BOOLEAN : Completes(i, ok)
      BY <1>6 DEF Environment, Settles, Arrives
    <2> DEFINE c == [op |-> pending[i], ok |-> ok]
    <2>2. /\ UNCHANGED <<pc, switch, m_sessions, late>>
          /\ pending' = RemoveAt(pending, i) /\ ready' = Append(ready, c)
      BY <1>6, <2>1 DEF Environment, Completes
    <2>3. pending[i] \in Transfers \cup Stages
      BY <1>1
    <2>4. c \in Completion
      BY <2>3 DEF Completion
    <2>5. pending[i] = "read" => c \in Tokens({"read"})
      <3>1. \A r \in {"read"} : [op |-> r, ok |-> ok] \in Tokens({"read"})
        BY <2>1 DEF Tokens
      <3> QED
        BY <3>1
    <2> HIDE DEF c
    <2>6. \A Q : None(ready', Q) <=> None(ready, Q) /\ c \notin Q
      BY <1>1, <2>2, <2>4, AppendKeeps
    <2>7. ~None(pending, {"read"}) => ~None(pending', {"read"}) \/ ~None(ready', Tokens({"read"}))
      <3>1. \A P : None(RemoveAt(pending, i), P) /\ pending[i] \notin P => None(pending, P)
        BY <1>1, <2>1, RemoveAtKeeps
      <3> QED
        BY <2>2, <2>5, <2>6, <3>1
    <2> QED
      BY <1>2, <2>2, <2>6, <2>7, StaysServed DEF Listens
  <1>7. CASE DropSessions
    <2>1. UNCHANGED <<pc, pending, ready, switch, late>> /\ (m_sessions' => m_sessions)
      BY <1>7 DEF DropSessions
    <2> QED
      BY <1>2, <2>1, StaysServed DEF Listens
  <1>8. CASE Goes
    <2>1. PICK op \in Starting \ {"start"}, next \in Starting \ {"start"} : HandleStage(op, next)
      BY <1>8 DEF Goes
    <2>2. /\ op \notin {"read", "start"} /\ op \in Stages /\ next \in Stages
      BY DEF Starting, Openers, Stages
    <2>3. Handles(op) /\ UNCHANGED <<switch, stream_vars>>
      BY <2>1 DEF HandleStage
    <2>4. CASE ~Succeeded
      <3>1. ready' = Tail(ready) /\ Call(Io, <<"close">>) /\ UNCHANGED pending
        BY <2>1, <2>4 DEF HandleStage
      <3> QED
        BY <1>2, <2>2, <2>3, <3>1, TakesServed
    <2>5. CASE Succeeded
      <3> DEFINE c == [op |-> next, ok |-> FALSE]
      <3>1. /\ pc' = pc
            /\ \/ pending' = Append(pending, next) /\ ready' = Tail(ready)
               \/ pending' = pending /\ ready' = Append(Tail(ready), c)
        BY <2>1, <2>5 DEF HandleStage
      <3>2. c \in Completion /\ next \in Transfers \cup Stages
        BY <2>2 DEF Completion
      <3> HIDE DEF c
      <3>3. ~None(pending, {"read"}) => ~None(pending', {"read"})
        <4>1. None(Append(pending, next), {"read"}) => None(pending, {"read"})
          BY <1>1, <3>2, AppendKeeps
        <4> QED
          BY <3>1, <4>1
      <3>4. \A Q : ~None(Tail(ready), Q) => ~None(ready', Q)
        <4>1. Tail(ready) \in Seq(Completion)
          BY <1>4, <2>2, <2>3
        <4> QED
          BY <3>1, <3>2, <4>1, AppendKeeps
      <3> QED
        BY <1>2, <1>4, <2>2, <2>3, <3>1, <3>3, <3>4, StaysServed DEF Listens
    <2> QED
      BY <2>4, <2>5
  <1>9. CASE Connects
    <2>1. PICK op \in {"connect", "resolve"} :
            /\ pending' = Append(pending, op) /\ UNCHANGED <<ready, pc, m_sessions, late>>
            /\ init \/ UNCHANGED switch
      BY <1>9 DEF Connects, ConnectsTcp, ConnectsWs, ConnectsWss, MayConnect
    <2>2. op \in Transfers \cup Stages
      BY DEF Stages
    <2>3. ~None(pending, {"read"}) => ~None(pending', {"read"})
      BY <1>1, <2>1, <2>2, AppendKeeps
    <2> QED
      BY <1>2, <1>3, <2>1, <2>3, StaysServed DEF Listens
  <1>10. CASE TimeOut
    <2> DEFINE c == [op |-> "overtime", ok |-> TRUE]
    <2>1. UNCHANGED <<pc, pending, switch, m_sessions, late>> /\ ready' = Append(ready, c)
      BY <1>10 DEF TimeOut
    <2>2. c \in Completion
      BY DEF Completion
    <2> HIDE DEF c
    <2>3. \A Q : ~None(ready, Q) => ~None(ready', Q)
      BY <1>1, <2>1, <2>2, AppendKeeps
    <2> QED
      BY <1>2, <2>1, <2>3, StaysServed DEF Listens
  <1>11. ASSUME NEW queue \in Seq(Completion), ready' = queue \o Aborted,
                pending' = Unaborted \/ pending' = Append(Unaborted, "connect"),
                UNCHANGED <<pc, switch, m_sessions, late>>,
                \A S : S \in {{"read"}, {"start"}} =>
                  (None(queue, Tokens(S)) <=> None(ready, Tokens(S)))
         PROVE  ServedInv'
    <2>1. /\ \A Q : ~None(queue, Q) => ~None(ready', Q)
          /\ ~None(pending, {"read"}) => ~None(ready', Tokens({"read"}))
      BY <1>1, <1>11, AbortKeeps
    <2> QED
      BY <1>2, <1>11, <2>1, StaysServed DEF Listens
  <1>12. CASE HandleResolved
    <2>1. Handles("resolve") /\ UNCHANGED <<switch, stream_vars>>
      BY <1>12 DEF HandleResolved
    <2>2. CASE Succeeded
      <3>1. /\ pending' = Append(Unaborted, "connect") /\ ready' = Tail(ready) \o Aborted
            /\ UNCHANGED <<pc, switch, m_sessions, late>>
        BY <1>12, <2>2 DEF HandleResolved
      <3> QED
        BY <1>4, <1>11, <2>1, <3>1
    <2>3. CASE ~Succeeded
      <3>1. ready' = Tail(ready) /\ Call(Io, <<"close">>) /\ UNCHANGED pending
        BY <1>12, <2>3 DEF HandleResolved
      <3> QED
        BY <1>2, <2>1, <3>1, TakesServed
    <2> QED
      BY <2>2, <2>3
  <1>13. CASE TimedOut
    <2>1. /\ Handles("overtime") /\ pending' = Unaborted /\ ready' = Tail(ready) \o Aborted
          /\ UNCHANGED <<pc, switch, m_sessions, late>>
      BY <1>13 DEF TimedOut, Abort
    <2> QED
      BY <1>4, <1>11, <2>1
  <1>14. CASE AcceptsTcp
    <2> DEFINE c == [op |-> "start", ok |-> TRUE]
    <2>1. UNCHANGED <<pc, pending, switch, late>> /\ ready' = Append(ready, c)
      BY <1>14 DEF AcceptsTcp, Accepted
    <2>2. c \in Completion /\ c \in Tokens({"start"})
      BY DEF Completion, Tokens
    <2> HIDE DEF c
    <2>3. \A Q : None(ready', Q) <=> None(ready, Q) /\ c \notin Q
      BY <1>1, <2>1, <2>2, AppendKeeps
    <2>4. Forgets'
      BY <2>2, <2>3 DEF Forgets
    <2>5. has_started' /\ ~late' => Hears'
      BY <1>2, <2>1, <2>3 DEF ServedInv, Hears, StartsNot
    <2> QED
      BY <2>4, <2>5 DEF ServedInv
  <1>15. CASE \E op : Accepts(op)
    <2>1. init /\ late' = late
      BY <1>15 DEF Accepts, Accepted
    <2> QED
      BY <1>3, <2>1 DEF ServedInv
  <1> QED
    BY <1>5, <1>6, <1>7, <1>8, <1>9, <1>10, <1>12, <1>13, <1>14, <1>15

\* A started session has a read outstanding, completed or ahead of a thread, but for the
\* exception of NeverDeaf, and the map holds a closed session only until the thread that has
\* closed it erases it.
THEOREM SessionsAreServed ==
  Spec => []ServedInv
  <1>1. Init => ServedInv
    BY DEF Init, SessionInit, SwitchInit, ServedInv, has_started
  <1>2. SessionInv /\ ServedInv /\ [Next]_vars => ServedInv'
    <2> SUFFICES ASSUME SessionInv, ServedInv, [Next]_vars PROVE ServedInv'
      OBVIOUS
    <2>1. CASE UNCHANGED vars
      <3>1. /\ UNCHANGED <<pc, pending, ready, m_binit, m_bstart, m_bstop, m_sessions>>
        BY <2>1 DEF vars, session_vars, asio_vars, switch, stream_vars
      <3>0. late' = late
        BY <2>1 DEF vars, session_vars, stream_vars, history
      <3> QED
        BY <3>0, <3>1 DEF ServedInv, Hears, Forgets, has_started, Top
    <2>2. CASE Next
      <3>1. Kinds
        BY <2>2, StepKinds
      <3>2. Io \in Threads
        BY DEF Threads
      <3>3. CASE Shared
        BY <3>2, <3>3, HandlersServed, ThreadsServed, ClosesServed, OthersServed DEF Shared
      <3> QED
        BY <3>1, <3>3, HandlersServed, SwitchesServed, OthersServed DEF Kinds
    <2> QED
      BY <2>1, <2>2
  <1> QED
    BY <1>1, <1>2, SessionInvHolds, PTL DEF Spec

\* A session that has started never goes deaf, however the threads that write, close and
\* connect it interleave with its io thread, unless a stop came between the loads and the
\* compare_exchange of start() or between the stores of a reset().
THEOREM SessionsHear ==
  Spec => []NeverDeaf
  <1>1. SessionInv /\ ServedInv => NeverDeaf
    <2> SUFFICES ASSUME SessionInv, Hears
                 PROVE  \/ Outstanding("read") > 0
                        \/ \E i \in DOMAIN ready : ready[i].op = "read"
                        \/ \E t \in Threads : \E i \in DOMAIN pc[t] :
                             pc[t][i] \in {"read", "after_read", "stop", "close"} \cup Resets
      BY DEF NeverDeaf, ServedInv
    <2>1. pending \in Seq(Transfers \cup Stages)
      BY DEF SessionInv, TypeInv, TypeOK, AsioTypeOK
    <2>2. ~None(pending, {"read"}) => Outstanding("read") > 0
      BY <2>1, CountSome DEF Outstanding
    <2>3. ~None(ready, Tokens({"read"})) => \E i \in DOMAIN ready : ready[i].op = "read"
      BY DEF None, Tokens
    <2>4. \A t \in Threads : ~None(pc[t], Hearing) =>
            \E i \in DOMAIN pc[t] : pc[t][i] \in {"read", "after_read", "stop", "close"} \cup Resets
      BY DEF None, Hearing
    <2> QED
      BY <2>2, <2>3, <2>4 DEF Hears
  <1> QED
    BY <1>1, SessionInvHolds, SessionsAreServed, PTL

\* A session that is in the server's map and is not initialised is about to start, or the
\* thread that has closed it is about to take it out.
THEOREM ClosedLeaveTheMap ==
  Spec => []ClosedIsForgotten
  <1>1. ServedInv => ClosedIsForgotten
    <2>1. ~None(ready, Tokens({"start"})) => \E i \in DOMAIN ready : ready[i].op = "start"
      BY DEF None, Tokens
    <2> QED
      BY <2>1 DEF ServedInv, Forgets, ClosedIsForgotten
  <1> QED
    BY <1>1, SessionsAreServed, PTL

------------------------------------------------------------------------------
(* The sessions implement the channel                                      *)

Queued == m_current_send_msg \o FlattenSeq(m_write_buf)
Opened == has_started /\ ~Locked
Unseen == Opened' = Opened /\ Queued' = Queued

\* Only close() takes the mutex for longer than a step, and gives it back.
LEMMA LockKept ==
  ASSUME TypeInv, NEW t \in Threads, NEW places,
         \/ pc' = pc
         \/ /\ Goto(t, places) /\ pc[t] # <<>> /\ Top(t) \notin Resets
            /\ \/ places \in {<<>>, <<"close">>}
               \/ places = <<"read">> /\ t = Io /\ Top(Io) = "after_read"
         \/ InUserCode(t) /\ Call(t, <<"stop">>)
         \/ /\ pc[Io] = <<>> /\ Call(Io, places)
            /\ places \in {<<>>, <<"stop">>, <<"close">>, <<"read_cbk", "after_read">>, <<"release">>,
                           <<"write_cbk", "release">>, <<"start">>}
         \/ /\ Top(Io) = "start" /\ Goto(Io, places)
            /\ places \in {<<>>, <<"close">>, <<"read", "open_cbk">>}
  PROVE  Locked' = Locked
  <1>1. CASE pc' = pc
    BY <1>1 DEF Locked, Top
  <1>2. CASE /\ Goto(t, places) /\ pc[t] # <<>> /\ Top(t) \notin Resets
             /\ \/ places \in {<<>>, <<"close">>}
                \/ places = <<"read">> /\ t = Io /\ Top(Io) = "after_read"
    <2>1. /\ \A s \in Threads : s # t => Top(s)' = Top(s)
          /\ Top(t)' \in IF places = <<>> THEN Callbacks \cup Rests \cup {"out"} ELSE {Head(places)}
      BY <1>2, GotoKeeps
    <2>2. Top(t)' \in Callbacks \cup Rests \cup {"out", "close", "read"}
      BY <1>2, <2>1
    <2> QED
      BY <1>2, <2>1, <2>2 DEF Locked, Resets, Callbacks, Rests
  <1>3. CASE InUserCode(t) /\ Call(t, <<"stop">>)
    <2>1. /\ \A s \in Threads : s # t => Top(s)' = Top(s)
          /\ Top(t) \in Callbacks \cup {"out"} /\ Top(t)' = "stop"
      BY <1>3, CallKeeps
    <2> QED
      BY <2>1 DEF Locked, Resets, Callbacks
  <1>4. CASE /\ pc[Io] = <<>> /\ Call(Io, places)
             /\ places \in {<<>>, <<"stop">>, <<"close">>, <<"read_cbk", "after_read">>, <<"release">>,
                            <<"write_cbk", "release">>, <<"start">>}
    <2>1. /\ \A s \in Threads : s # Io => Top(s)' = Top(s)
          /\ Top(Io)' = IF places = <<>> THEN "out" ELSE Head(places)
      BY <1>4, TakeKeeps
    <2>2. /\ Top(Io) = "out"
          /\ Top(Io)' \in {"out", "stop", "close", "read_cbk", "release", "write_cbk", "start"}
      BY <1>4, <2>1 DEF Top
    <2> QED
      BY <2>1, <2>2 DEF Locked, Resets
  <1>5. CASE /\ Top(Io) = "start" /\ Goto(Io, places)
             /\ places \in {<<>>, <<"close">>, <<"read", "open_cbk">>}
    <2>1. /\ \A s \in Threads : s # Io => Top(s)' = Top(s)
          /\ Top(Io)' = IF places = <<>> THEN "out" ELSE Head(places)
      BY <1>5, SwitchKeeps
    <2>2. Top(Io)' \in {"out", "close", "read"}
      BY <1>5, <2>1
    <2> QED
      BY <1>5, <2>1, <2>2 DEF Locked, Resets
  <1> QED
    BY <1>1, <1>2, <1>3, <1>4, <1>5

\* A step that leaves the switch and the buffers alone, and the mutex, is not seen.
LEMMA UnseenSteps ==
  UNCHANGED <<switch, buffer>> /\ Locked' = Locked => Unseen
  BY DEF Unseen, Opened, has_started, switch, buffer, Queued

\* A piece has been added to the buffer, and is sent at once when nothing else is.
LEMMA EnqueuedAccepts ==
  ASSUME TypeInv, NEW piece \in 1 .. MaxPieces,
         NEW buf \in Seq(Seq(1 .. MaxPieces)), buf # <<>>, NEW len, Enqueued(buf, len),
         FlattenSeq(buf) = Append(FlattenSeq(m_write_buf), piece)
  PROVE  Queued' = Append(Queued, piece)
  <1> DEFINE T == 1 .. MaxPieces
             waits == FlattenSeq(m_write_buf)
  <1>1. m_current_send_msg \in Seq(T) /\ m_write_buf \in Seq(Seq(T))
    BY DEF TypeInv, TypeOK
  <1>2. waits \in Seq(T)
    BY <1>1, FlattenType
  <1>3. CASE m_current_send_msg # <<>>
    <2>1. m_write_buf' = buf /\ m_current_send_msg' = m_current_send_msg
      BY <1>3 DEF Enqueued
    <2>2. Queued' = m_current_send_msg \o Append(waits, piece)
      BY <2>1 DEF Queued
    <2> HIDE DEF waits
    <2>3. m_current_send_msg \o Append(waits, piece) = Append(m_current_send_msg \o waits, piece)
      BY <1>1, <1>2
    <2> QED
      BY <2>2, <2>3 DEF Queued, waits
  <1>4. CASE m_current_send_msg = <<>>
    <2>1. m_current_send_msg' = Head(buf) /\ m_write_buf' = Tail(buf)
      BY <1>4 DEF Enqueued, SendFront
    <2>2. Queued' = FlattenSeq(buf)
      BY <2>1, FlattenHead DEF Queued
    <2>3. Queued = waits
      <3> HIDE DEF waits
      <3>1. <<>> \o waits = waits
        BY <1>2
      <3> QED
        BY <1>4, <3>1 DEF Queued, waits
    <2> QED
      BY <2>2, <2>3
  <1> QED
    BY <1>3, <1>4

\* write and write_tail accept a piece at the end of the queue.
LEMMA WritesAccept ==
  ASSUME SessionInv, NEW t \in Threads, Write(t) \/ WriteTail(t)
  PROVE  Link!Next
  <1> DEFINE T == 1 .. MaxPieces
             piece == pieces'
             added == append(m_write_buf, piece)
  <1>1. MayWrite(t) /\ TypeInv /\ m_write_buf \in Seq(Seq(T)) /\ pieces \in 0 .. MaxPieces
    BY DEF Write, WriteTail, SessionInv, TypeInv, TypeOK
  <1>2. Opened /\ Opened' /\ pieces < MaxPieces /\ pieces' = pieces + 1
    <2>1. Locked' = Locked
      BY <1>1 DEF MayWrite, Locked, Top
    <2> QED
      BY <1>1, <2>1 DEF MayWrite, switch, has_started, Opened
  <1>3. piece \in T
    BY <1>1, <1>2, StreamAssumption
  <1> HIDE DEF piece
  <1>4. <<piece>> \in Seq(T)
    BY <1>3
  <1>5. added \in Seq(Seq(T)) /\ added # <<>>
    BY <1>1, <1>4 DEF append
  <1>6. FlattenSeq(added) = Append(FlattenSeq(m_write_buf), piece)
    <2> DEFINE waits == FlattenSeq(m_write_buf)
    <2>1. FlattenSeq(added) = waits \o <<piece>>
      BY <1>1, <1>4, FlattenAppend DEF append
    <2>2. waits \in Seq(T)
      BY <1>1, FlattenType
    <2> HIDE DEF waits
    <2>3. waits \o <<piece>> = Append(waits, piece)
      BY <1>3, <2>2
    <2> QED
      BY <2>1, <2>3 DEF waits
  <1>7. Queued' = Append(Queued, piece)
    <2> HIDE DEF added
    <2>1. CASE Write(t)
      <3>1. Enqueued(added, Longer)
        BY <2>1 DEF Write, added, piece
      <3> QED
        BY <1>1, <1>3, <1>5, <1>6, <3>1, EnqueuedAccepts
    <2>2. CASE WriteTail(t) /\ ~ExtendsTail(m_write_buf)
      <3>1. Enqueued(added, Longer)
        BY <2>2 DEF WriteTail, append_tail, added, piece
      <3> QED
        BY <1>1, <1>3, <1>5, <1>6, <3>1, EnqueuedAccepts
    <2>3. CASE WriteTail(t) /\ ExtendsTail(m_write_buf)
      <3> DEFINE n == Len(m_write_buf)
                 longer == [m_write_buf EXCEPT ![n] = Append(@, piece)]
      <3>1. Enqueued(longer, m_all_len)
        BY <2>3 DEF WriteTail, append_tail, piece
      <3>2. m_write_buf # <<>>
        BY <2>3 DEF ExtendsTail
      <3>3. n \in 1 .. Len(m_write_buf) /\ m_write_buf[n] \in Seq(T)
        BY <1>1, <3>2
      <3>4. longer \in Seq(Seq(T)) /\ longer # <<>>
        BY <1>1, <1>3, <3>3
      <3>5. FlattenSeq(longer) = Append(FlattenSeq(m_write_buf), piece)
        BY <1>1, <1>3, <3>2, FlattenExtend
      <3> HIDE DEF longer
      <3> QED
        BY <1>1, <1>3, <3>1, <3>4, <3>5, EnqueuedAccepts
    <2> QED
      BY <2>1, <2>2, <2>3
  <1>8. Link!Accept
    BY <1>2, <1>3, <1>7 DEF Link!Accept, Queued, Opened
  <1> QED
    BY <1>8 DEF Link!Next

\* What has been sent leaves the front of the queue.
LEMMA ReleaseDelivers ==
  ASSUME SessionInv, ReleaseSent
  PROVE  Link!Next \/ Unseen
  <1> DEFINE T == 1 .. MaxPieces
             waits == FlattenSeq(m_write_buf)
             n == Len(m_current_send_msg)
  <1>1. m_current_send_msg \in Seq(T) /\ m_write_buf \in Seq(Seq(T))
    BY DEF SessionInv, TypeInv, TypeOK
  <1>2. waits \in Seq(T)
    BY <1>1, FlattenType
  <1>3. Opened' = Opened
    <2>1. /\ Io \in Threads /\ TypeInv /\ pc[Io] # <<>> /\ Top(Io) \notin Resets
          /\ Goto(Io, <<>>) /\ UNCHANGED switch
      BY DEF ReleaseSent, Return, SessionInv, Top, Resets, Threads
    <2>2. Locked' = Locked
      BY <2>1, LockKept
    <2> QED
      BY <2>1, <2>2 DEF switch, has_started, Opened
  <1>4. Queued' = waits
    <2>1. CASE m_write_buf = <<>> /\ m_current_send_msg' = <<>> /\ UNCHANGED m_write_buf
      <3>1. Queued' = <<>> \o <<>> /\ waits = <<>>
        BY <2>1, FlattenShort DEF Queued
      <3> QED
        BY <3>1
    <2>2. CASE m_write_buf # <<>> /\ SendFront(m_write_buf, m_all_len)
      <3>1. m_current_send_msg' = Head(m_write_buf) /\ m_write_buf' = Tail(m_write_buf)
        BY <2>2 DEF SendFront
      <3> QED
        BY <1>1, <2>2, <3>1, FlattenHead DEF Queued
    <2> QED
      BY <2>1, <2>2 DEF ReleaseSent
  <1>5. Queued = m_current_send_msg \o waits
    BY DEF Queued
  <1> HIDE DEF waits
  <1>6. CASE m_current_send_msg = <<>>
    <2>1. <<>> \o waits = waits
      BY <1>2
    <2> QED
      BY <1>3, <1>4, <1>5, <1>6, <2>1 DEF Unseen
  <1>7. CASE m_current_send_msg # <<>>
    <2> DEFINE q == m_current_send_msg \o waits
    <2>1. n \in 1 .. Len(q) /\ SubSeq(q, n + 1, Len(q)) = waits
      BY <1>1, <1>2, <1>7
    <2> HIDE DEF q
    <2>2. Link!Deliver
      BY <1>3, <1>4, <1>5, <2>1 DEF Link!Deliver, Queued, Opened, q
    <2> QED
      BY <2>2 DEF Link!Next
  <1> QED
    BY <1>6, <1>7

\* The first steps of a life open the channel, with nothing in its queue.
LEMMA StartsOpen ==
  ASSUME SessionInv, ~(m_binit /\ m_bstart), UNCHANGED buffer, Locked' = Locked
  PROVE  Link!Next \/ Unseen
  <1>1. ~has_started /\ Queued' = Queued
    BY DEF has_started, buffer, Queued
  <1>2. ASSUME Locked PROVE Unseen
    BY <1>1, <1>2 DEF Unseen, Opened
  <1>3. ASSUME ~Locked, has_started' PROVE Link!Open
    <2>1. m_current_send_msg = <<>> /\ m_write_buf = <<>>
      BY <1>3 DEF SessionInv, IdleInv
    <2>2. Queued = <<>>
      <3>1. Queued = <<>> \o <<>>
        BY <2>1, FlattenShort DEF Queued
      <3> QED
        BY <3>1
    <2> QED
      BY <1>1, <1>3, <2>2 DEF Link!Open, Queued
  <1>4. ASSUME ~has_started' PROVE Unseen
    BY <1>1, <1>4 DEF Unseen, Opened
  <1> QED
    BY <1>2, <1>3, <1>4 DEF Link!Next

\* stop closes the channel, and close drops what has not been delivered.
LEMMA StopsClose ==
  ASSUME SessionInv, NEW t \in Threads,
         Stop(t) \/ Close(t) \/ ResetStart(t) \/ ResetStop(t) \/ ResetInit(t)
  PROVE  Link!Next \/ Unseen
  <1> USE DEF switch, stream_vars
  <1>1. CASE Stop(t)
    <2>1. Queued' = Queued
      BY <1>1 DEF Stop, buffer, Queued
    <2>2. CASE m_bstop
      <3>1. /\ TypeInv /\ Goto(t, <<>>) /\ pc[t] # <<>> /\ Top(t) \notin Resets
            /\ UNCHANGED switch
        BY <1>1, <2>2 DEF Stop, Return, SessionInv, Top, Resets
      <3>2. Locked' = Locked
        BY <3>1, LockKept
      <3> QED
        BY <2>1, <3>1, <3>2 DEF Unseen, Opened, has_started
    <2>3. CASE ~m_bstop
      <3>1. ~has_started'
        BY <1>1, <2>3 DEF Stop, StopCas, has_started
      <3>2. Link!Close
        BY <2>1, <3>1 DEF Link!Close, Queued
      <3> QED
        BY <3>2 DEF Link!Next
    <2> QED
      BY <2>2, <2>3
  <1>2. CASE Close(t) \/ ResetStart(t) \/ ResetStop(t)
    <2>1. PICK places \in {<<"reset_start">>, <<"reset_stop">>, <<"reset_init">>} :
            Top(t) \in {"close"} \cup Resets /\ Goto(t, places) /\ UNCHANGED buffer
      <3>1. CASE Close(t)
        BY <3>1 DEF Close
      <3>2. CASE ResetStart(t) \/ ResetStop(t)
        BY <3>2 DEF ResetStart, ResetStop, Resets
      <3> QED
        BY <1>2, <3>1, <3>2
    <2>2. Top(t)' = Head(places)
      BY <2>1, ClosingKeeps DEF SessionInv
    <2>3. Locked'
      BY <2>1, <2>2 DEF Locked, Resets
    <2>4. Link!Close
      BY <2>1, <2>3 DEF Link!Close, buffer
    <2> QED
      BY <2>4 DEF Link!Next
  <1>3. CASE ResetInit(t)
    <2>1. ~has_started' /\ m_current_send_msg' = <<>> /\ m_write_buf' = <<>>
      BY <1>3 DEF ResetInit, StoreInit, ClearBuffers, has_started
    <2>2. Queued' = <<>>
      <3>1. Queued' = <<>> \o <<>>
        BY <2>1, FlattenShort DEF Queued
      <3> QED
        BY <3>1
    <2>3. Link!Close
      BY <2>1, <2>2 DEF Link!Close, Queued
    <2> QED
      BY <2>3 DEF Link!Next
  <1> QED
    BY <1>1, <1>2, <1>3

\* Every step of a session is a step of the channel or leaves it alone.
LEMMA StepsOfChannel ==
  ASSUME SessionInv, Kinds
  PROVE  Link!Next \/ Unseen
  <1> USE DEF stream_vars, asio_vars, switch
  <1>1. TypeInv /\ Io \in Threads /\ \A t \in Threads : Top(t) # "out" => pc[t] # <<>>
    BY DEF SessionInv, Threads, Top
  <1>2. ASSUME init \/ UNCHANGED switch, UNCHANGED buffer, Locked' = Locked
        PROVE  Link!Next \/ Unseen
    <2>1. CASE init
      BY <1>2, <2>1, StartsOpen DEF init
    <2> QED
      BY <1>2, <2>1, UnseenSteps
  <1>3. pc' = pc => Locked' = Locked
    BY <1>1, LockKept
  <1>4. ASSUME NEW op, NEW places, Handle(op, places),
               places \in {<<>>, <<"stop">>, <<"close">>, <<"read_cbk", "after_read">>, <<"release">>,
                           <<"write_cbk", "release">>, <<"start">>},
               init \/ UNCHANGED switch
        PROVE  Link!Next \/ Unseen
    <2>1. pc[Io] = <<>> /\ Call(Io, places) /\ UNCHANGED buffer
      BY <1>4 DEF Handle, Handles
    <2>2. Locked' = Locked
      BY <1>1, <1>4, <2>1, LockKept
    <2> QED
      BY <1>2, <1>4, <2>1, <2>2
  <1>5. CASE \E t \in Threads : Write(t) \/ WriteTail(t)
    BY <1>5, WritesAccept
  <1>6. CASE ReleaseSent
    BY <1>6, ReleaseDelivers
  <1>7. CASE \E t \in Threads : Stop(t) \/ Close(t) \/ ResetStart(t) \/ ResetStop(t) \/ ResetInit(t)
    BY <1>7, StopsClose
  <1>8. CASE HandleRead
    <2> DEFINE places == IF Succeeded THEN <<"read_cbk", "after_read">> ELSE Shutdown
    <2>1. /\ Handle("read", places) /\ UNCHANGED switch
          /\ places \in {<<>>, <<"stop">>, <<"read_cbk", "after_read">>}
      BY <1>8 DEF HandleRead, Shutdown
    <2> HIDE DEF places
    <2> QED
      BY <1>4, <2>1
  <1>9. CASE HandleWrite
    <2> DEFINE places == IF ~Succeeded THEN Shutdown
                         ELSE IF has_stoped THEN <<>>
                         ELSE IF m_current_send_msg # <<>> THEN <<"write_cbk", "release">>
                         ELSE <<"release">>
    <2>1. /\ Handle("write", places) /\ UNCHANGED switch
          /\ places \in {<<>>, <<"stop">>, <<"write_cbk", "release">>, <<"release">>}
      BY <1>9 DEF HandleWrite, Shutdown
    <2> HIDE DEF places
    <2> QED
      BY <1>4, <2>1
  <1>10. CASE Opens
    <2>1. PICK op \in Starting \ {"start"}, refused \in {<<>>, <<"close">>} : HandleOpened(op, refused)
      BY <1>10 DEF Opens
    <2> DEFINE places == IF ~Succeeded THEN <<"close">> ELSE IF MayStart THEN <<"start">> ELSE refused
    <2>2. /\ Handle(op, places) /\ UNCHANGED switch
          /\ places \in {<<>>, <<"close">>, <<"start">>}
      BY <2>1 DEF HandleOpened
    <2> HIDE DEF places
    <2> QED
      BY <1>4, <2>2
  <1>11. CASE Starts
    BY <1>4, <1>11 DEF Starts
  <1>12. CASE Switches
    <2>1. PICK refused \in {<<>>, <<"close">>} : Start(refused)
      BY <1>12 DEF Switches
    <2>2. PICK places \in {<<>>, <<"close">>, <<"read", "open_cbk">>} :
            /\ Top(Io) = "start" /\ Goto(Io, places) /\ UNCHANGED buffer
            /\ UNCHANGED switch \/ ~m_bstart
      BY <2>1 DEF Start
    <2>3. Locked' = Locked
      BY <1>1, <2>2, LockKept
    <2> QED
      BY <1>2, <2>2, <2>3, StartsOpen
  <1>13. CASE \/ AfterRead \/ Read
              \/ \E t \in Threads : RemoveSession(t) \/ CallbackReturns(t)
    <2>1. PICK t \in Threads, places \in {<<>>, <<"read">>} :
            /\ Top(t) \in {"after_read", "read", "remove_session"} \cup Callbacks
            /\ places = <<"read">> => t = Io /\ Top(Io) = "after_read"
            /\ Goto(t, places) /\ UNCHANGED <<switch, buffer>>
      BY <1>1, <1>13 DEF AfterRead, Read, RemoveSession, CallbackReturns, Return
    <2>2. Top(t) \notin Resets /\ pc[t] # <<>>
      BY <1>1, <2>1 DEF Resets, Callbacks
    <2>3. Locked' = Locked
      BY <1>1, <2>1, <2>2, LockKept
    <2> QED
      BY <1>2, <2>1, <2>3
  <1>14. CASE \E t \in Threads : CallShutdown(t)
    <2>1. PICK t \in Threads : InUserCode(t) /\ Call(t, <<"stop">>) /\ UNCHANGED <<switch, buffer>>
      BY <1>14 DEF CallShutdown, Reachable
    <2>2. Locked' = Locked
      BY <1>1, <2>1, LockKept
    <2> QED
      BY <1>2, <2>1, <2>2
  <1>15. CASE Environment \/ DropSessions \/ Connects \/ TimeOut \/ TimedOut \/ AcceptsTcp
              \/ \E op \in Starting \ {"start"} : Accepts(op)
    <2>1. UNCHANGED <<buffer, pc>> /\ (init \/ UNCHANGED switch)
      BY <1>15 DEF Environment, Settles, Arrives, Completes, DropSessions, Connects, ConnectsTcp,
                   ConnectsWs, ConnectsWss, MayConnect, TimeOut, TimedOut, AcceptsTcp, Accepts, Accepted
    <2> QED
      BY <1>2, <1>3, <2>1
  <1>16. CASE Goes \/ HandleResolved \/ Secures
    <2>1. \/ pc' = pc
          \/ pc[Io] = <<>> /\ \E places \in {<<"close">>} : Call(Io, places)
      BY <1>16 DEF Goes, HandleStage, HandleResolved, Secures, Handle, Handles
    <2>2. UNCHANGED buffer /\ (init \/ UNCHANGED switch)
      BY <1>16 DEF Goes, HandleStage, HandleResolved, Secures, Handle
    <2>3. Locked' = Locked
      BY <1>1, <2>1, LockKept
    <2> QED
      BY <1>2, <2>2, <2>3
  <1> QED
    BY <1>5, <1>6, <1>7, <1>8, <1>9, <1>10, <1>11, <1>12, <1>13, <1>14, <1>15, <1>16
       DEF Kinds, Shared

\* A session of every class implements the channel: what has been accepted is delivered in
\* that order and at most once, and a connection opens with nothing left from the one before.
THEOREM SessionsImplementChannel ==
  Spec => SessionIsChannel
  <1>1. Init => Link!Init
    <2> SUFFICES ASSUME Init PROVE Link!Init
      OBVIOUS
    <2>1. m_current_send_msg = <<>> /\ m_write_buf = <<>> /\ ~has_started
      BY DEF Init, SessionInit, SwitchInit, has_started
    <2>2. m_current_send_msg \o FlattenSeq(m_write_buf) = <<>>
      <3>1. m_current_send_msg \o FlattenSeq(m_write_buf) = <<>> \o <<>>
        BY <2>1, FlattenShort
      <3> QED
        BY <3>1
    <2> QED
      BY <2>1, <2>2 DEF Link!Init
  <1>2. SessionInv /\ [Next]_vars =>
          [Link!Next]_<<has_started /\ ~Locked, m_current_send_msg \o FlattenSeq(m_write_buf)>>
    <2> SUFFICES ASSUME SessionInv, [Next]_vars
                 PROVE  Link!Next \/ Unseen
      BY DEF Queued, Opened, Unseen
    <2>1. CASE UNCHANGED vars
      <3>1. UNCHANGED <<switch, buffer, pc>>
        BY <2>1 DEF vars, session_vars, asio_vars, stream_vars
      <3>2. Locked' = Locked
        BY <3>1 DEF Locked, Top
      <3> QED
        BY <3>1, <3>2, UnseenSteps
    <2>2. CASE Next
      BY <2>2, StepKinds, StepsOfChannel
    <2> QED
      BY <2>1, <2>2
  <1> QED
    BY <1>1, <1>2, SessionInvHolds, PTL DEF Spec, SessionIsChannel, Link!Spec
==============================================================================
