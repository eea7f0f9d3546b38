---------------------------- MODULE AtomicSwitch ----------------------------
(***************************************************************************)
(* BTool::AtomicSwitch (atomic_switch.hpp), the three atomic flags with    *)
(* which a session or a manager starts and stops at most once.  start()    *)
(* and stop() are two steps each, the loads (MayStart, MayStop) and then   *)
(* the compare_exchange, and reset() is three, a store each, in the order  *)
(* in which they are defined here.                                         *)
(***************************************************************************)
VARIABLES m_binit, m_bstart, m_bstop

switch == <<m_binit, m_bstart, m_bstop>>

SwitchTypeOK == switch \in BOOLEAN \X BOOLEAN \X BOOLEAN
SwitchInit == m_binit = FALSE /\ m_bstart = FALSE /\ m_bstop = FALSE

init == ~m_binit /\ m_binit' = TRUE /\ UNCHANGED <<m_bstart, m_bstop>>

MayStart == ~m_bstop /\ m_binit
StartCas == ~m_bstart /\ m_bstart' = TRUE /\ UNCHANGED <<m_binit, m_bstop>>

MayStop == m_binit /\ m_bstart
StopCas == ~m_bstop /\ m_bstop' = TRUE /\ UNCHANGED <<m_binit, m_bstart>>

StoreStart == m_bstart' = FALSE /\ UNCHANGED <<m_binit, m_bstop>>
StoreStop  == m_bstop' = FALSE /\ UNCHANGED <<m_binit, m_bstart>>
StoreInit  == m_binit' = FALSE /\ UNCHANGED <<m_bstart, m_bstop>>

has_init == m_binit
has_started == ~m_bstop /\ m_bstart /\ m_binit
has_stoped == ~m_binit \/ ~m_bstart \/ m_bstop
=============================================================================
