--------------------------- MODULE Desktop_proofs ---------------------------
(***************************************************************************)
(* Proofs about the modules of the desktop application that have no store, *)
(* and about the records it exchanges.                                     *)
(* DesktopAuth: for any number of overlapping polls and of authorization   *)
(* flows.                                                                  *)
(* TorrentTransfers: the gateway answers every Range header with exactly   *)
(* the bytes it asks for, whatever the lengths of the files and whatever   *)
(* the headers: the run of MCApplications checks files of a few bytes. No  *)
(* two files of a managed torrent collide, whatever paths the metainfo     *)
(* declares; that comparing neighbours of the sorted paths is enough is    *)
(* proved of the order itself.                                             *)
(* CatalogRecords: whatever strings, subjects, sources and objects are in  *)
(* two records of a schema, with the same canonical bytes they agree in    *)
(* every field the ID covers.                                              *)
(***************************************************************************)
EXTENDS DesktopAuth, TorrentTransfers, CatalogRecords, FiniteSetTheorems, SequenceTheorems,
        WellFoundedInduction, TLAPS

(* DesktopAuth *)

\* A poll that works on a flow holds auth_flow, and the flow is still in it.
PollInv ==
    \A p \in Polls :
        poll[p].pc \in {"try", "store"} =>
            /\ flowLock = p
            /\ poll[p].flow = flow /\ flow # 0

\* Where sign_out and start_auth stand: between its two locks sign_out leaves
\* auth_flow empty, and a flow about to be installed is newer than any sign_out.
SignOutInv ==
    /\ command.pc = "session" => flow = 0 /\ command.before <= flows
    /\ command.pc = "install" => command.flow \notin signedOut

\* What sign_out ended: flows already started, and none of them is still in place.
EndedInv ==
    /\ signedOut \subseteq 1..flows
    /\ flow \notin signedOut

\* The inductive invariant. SignedOutStaysOut alone is not inductive: a poll in
\* "store" might hold any flow, were it not for the guard it holds.
AuthInv == AuthTypeOK /\ PollInv /\ SignOutInv /\ EndedInv /\ SignedOutStaysOut
-----------------------------------------------------------------------------
LEMMA IdleTypes == IdlePoll \in PollState /\ IdleCommand \in CommandState
  BY MaxFlowsAssumption DEF IdlePoll, PollState, OptionFlow, IdleCommand, CommandState

LEMMA AuthInit_Inv == AuthInit => AuthInv
<1> SUFFICES ASSUME AuthInit PROVE AuthInv
  OBVIOUS
<1>1. AuthTypeOK
  BY IdleTypes, MaxFlowsAssumption DEF AuthInit, AuthTypeOK, OptionFlow, Flow
<1>2. PollInv /\ SignOutInv /\ EndedInv /\ SignedOutStaysOut
  BY DEF AuthInit, PollInv, SignOutInv, EndedInv, SignedOutStaysOut, IdlePoll, IdleCommand
<1> QED
  BY <1>1, <1>2 DEF AuthInv

\* Types hold step by step, independently of the rest.
LEMMA AuthTypes == AuthTypeOK /\ [AuthNext]_authVars => AuthTypeOK'
<1> SUFFICES ASSUME AuthTypeOK, [AuthNext]_authVars PROVE AuthTypeOK'
  OBVIOUS
<1> USE IdleTypes, MaxFlowsAssumption DEF AuthTypeOK, Flow, OptionFlow
<1>1. ASSUME NEW p \in Polls, PollTick(p) PROVE AuthTypeOK'
  <2>1. [IdlePoll EXCEPT !.pc = "lock"] \in PollState
    BY DEF PollState, IdlePoll
  <2> QED
    BY <1>1, <2>1 DEF PollTick
<1>2. ASSUME NEW p \in Polls, PollLock(p) PROVE AuthTypeOK'
  <2>1. [poll[p] EXCEPT !.pc = "return", !.answer = Status] \in PollState
    BY DEF PollState, Status
  <2>2. [poll[p] EXCEPT !.pc = "try", !.flow = flow] \in PollState
    BY DEF PollState
  <2> QED
    BY <1>2, <2>1, <2>2 DEF PollLock
<1>3. ASSUME NEW p \in Polls, NEW answer \in {"out", "error"}, PollNothing(p, answer)
      PROVE  AuthTypeOK'
  <2>1. [poll[p] EXCEPT !.pc = "return", !.answer = answer] \in PollState
    BY DEF PollState
  <2> QED
    BY <1>3, <2>1 DEF PollNothing
<1>4. ASSUME NEW p \in Polls, PollGrant(p) PROVE AuthTypeOK'
  <2>1. [poll[p] EXCEPT !.pc = "store"] \in PollState
    BY DEF PollState
  <2>2. poll' \in [Polls -> PollState]
    BY <1>4, <2>1 DEF PollGrant
  <2>3. consumed' \subseteq Flow
    BY <1>4 DEF PollGrant
  <2> QED
    BY <1>4, <2>2, <2>3 DEF PollGrant
<1>5. ASSUME NEW p \in Polls, PollStore(p) PROVE AuthTypeOK'
  <2>1. [poll[p] EXCEPT !.pc = "clear"] \in PollState /\ poll[p].flow \in OptionFlow
    BY DEF PollState
  <2> QED
    BY <1>5, <2>1 DEF PollStore
<1>6. ASSUME NEW p \in Polls, PollClear(p) PROVE AuthTypeOK'
  <2>1. [poll[p] EXCEPT !.pc = "return", !.answer = "in"] \in PollState
    BY DEF PollState
  <2> QED
    BY <1>6, <2>1 DEF PollClear
<1>7. ASSUME NEW p \in Polls, PollReturn(p) PROVE AuthTypeOK'
  <2>1. ui' \in [auth : BOOLEAN, url : OptionFlow]
    <3>1. CASE poll[p].answer = "in"
      BY <1>7, <3>1 DEF PollReturn
    <3>2. CASE poll[p].answer = "out"
      BY <1>7, <3>2 DEF PollReturn
    <3>3. CASE poll[p].answer \notin {"in", "out"}
      BY <1>7, <3>3 DEF PollReturn
    <3> QED
      BY <3>1, <3>2, <3>3
  <2>2. poll' \in [Polls -> PollState]
    BY <1>7 DEF PollReturn
  <2> QED
    BY <1>7, <2>1, <2>2 DEF PollReturn
<1>8. CASE StartAuth
  <2>1. [IdleCommand EXCEPT !.pc = "install", !.flow = flows + 1] \in CommandState
    <3>1. flows + 1 \in 0..MaxFlows
      BY <1>8 DEF StartAuth
    <3> QED
      BY <3>1 DEF CommandState, IdleCommand
  <2> QED
    BY <1>8, <2>1 DEF StartAuth
<1>9. CASE StartOver
  BY <1>9 DEF StartOver
<1>10. CASE StartInstall
  BY <1>10 DEF StartInstall, CommandState
<1>11. CASE StartReturn
  BY <1>11 DEF StartReturn, CommandState
<1>12. CASE SignOut
  <2>1. [IdleCommand EXCEPT !.pc = "flow"] \in CommandState
    BY DEF CommandState, IdleCommand
  <2> QED
    BY <1>12, <2>1 DEF SignOut
<1>13. CASE SignOutFlow
  <2>1. [command EXCEPT !.pc = "session", !.before = flows] \in CommandState
    BY DEF CommandState
  <2> QED
    BY <1>13, <2>1 DEF SignOutFlow
<1>14. CASE SignOutSession
  <2>1. [command EXCEPT !.pc = "status"] \in CommandState /\ command.before \in OptionFlow
    BY DEF CommandState
  <2>2. 1..command.before \subseteq 1..MaxFlows
    BY <2>1
  <2> QED
    BY <1>14, <2>1, <2>2 DEF SignOutSession
<1>15. CASE SignOutReturn
  BY <1>15 DEF SignOutReturn
<1>16. ASSUME NEW f \in Flow, Approve(f) PROVE AuthTypeOK'
  BY <1>16 DEF Approve
<1>17. CASE UNCHANGED authVars
  BY <1>17 DEF authVars
<1> QED
  BY <1>1, <1>2, <1>3, <1>4, <1>5, <1>6, <1>7, <1>8, <1>9, <1>10, <1>11, <1>12, <1>13,
     <1>14, <1>15, <1>16, <1>17 DEF AuthNext
-----------------------------------------------------------------------------
\* One step of any of the actors keeps the guards, the commands and the ended flows.
LEMMA AuthNext_Inv == AuthInv /\ [AuthNext]_authVars => AuthInv'
<1> SUFFICES ASSUME AuthInv, [AuthNext]_authVars PROVE AuthInv'
  OBVIOUS
<1>t. AuthTypeOK'
  BY AuthTypes DEF AuthInv
<1> SUFFICES PollInv' /\ SignOutInv' /\ EndedInv' /\ SignedOutStaysOut'
  BY <1>t DEF AuthInv
<1> USE MaxFlowsAssumption, NoPollAssumption DEF AuthInv
<1>n. /\ flows \in Nat /\ flow \in Nat /\ session \in Nat
      /\ command.before \in Nat /\ command.flow \in Nat
  BY DEF AuthTypeOK, OptionFlow, CommandState
<1>p. poll \in [Polls -> PollState]
  BY DEF AuthTypeOK
\* A poll that does not enter "try" or "store" only has to leave the others alone.
<1>1. ASSUME NEW p \in Polls, PollTick(p) PROVE AuthInv'
  <2>1. PollInv'
    BY <1>1, <1>p DEF PollTick, PollInv, IdlePoll
  <2> QED
    BY <1>1, <1>t, <2>1 DEF PollTick, SignOutInv, EndedInv, SignedOutStaysOut
<1>2. ASSUME NEW p \in Polls, PollLock(p) PROVE AuthInv'
  <2>1. PollInv'
    <3>1. \A q \in Polls : poll[q].pc \notin {"try", "store"}
      BY <1>2 DEF PollLock, PollInv
    <3>2. \A q \in Polls \ {p} : poll'[q] = poll[q]
      BY <1>2, <1>p DEF PollLock
    <3>3. CASE flow = 0
      BY <1>2, <1>p, <3>1, <3>2, <3>3 DEF PollLock, PollInv, PollState
    <3>4. CASE flow # 0
      <4>1. flowLock' = p /\ flow' = flow
        BY <1>2, <3>4 DEF PollLock
      <4>2. poll'[p].flow = flow
        <5>1. poll' = [poll EXCEPT ![p] = [poll[p] EXCEPT !.pc = "try", !.flow = flow]]
          BY <1>2, <3>4 DEF PollLock
        <5>2. [poll[p] EXCEPT !.pc = "try", !.flow = flow].flow = flow
          BY <1>p DEF PollState
        <5> QED
          BY <1>p, <5>1, <5>2
      <4> QED
        BY <3>1, <3>2, <3>4, <4>1, <4>2 DEF PollInv
    <3> QED
      BY <3>3, <3>4
  <2> QED
    BY <1>2, <1>t, <2>1 DEF PollLock, SignOutInv, EndedInv, SignedOutStaysOut
\* Only the holder of the guard lets go of it.
<1>3. ASSUME NEW p \in Polls, NEW answer \in {"out", "error"}, PollNothing(p, answer)
      PROVE  AuthInv'
  <2>1. PollInv'
    <3>1. \A q \in Polls \ {p} : poll[q].pc \notin {"try", "store"}
      BY <1>3 DEF PollNothing, PollInv
    <3> QED
      BY <1>3, <1>p, <3>1 DEF PollNothing, PollInv, PollState
  <2> QED
    BY <1>3, <1>t, <2>1 DEF PollNothing, SignOutInv, EndedInv, SignedOutStaysOut
<1>4. ASSUME NEW p \in Polls, PollGrant(p) PROVE AuthInv'
  <2>1. PollInv'
    BY <1>4, <1>p DEF PollGrant, PollInv, PollState
  <2> QED
    BY <1>4, <1>t, <2>1 DEF PollGrant, SignOutInv, EndedInv, SignedOutStaysOut
\* The step that matters: the session stored is the flow in place, which no sign_out
\* has ended.
<1>5. ASSUME NEW p \in Polls, PollStore(p) PROVE AuthInv'
  <2>1. session' = flow
    BY <1>5 DEF PollStore, PollInv
  <2>2. PollInv'
    <3>1. \A q \in Polls \ {p} : poll[q].pc \notin {"try", "store"}
      BY <1>5 DEF PollStore, PollInv
    <3> QED
      BY <1>5, <1>p, <3>1 DEF PollStore, PollInv, PollState
  <2> QED
    BY <1>5, <1>t, <2>1, <2>2 DEF PollStore, SignOutInv, EndedInv, SignedOutStaysOut
<1>6. ASSUME NEW p \in Polls, PollClear(p) PROVE AuthInv'
  <2>1. PollInv'
    <3>1. \A q \in Polls : poll[q].pc \notin {"try", "store"}
      BY <1>6 DEF PollClear, PollInv
    <3> QED
      BY <1>6, <1>p, <3>1 DEF PollClear, PollInv, PollState
  <2>2. 0 \notin signedOut
    BY <1>n DEF EndedInv
  <2> QED
    BY <1>6, <1>t, <2>1, <2>2 DEF PollClear, SignOutInv, EndedInv, SignedOutStaysOut
<1>7. ASSUME NEW p \in Polls, PollReturn(p) PROVE AuthInv'
  <2>1. PollInv'
    BY <1>7, <1>p DEF PollReturn, PollInv, IdlePoll
  <2> QED
    BY <1>7, <1>t, <2>1 DEF PollReturn, SignOutInv, EndedInv, SignedOutStaysOut
<1>8. CASE StartAuth
  <2>1. SignOutInv' /\ EndedInv'
    BY <1>8, <1>n DEF StartAuth, SignOutInv, EndedInv, IdleCommand
  <2> QED
    BY <1>8, <1>t, <2>1 DEF StartAuth, PollInv, SignedOutStaysOut
<1>9. CASE StartOver
  BY <1>9, <1>t DEF StartOver, PollInv, SignOutInv, EndedInv, SignedOutStaysOut
<1>10. CASE StartInstall
  <2>1. PollInv'
    BY <1>10 DEF StartInstall, PollInv
  <2>2. command'.pc = "started" /\ flow' \notin signedOut
    BY <1>10 DEF StartInstall, SignOutInv, AuthTypeOK, CommandState
  <2> QED
    BY <1>10, <1>t, <2>1, <2>2 DEF StartInstall, SignOutInv, EndedInv, SignedOutStaysOut
<1>11. CASE StartReturn
  BY <1>11, <1>t DEF StartReturn, PollInv, SignOutInv, EndedInv, SignedOutStaysOut, IdleCommand
<1>12. CASE SignOut
  BY <1>12, <1>t DEF SignOut, PollInv, SignOutInv, EndedInv, SignedOutStaysOut, IdleCommand
<1>13. CASE SignOutFlow
  <2>1. PollInv'
    BY <1>13 DEF SignOutFlow, PollInv
  <2>2. command'.pc = "session" /\ command'.before = flows
    BY <1>13 DEF SignOutFlow, AuthTypeOK, CommandState
  <2>3. 0 \notin signedOut
    BY <1>n DEF EndedInv
  <2> QED
    BY <1>13, <1>n, <1>t, <2>1, <2>2, <2>3
    DEF SignOutFlow, SignOutInv, EndedInv, SignedOutStaysOut
\* Between the two locks no flow is in place, so none of those that end now is polled.
<1>14. CASE SignOutSession
  <2>1. flow = 0 /\ command.before <= flows
    BY <1>14 DEF SignOutSession, SignOutInv
  <2>2. EndedInv'
    BY <1>14, <1>n, <2>1 DEF SignOutSession, EndedInv
  <2>3. command'.pc = "status"
    BY <1>14 DEF SignOutSession, AuthTypeOK, CommandState
  <2> QED
    BY <1>14, <1>t, <2>2, <2>3 DEF SignOutSession, PollInv, SignOutInv, SignedOutStaysOut
<1>15. CASE SignOutReturn
  BY <1>15, <1>t DEF SignOutReturn, PollInv, SignOutInv, EndedInv, SignedOutStaysOut, IdleCommand
<1>16. ASSUME NEW f \in Flow, Approve(f) PROVE AuthInv'
  BY <1>16, <1>t DEF Approve, PollInv, SignOutInv, EndedInv, SignedOutStaysOut
<1>17. CASE UNCHANGED authVars
  BY <1>17, <1>t DEF authVars, PollInv, SignOutInv, EndedInv, SignedOutStaysOut
<1> QED
  BY <1>1, <1>2, <1>3, <1>4, <1>5, <1>6, <1>7, <1>8, <1>9, <1>10, <1>11, <1>12, <1>13,
     <1>14, <1>15, <1>16, <1>17 DEF AuthNext

LEMMA AuthInvHolds == AuthSpec => []AuthInv
  BY AuthInit_Inv, AuthNext_Inv, PTL DEF AuthSpec

\* Every variable of the sign-in model keeps its type (poll_auth, start_auth, sign_out).
THEOREM AuthTypeCorrect == AuthSpec => []AuthTypeOK
<1>1. AuthInv => AuthTypeOK
  BY DEF AuthInv
<1> QED
  BY <1>1, AuthInvHolds, PTL

\* However polls, sign-outs and new authorizations interleave, sign_out is final: no
\* grant of a flow started before it is ever stored as the session after it.
THEOREM SignOutIsFinal == AuthSpec => []SignedOutStaysOut
<1>1. AuthInv => SignedOutStaysOut
  BY DEF AuthInv
<1> QED
  BY <1>1, AuthInvHolds, PTL
-----------------------------------------------------------------------------
(* TorrentTransfers *)

LEMMA LeastNumber ==
    ASSUME NEW T, T \subseteq Nat, T # {}
    PROVE  \E m \in T : \A n \in T : m <= n
<1>. DEFINE Less == OpToRel(<, Nat)
<1>1. IsWellFoundedOn(Less, Nat)
  BY NatLessThanWellFounded
<1>2. \A m, n \in Nat : <<n, m>> \in Less <=> n < m
  BY Zenon DEF OpToRel
<1>. HIDE DEF Less
<1>3. \E m \in T : \A n \in T : ~(<<n, m>> \in Less)
  BY <1>1, WFMin, Zenon
<1>4. \A m, n \in Nat : ~(n < m) => m <= n
  OBVIOUS
<1>. QED  BY <1>2, <1>3, <1>4, Zenon

\* NameBefore and PathBefore are one order, of sequences over what a relation orders.
Lexicographic(R, s, t) ==
    \E n \in 0..Len(s) :
       /\ n < Len(t)
       /\ \A k \in 1..n : s[k] = t[k]
       /\ n = Len(s) \/ <<s[n + 1], t[n + 1]>> \in R
StrictOrder(R, S) ==
    \A s, t, u \in S :
       /\ <<s, s>> \notin R
       /\ <<s, t>> \in R /\ <<t, u>> \in R => <<s, u>> \in R
       /\ s = t \/ <<s, t>> \in R \/ <<t, s>> \in R

LEMMA SameSequence ==
    ASSUME NEW S, NEW s \in Seq(S), NEW t \in Seq(S), Len(s) = Len(t), \A k \in 1..Len(s) : s[k] = t[k]
    PROVE  s = t
  OBVIOUS

LEMMA SequenceLength == ASSUME NEW S, NEW s \in Seq(S) PROVE Len(s) \in Nat
  OBVIOUS

\* What a strict order says of two elements: one is less, and only one.
LEMMA NotBothLess ==
    ASSUME NEW S, NEW R, StrictOrder(R, S), NEW a \in S, NEW b \in S, <<a, b>> \in R
    PROVE  a # b /\ <<b, a>> \notin R
  BY Zenon DEF StrictOrder

LEMMA OneIsLess ==
    ASSUME NEW S, NEW R, StrictOrder(R, S), NEW a \in S, NEW b \in S, a # b
    PROVE  <<a, b>> \in R \/ <<b, a>> \in R
  BY Zenon DEF StrictOrder

LEMMA LexicographicIsTransitive ==
    ASSUME NEW S, NEW R, StrictOrder(R, S), NEW s \in Seq(S), NEW t \in Seq(S), NEW u \in Seq(S),
           Lexicographic(R, s, t), Lexicographic(R, t, u)
    PROVE  Lexicographic(R, s, u)
<1>0. \A a, b, c \in S : <<a, b>> \in R /\ <<b, c>> \in R => <<a, c>> \in R
  BY DEF StrictOrder
<1>1. PICK n \in 0..Len(s) :
        /\ n < Len(t)
        /\ \A k \in 1..n : s[k] = t[k]
        /\ n = Len(s) \/ <<s[n + 1], t[n + 1]>> \in R
  BY DEF Lexicographic
<1>2. PICK m \in 0..Len(t) :
        /\ m < Len(u)
        /\ \A k \in 1..m : t[k] = u[k]
        /\ m = Len(t) \/ <<t[m + 1], u[m + 1]>> \in R
  BY DEF Lexicographic
<1>3. Len(s) \in Nat /\ Len(t) \in Nat /\ Len(u) \in Nat
  OBVIOUS
<1>4. CASE n < m
  <2>1. t[n + 1] = u[n + 1]
    BY <1>2, <1>3, <1>4
  <2>2. n < Len(u) /\ (n = Len(s) \/ <<s[n + 1], u[n + 1]>> \in R)
    BY <1>1, <1>2, <1>3, <1>4, <2>1
  <2>3. \A k \in 1..n : s[k] = u[k]
    BY <1>1, <1>2, <1>3, <1>4
  <2>. QED  BY <2>2, <2>3, Zenon DEF Lexicographic
<1>5. CASE m < n
  <2>1. s[m + 1] = t[m + 1] /\ <<t[m + 1], u[m + 1]>> \in R
    BY <1>1, <1>2, <1>3, <1>5
  <2>2. m \in 0..Len(s)
    BY <1>3, <1>5
  <2>3. \A k \in 1..m : s[k] = u[k]
    BY <1>1, <1>2, <1>3, <1>5
  <2>. QED  BY <1>2, <2>1, <2>2, <2>3, Zenon DEF Lexicographic
<1>6. CASE m = n
  <2>1. <<t[n + 1], u[n + 1]>> \in R /\ t[n + 1] \in S /\ u[n + 1] \in S
    BY <1>1, <1>2, <1>3, <1>6
  <2>2. n # Len(s) => s[n + 1] \in S /\ <<s[n + 1], t[n + 1]>> \in R
    BY <1>1, <1>3
  <2>3. n = Len(s) \/ <<s[n + 1], u[n + 1]>> \in R
    BY <1>0, <2>1, <2>2, Zenon
  <2>4. n < Len(u) /\ \A k \in 1..n : s[k] = u[k]
    BY <1>1, <1>2, <1>3, <1>6
  <2>. QED  BY <2>3, <2>4, Zenon DEF Lexicographic
<1>. QED  BY <1>1, <1>2, <1>3, <1>4, <1>5, <1>6

\* Sequences that differ are ordered by what they first differ in, or by their lengths.
LEMMA LexicographicIsTotal ==
    ASSUME NEW S, NEW R, StrictOrder(R, S), NEW s \in Seq(S), NEW t \in Seq(S), s # t
    PROVE  Lexicographic(R, s, t) \/ Lexicographic(R, t, s)
<1>. DEFINE D == {k \in Nat : 1 <= k /\ k <= Len(s) /\ k <= Len(t) /\ s[k] # t[k]}
<1>1. Len(s) \in Nat /\ Len(t) \in Nat
  OBVIOUS
<1>2. CASE D = {}
  <2>1. \A k \in Nat : 1 <= k /\ k <= Len(s) /\ k <= Len(t) => s[k] = t[k]
    BY <1>2
  <2>. HIDE DEF D
  <2>2. Len(s) # Len(t)
    BY <2>1
  <2>3. CASE Len(s) < Len(t)
    <3>1. Len(s) \in 0..Len(s) /\ \A k \in 1..Len(s) : s[k] = t[k]
      BY <1>1, <2>1, <2>3
    <3>. QED  BY <2>3, <3>1, Zenon DEF Lexicographic
  <2>4. CASE Len(t) < Len(s)
    <3>1. Len(t) \in 0..Len(t) /\ \A k \in 1..Len(t) : t[k] = s[k]
      BY <1>1, <2>1, <2>4
    <3>. QED  BY <2>4, <3>1, Zenon DEF Lexicographic
  <2>. QED  BY <1>1, <2>2, <2>3, <2>4
<1>3. CASE D # {}
  <2>1. PICK d \in D : \A k \in D : d <= k
    BY <1>3, LeastNumber
  <2>. DEFINE n == d - 1
  <2>2. n \in Nat /\ n + 1 = d /\ n < Len(s) /\ n < Len(t)
    BY <1>1
  <2>3. \A k \in 1..n : s[k] = t[k]
    BY <1>1, <2>1, <2>2
  <2>4. s[n + 1] # t[n + 1] /\ s[n + 1] \in S /\ t[n + 1] \in S
    BY <2>2
  <2>. HIDE DEF n, D
  <2>5. <<s[n + 1], t[n + 1]>> \in R \/ <<t[n + 1], s[n + 1]>> \in R
    <3>1. \A a, b \in S : a # b => <<a, b>> \in R \/ <<b, a>> \in R
      BY OneIsLess, Zenon
    <3>. QED  BY <2>4, <3>1, Zenon
  <2>6. n \in 0..Len(s) /\ n \in 0..Len(t)
    BY <1>1, <2>2
  <2>7. <<s[n + 1], t[n + 1]>> \in R => Lexicographic(R, s, t)
    BY <2>2, <2>3, <2>6, Zenon DEF Lexicographic
  <2>8. \A k \in 1..n : t[k] = s[k]
    BY <2>3
  <2>9. <<t[n + 1], s[n + 1]>> \in R => Lexicographic(R, t, s)
    BY <2>2, <2>6, <2>8, Zenon DEF Lexicographic
  <2>. QED  BY <2>5, <2>7, <2>9
<1>. QED  BY <1>2, <1>3

LEMMA LexicographicIsStrict ==
    ASSUME NEW S, NEW R, StrictOrder(R, S), NEW s \in Seq(S)
    PROVE  ~Lexicographic(R, s, s)
<1>1. ASSUME NEW n \in 0..Len(s), n < Len(s), <<s[n + 1], s[n + 1]>> \in R
      PROVE  FALSE
  <2>1. s[n + 1] \in S
    BY <1>1
  <2>. QED  BY <1>1, <2>1, Zenon DEF StrictOrder
<1>2. \A n \in 0..Len(s) : n < Len(s) => n # Len(s)
  OBVIOUS
<1>. QED  BY <1>1, <1>2, Zenon DEF Lexicographic

\* Whatever comes between a sequence and one it is a prefix of has that prefix too.
LEMMA BetweenHasPrefix ==
    ASSUME NEW S, NEW R, StrictOrder(R, S), NEW s \in Seq(S), NEW t \in Seq(S), NEW u \in Seq(S),
           IsPrefix(s, u), Lexicographic(R, s, t), t = u \/ Lexicographic(R, t, u)
    PROVE  IsPrefix(s, t)
<1>1. PICK n \in 0..Len(s) :
        /\ n < Len(t)
        /\ \A k \in 1..n : s[k] = t[k]
        /\ n = Len(s) \/ <<s[n + 1], t[n + 1]>> \in R
  BY DEF Lexicographic
<1>2. Len(s) \in Nat /\ Len(t) \in Nat /\ Len(u) \in Nat
  OBVIOUS
<1>3. Len(s) <= Len(u) /\ \A k \in 1..Len(s) : s[k] = u[k]
  <2>1. SubSeq(s, 1, Len(s)) = SubSeq(u, 1, Len(s)) /\ Len(s) <= Len(u)
    BY DEF IsPrefix
  <2>2. \A k \in 1..Len(s) : SubSeq(s, 1, Len(s))[k] = s[k] /\ SubSeq(u, 1, Len(s))[k] = u[k]
    BY <1>2, <2>1
  <2>. QED  BY <2>1, <2>2
<1>4. CASE t = u
  BY <1>4
<1>5. CASE Lexicographic(R, t, u)
  <2>1. PICK m \in 0..Len(t) :
          /\ m < Len(u)
          /\ \A k \in 1..m : t[k] = u[k]
          /\ m = Len(t) \/ <<t[m + 1], u[m + 1]>> \in R
    BY <1>5 DEF Lexicographic
  <2>2. CASE n = Len(s)
    <3>1. SubSeq(s, 1, Len(s)) = SubSeq(t, 1, Len(s))
      BY <1>1, <1>2, <2>2
    <3>. QED  BY <1>1, <1>2, <2>2, <3>1 DEF IsPrefix
  <2>3. CASE n < Len(s)
    <3>1. /\ s[n + 1] \in S /\ t[n + 1] \in S /\ s[n + 1] = u[n + 1]
          /\ <<s[n + 1], t[n + 1]>> \in R
      BY <1>1, <1>2, <1>3, <2>3
    <3>2. CASE m < n
      <4>1. t[m + 1] = u[m + 1] /\ t[m + 1] \in S /\ <<t[m + 1], u[m + 1]>> \in R
        BY <1>1, <1>2, <1>3, <2>1, <3>2
      <4>. QED  BY <4>1, NotBothLess, Zenon
    <3>3. CASE m = n
      <4>1. <<t[n + 1], s[n + 1]>> \in R
        BY <1>1, <1>2, <2>1, <3>1, <3>3
      <4>. QED  BY <3>1, <4>1, NotBothLess, Zenon
    <3>4. CASE n < m
      <4>1. t[n + 1] = s[n + 1]
        BY <1>1, <1>2, <2>1, <3>1, <3>4
      <4>. QED  BY <3>1, <4>1, NotBothLess, Zenon
    <3>. QED  BY <1>2, <3>2, <3>3, <3>4
  <2>. QED  BY <1>2, <2>2, <2>3
<1>. QED  BY <1>4, <1>5
-----------------------------------------------------------------------------
NumberOrder == {u \in Nat \X Nat : u[1] < u[2]}
NameOrder == {u \in Seq(Nat) \X Seq(Nat) : NameBefore(u[1], u[2])}
Name == Seq(Nat)

LEMMA NumbersAreOrdered == StrictOrder(NumberOrder, Nat)
  BY DEF StrictOrder, NumberOrder

LEMMA NamesAreOrdered == StrictOrder(NameOrder, Name)
<1>1. \A s, t \in Name : <<s, t>> \in NameOrder <=> NameBefore(s, t)
  BY DEF NameOrder, Name
<1>2. ASSUME NEW s \in Name, NEW t \in Name
      PROVE  NameBefore(s, t) <=> Lexicographic(NumberOrder, s, t)
  <2>1. \A n \in 0..Len(s) : n < Len(t) /\ n # Len(s) =>
           (s[n + 1] < t[n + 1] <=> <<s[n + 1], t[n + 1]>> \in NumberOrder)
    BY DEF NumberOrder, Name
  <2>. QED  BY <2>1, Zenon DEF NameBefore, Lexicographic
<1>3. \A s \in Name : ~Lexicographic(NumberOrder, s, s)
  BY NumbersAreOrdered, LexicographicIsStrict DEF Name
<1>4. \A s, t, u \in Name :
         Lexicographic(NumberOrder, s, t) /\ Lexicographic(NumberOrder, t, u) => Lexicographic(NumberOrder, s, u)
  BY NumbersAreOrdered, LexicographicIsTransitive DEF Name
<1>5. \A s, t \in Name : s = t \/ Lexicographic(NumberOrder, s, t) \/ Lexicographic(NumberOrder, t, s)
  BY NumbersAreOrdered, LexicographicIsTotal DEF Name
<1>. QED  BY <1>1, <1>2, <1>3, <1>4, <1>5, Zenon DEF StrictOrder

LEMMA PathsAreOrdered ==
    ASSUME NEW p \in Seq(Seq(Nat)), NEW q \in Seq(Seq(Nat))
    PROVE  PathBefore(p, q) <=> Lexicographic(NameOrder, p, q)
<1>1. \A n \in 0..Len(p) : n < Len(q) /\ n # Len(p) =>
         p[n + 1] \in Seq(Nat) /\ q[n + 1] \in Seq(Nat)
  OBVIOUS
<1>2. \A s, t \in Seq(Nat) : <<s, t>> \in NameOrder <=> NameBefore(s, t)
  BY DEF NameOrder
<1>. QED  BY <1>1, <1>2, Zenon DEF PathBefore, Lexicographic

\* Sorting is by a strict order of the files, which leaves nothing between neighbours.
LEMMA SortedIsStrict ==
    ASSUME NEW N \in Nat, NEW paths \in [1..N -> Seq(Seq(Nat))],
           NEW i \in 1..N, NEW j \in 1..N, NEW k \in 1..N
    PROVE  /\ ~SortedBefore(paths, i, i)
           /\ SortedBefore(paths, i, j) /\ SortedBefore(paths, j, k) => SortedBefore(paths, i, k)
<1>0. paths[i] \in Seq(Name) /\ paths[j] \in Seq(Name) /\ paths[k] \in Seq(Name)
  BY DEF Name
<1>1. ~PathBefore(paths[i], paths[i])
  BY <1>0, PathsAreOrdered, NamesAreOrdered, LexicographicIsStrict DEF Name
<1>2. PathBefore(paths[i], paths[j]) /\ PathBefore(paths[j], paths[k]) => PathBefore(paths[i], paths[k])
  BY <1>0, PathsAreOrdered, NamesAreOrdered, LexicographicIsTransitive DEF Name
<1>3. ~SortedBefore(paths, i, i)
  BY <1>1 DEF SortedBefore
<1>4. SortedBefore(paths, i, j) /\ SortedBefore(paths, j, k) => SortedBefore(paths, i, k)
  <2>1. i < j /\ j < k => i < k
    OBVIOUS
  <2>. QED  BY <1>2, <2>1, Zenon DEF SortedBefore
<1>. QED  BY <1>3, <1>4

\* Of the files after one the first is its neighbour.
LEMMA NeighbourExists ==
    ASSUME NEW N \in Nat, NEW paths \in [1..N -> Seq(Seq(Nat))],
           NEW i \in 1..N, NEW j \in 1..N, SortedBefore(paths, i, j)
    PROVE  \E k \in 1..N : <<i, k>> \in Windows(paths) /\ (k = j \/ SortedBefore(paths, k, j))
<1>. DEFINE F == 1..N
            Earlier(u, v) == SortedBefore(paths, u, v)
            Between(k) == {u \in F : Earlier(i, u) /\ Earlier(u, k)}
            C == {k \in F : Earlier(i, k) /\ (k = j \/ Earlier(k, j))}
            T == {Cardinality(Between(k)) : k \in C}
<1>1. /\ \A u \in F : ~Earlier(u, u)
      /\ \A u, v, w \in F : Earlier(u, v) /\ Earlier(v, w) => Earlier(u, w)
  BY SortedIsStrict
<1>2. \A k \in F : IsFiniteSet(Between(k)) /\ Cardinality(Between(k)) \in Nat
  <2>1. IsFiniteSet(F)
    <3>1. 1 \in Int /\ N \in Int
      OBVIOUS
    <3>. QED  BY <3>1, FS_Interval
  <2>2. \A k \in F : Between(k) \in SUBSET F
    OBVIOUS
  <2>. HIDE DEF F, Between
  <2>. QED  BY <2>1, <2>2, FS_Subset, FS_CardinalityType
<1>3. j \in C
  OBVIOUS
<1>4. T \subseteq Nat /\ T # {}
  BY <1>2, <1>3
<1>5. PICK m \in T : \A n \in T : m <= n
  BY <1>4, LeastNumber
<1>6. PICK k \in C : m = Cardinality(Between(k))
  OBVIOUS
<1>7. ASSUME NEW u \in F, Earlier(i, u), Earlier(u, k)
      PROVE  FALSE
  <2>1. u \in C
    BY <1>1, <1>7
  <2>2. Between(u) \subseteq Between(k) /\ u \in Between(k) /\ u \notin Between(u)
    BY <1>1, <1>7
  <2>3. Cardinality(Between(u)) < Cardinality(Between(k))
    <3>1. Between(u) \in SUBSET Between(k) /\ Between(u) # Between(k)
      BY <2>2
    <3>2. /\ IsFiniteSet(Between(k)) /\ Cardinality(Between(k)) \in Nat
          /\ Cardinality(Between(u)) \in Nat
      BY <1>2
    <3>. HIDE DEF Between
    <3>3. Cardinality(Between(u)) <= Cardinality(Between(k)) /\ Cardinality(Between(u)) # Cardinality(Between(k))
      BY <3>1, <3>2, FS_Subset
    <3>. QED  BY <3>2, <3>3
  <2>4. Cardinality(Between(u)) \in T
    BY <2>1
  <2>5. m <= Cardinality(Between(u))
    BY <1>5, <2>4
  <2>6. Cardinality(Between(k)) \in Nat /\ Cardinality(Between(u)) \in Nat
    BY <1>2
  <2>. HIDE DEF Between, T, C
  <2>. QED  BY <1>6, <2>3, <2>5, <2>6
<1>8. DOMAIN paths = F
  OBVIOUS
<1>9. <<i, k>> \in F \X F /\ Earlier(i, k) /\ (k = j \/ Earlier(k, j))
  OBVIOUS
<1>10. <<i, k>> \in Windows(paths)
  BY <1>7, <1>8, <1>9 DEF Windows
<1>. QED  BY <1>9, <1>10

LEMMA FileIsFile ==
    ASSUME NEW files \in Seq([path : Seq(Seq(Nat)), length : Nat, symlink : BOOLEAN]), NEW k \in DOMAIN files
    PROVE  files[k].path \in Seq(Seq(Nat)) /\ files[k].length \in Nat
<1>. DEFINE File == [path : Seq(Seq(Nat)), length : Nat, symlink : BOOLEAN]
<1>1. \A file \in File : file.path \in Seq(Seq(Nat)) /\ file.length \in Nat
  OBVIOUS
<1>2. files \in Seq(File)
  OBVIOUS
<1>. HIDE DEF File
<1>3. files[k] \in File
  BY <1>2
<1>. QED  BY <1>1, <1>3

\* validate_metainfo: "After sorting, colliding paths are adjacent."
LEMMA CollidingPathsAreAdjacent ==
    ASSUME NEW meta, meta.files \in Seq([path : Seq(Seq(Nat)), length : Nat, symlink : BOOLEAN]),
           PathsApart(meta),
           NEW i \in DOMAIN meta.files, NEW j \in DOMAIN meta.files, i # j
    PROVE  ~IsPrefix(meta.files[i].path, meta.files[j].path)
<1>. DEFINE N == Len(meta.files)
            paths == [k \in DOMAIN meta.files |-> meta.files[k].path]
<1>1. /\ N \in Nat /\ DOMAIN meta.files = 1..N
      /\ paths \in [1..N -> Seq(Seq(Nat))]
  <2>1. N \in Nat /\ DOMAIN meta.files = 1..N
    OBVIOUS
  <2>2. \A k \in DOMAIN meta.files : meta.files[k].path \in Seq(Seq(Nat))
    BY FileIsFile
  <2>. HIDE DEF N
  <2>. QED  BY <2>1, <2>2, Zenon
<1>2. \A w \in Windows(paths) : ~IsPrefix(paths[w[1]], paths[w[2]])
  BY DEF PathsApart
<1>3. \A k \in 1..N : paths[k] = meta.files[k].path
  BY <1>1
<1>. HIDE DEF N, paths
<1>4. ASSUME NEW a \in 1..N, NEW b \in 1..N, IsPrefix(paths[a], paths[b]), SortedBefore(paths, a, b)
      PROVE  FALSE
  <2>1. PICK k \in 1..N : <<a, k>> \in Windows(paths) /\ (k = b \/ SortedBefore(paths, k, b))
    BY <1>1, <1>4, NeighbourExists
  <2>2. SortedBefore(paths, a, k)
    BY <2>1 DEF Windows
  <2>3. paths[a] \in Seq(Name) /\ paths[b] \in Seq(Name) /\ paths[k] \in Seq(Name)
    BY <1>1 DEF Name
  <2>4. /\ paths[a] = paths[k] \/ Lexicographic(NameOrder, paths[a], paths[k])
        /\ paths[k] = paths[b] \/ Lexicographic(NameOrder, paths[k], paths[b])
    BY <2>1, <2>2, <2>3, PathsAreOrdered DEF SortedBefore, Name
  <2>5. IsPrefix(paths[a], paths[k])
    <3>1. CASE paths[a] = paths[k]
      BY <2>3, <3>1 DEF IsPrefix
    <3>2. CASE Lexicographic(NameOrder, paths[a], paths[k])
      BY <1>4, <2>3, <2>4, <3>2, NamesAreOrdered, BetweenHasPrefix
    <3>. QED  BY <2>4, <3>1, <3>2
  <2>. QED  BY <1>2, <2>1, <2>5
<1>5. ASSUME IsPrefix(paths[i], paths[j])
      PROVE  FALSE
  <2>0. paths[i] \in Seq(Seq(Nat)) /\ paths[j] \in Seq(Seq(Nat)) /\ i \in Nat /\ j \in Nat
    BY <1>1
  <2>1. CASE paths[i] = paths[j]
    <3>1. SortedBefore(paths, i, j) \/ SortedBefore(paths, j, i)
      BY <2>0, <2>1 DEF SortedBefore
    <3>2. IsPrefix(paths[j], paths[i])
      BY <1>5, <2>1
    <3>. QED  BY <1>1, <1>4, <1>5, <3>1, <3>2
  <2>2. CASE paths[i] # paths[j]
    <3>1. SubSeq(paths[i], 1, Len(paths[i])) = SubSeq(paths[j], 1, Len(paths[i])) /\ Len(paths[i]) <= Len(paths[j])
      BY <1>5 DEF IsPrefix
    <3>2. \A k \in 1..Len(paths[i]) : paths[i][k] = paths[j][k]
      <4>1. \A k \in 1..Len(paths[i]) : SubSeq(paths[i], 1, Len(paths[i]))[k] = paths[i][k]
                                     /\ SubSeq(paths[j], 1, Len(paths[i]))[k] = paths[j][k]
        BY <2>0, <3>1
      <4>. QED  BY <3>1, <4>1
    <3>3. Len(paths[i]) < Len(paths[j])
      <4>1. Len(paths[i]) = Len(paths[j]) => paths[i] = paths[j]
        BY <2>0, <3>2, SameSequence
      <4>2. Len(paths[i]) \in Nat /\ Len(paths[j]) \in Nat
        BY <2>0, SequenceLength, Zenon
      <4>. QED  BY <2>2, <3>1, <4>1, <4>2
    <3>4. Len(paths[i]) \in 0..Len(paths[i])
      BY <2>0
    <3>5. PathBefore(paths[i], paths[j])
      BY <3>2, <3>3, <3>4, Zenon DEF PathBefore
    <3>. QED  BY <1>1, <1>4, <1>5, <3>5 DEF SortedBefore
  <2>. QED  BY <2>1, <2>2
<1>6. paths[i] = meta.files[i].path /\ paths[j] = meta.files[j].path
  BY <1>1, <1>3
<1>. QED  BY <1>5, <1>6, Zenon
-----------------------------------------------------------------------------
\* The metainfo of an import and of a torrent that is managed is some that was given:
\* the lengths of files are natural numbers.
MetainfoInv ==
    /\ \A t \in managed : t.meta \in Metainfo /\ DOMAIN t = {"id", "meta", "only", "paused"}
    /\ \A i \in Importers : transfer[i].pc \in {"resolving", "adding"} => transfer[i].meta \in Metainfo
    /\ DOMAIN transfer = Importers

\* What an import is about to add was validated, and so was what is managed: its
\* files by the command that began, its selection against the files it has.
AdmittedInv ==
    /\ \A t \in managed :
          t.meta \in Accepted /\ t.only # {} /\ t.only \subseteq DOMAIN t.meta.files
    /\ \A i \in Importers :
          transfer[i].pc = "adding" =>
             transfer[i].meta \in Accepted /\ SelectionOk(transfer[i].meta, transfer[i].only)
TransferInv == MetainfoInv /\ ManagedOnce /\ RangesAreExact

\* parse_range: the range is what the header asks for, empty if it is refused.
LEMMA RangeIsRequested ==
    ASSUME NEW header, header.first \in Nat, header.last \in Nat, header.kind \in OneRange,
           NEW length \in Nat
    PROVE  LET range == ParseRange(header, length)
           IN range.start..range.end = Requested(header, length)
<1>1. CASE header.kind = "none"
  BY <1>1 DEF ParseRange, Requested, NotSatisfiable
<1>2. CASE header.kind = "suffix"
  BY <1>2 DEF ParseRange, Requested, NotSatisfiable
<1>3. CASE header.kind = "from"
  BY <1>3 DEF ParseRange, Requested, NotSatisfiable
<1>4. CASE header.kind = "range"
  BY <1>4 DEF ParseRange, Requested, NotSatisfiable, EndsWithin
<1>. QED  BY <1>1, <1>2, <1>3, <1>4 DEF OneRange

\* What is not one range of bytes is refused.
LEMMA OthersAreRefused ==
    ASSUME NEW header, header.kind \notin OneRange, NEW length
    PROVE  ParseRange(header, length) = NotSatisfiable
  BY DEF ParseRange, OneRange, NotSatisfiable

LEMMA TransferInit_Inv == TransferInit => TransferInv
  BY DEF TransferInit, TransferInv, MetainfoInv, ManagedOnce, RangesAreExact, NoTransfer, NoResponse

\* The answer to a request for a file of a torrent that is managed.
LEMMA StreamFile_Inv ==
    ASSUME TransferInv, NEW id, NEW index, NEW header \in RangeHeaders, StreamFile(id, index, header)
    PROVE  TransferInv'
<1>1. MetainfoInv' /\ ManagedOnce'
  BY DEF StreamFile, TransferInv, MetainfoInv, ManagedOnce
<1>2. CASE response'.status \in {"not_found", "conflict", "failed"}
  BY <1>1, <1>2 DEF RangesAreExact, TransferInv
<1>3. ASSUME NEW t \in managed, index \in DOMAIN t.meta.files,
             response' = FileAnswer(t.meta.files[index].length, header)
      PROVE  RangesAreExact'
  <2>. DEFINE length == t.meta.files[index].length
              range == ParseRange(header, length)
  <2>1. length \in Nat
    BY <1>3, FilesAssumption, FileIsFile DEF TransferInv, MetainfoInv
  <2>2. header.kind \in OneRange => range.start..range.end = Requested(header, length)
    BY <2>1, RangeHeadersAssumption, RangeIsRequested
  <2>3. header.kind \notin OneRange => range = NotSatisfiable
    BY OthersAreRefused
  <2>4. /\ response'.header = header
        /\ response'.length = length
        /\ response'.start = range.start
        /\ response'.end = range.end
        /\ range = NotSatisfiable => response'.status = "not_satisfiable"
    BY <1>3 DEF FileAnswer
  <2>. QED  BY <2>2, <2>3, <2>4 DEF RangesAreExact
<1>. QED  BY <1>1, <1>2, <1>3 DEF StreamFile, TransferInv

\* Imports: what is added is the metainfo they began with, under an ID and a hash
\* nothing has.
LEMMA Import_Inv ==
    ASSUME TransferInv, NEW i \in Importers,
           \/ \E meta \in Metainfo, only \in Selections :
                 ImportMagnet(i, meta, only) \/ ImportFile(i, meta, only)
           \/ \E meta \in Metainfo : CreateAndSeed(i, meta)
           \/ MagnetResolved(i)
           \/ AddToSession(i)
    PROVE  TransferInv'
<1>. USE DEF TransferInv
<1>0. ASSUME UNCHANGED <<managed, response>>,
             DOMAIN transfer' = Importers,
             \A j \in Importers : transfer'[j].pc \in {"resolving", "adding"} => transfer'[j].meta \in Metainfo
      PROVE  TransferInv'
  BY <1>0 DEF MetainfoInv, ManagedOnce, RangesAreExact
<1>1. ASSUME NEW meta \in Metainfo, NEW only \in Selections,
             ImportMagnet(i, meta, only) \/ ImportFile(i, meta, only)
      PROVE  TransferInv'
  BY <1>0, <1>1 DEF ImportMagnet, ImportFile, Adding, MetainfoInv
<1>2. ASSUME NEW meta \in Metainfo, CreateAndSeed(i, meta)
      PROVE  TransferInv'
  BY <1>0, <1>2 DEF CreateAndSeed, Adding, MetainfoInv
<1>3. CASE MagnetResolved(i)
  BY <1>0, <1>3 DEF MagnetResolved, Adding, Refuse, NoTransfer, InState, MetainfoInv
<1>4. CASE AddToSession(i)
  <2>1. /\ DOMAIN transfer' = Importers
        /\ \A j \in Importers : transfer'[j].pc \in {"resolving", "adding"} => transfer'[j].meta \in Metainfo
    BY <1>4 DEF AddToSession, Refuse, NoTransfer, MetainfoInv
  <2>2. CASE Managed(transfer[i].meta.hash)
    BY <1>0, <1>4, <2>1, <2>2 DEF AddToSession
  <2>3. CASE ~Managed(transfer[i].meta.hash)
    <3>. DEFINE added(id) == [id |-> id, meta |-> transfer[i].meta,
                              only |-> Selected(transfer[i].meta, transfer[i].only), paused |-> FALSE]
    <3>1. PICK id \in TorrentIds \ {t.id : t \in managed} : managed' = managed \cup {added(id)}
      BY <1>4, <2>3 DEF AddToSession
    <3>2. transfer[i].meta \in Metainfo
      BY <1>4 DEF AddToSession, InState, MetainfoInv
    <3>3. MetainfoInv'
      BY <2>1, <3>1, <3>2 DEF MetainfoInv
    <3>4. ManagedOnce'
      <4>1. /\ \A s \in managed : s.id # id /\ s.meta.hash # transfer[i].meta.hash
            /\ added(id).id = id /\ added(id).meta = transfer[i].meta
        BY <2>3 DEF Managed
      <4>. HIDE DEF added
      <4>. QED  BY <3>1, <4>1 DEF ManagedOnce
    <3>5. RangesAreExact'
      BY <1>4 DEF AddToSession, RangesAreExact
    <3>. QED  BY <3>3, <3>4, <3>5
  <2>. QED  BY <2>2, <2>3
<1>. QED  BY <1>1, <1>2, <1>3, <1>4

\* What is done to a torrent that is managed leaves its ID and its metainfo alone.
LEMMA Managed_Inv ==
    ASSUME TransferInv, NEW t \in managed,
           \/ \E paused \in BOOLEAN : SetPaused(t, paused)
           \/ \E files \in SUBSET DOMAIN t.meta.files : UpdateFiles(t, files)
           \/ ForgetTorrent(t)
    PROVE  TransferInv'
<1>. USE DEF TransferInv
<1>1. RangesAreExact'
  BY DEF SetPaused, UpdateFiles, ForgetTorrent, RangesAreExact
<1>2. ASSUME NEW u, u.id = t.id, u.meta = t.meta, DOMAIN u = {"id", "meta", "only", "paused"},
             managed' = (managed \ {t}) \cup {u}, UNCHANGED transfer
      PROVE  MetainfoInv' /\ ManagedOnce'
  BY <1>2 DEF MetainfoInv, ManagedOnce
<1>3. ASSUME NEW paused \in BOOLEAN, SetPaused(t, paused)
      PROVE  MetainfoInv' /\ ManagedOnce'
  BY <1>2, <1>3 DEF SetPaused, MetainfoInv
<1>4. ASSUME NEW files \in SUBSET DOMAIN t.meta.files, UpdateFiles(t, files)
      PROVE  MetainfoInv' /\ ManagedOnce'
  BY <1>2, <1>4 DEF UpdateFiles, MetainfoInv
<1>5. ASSUME ForgetTorrent(t)
      PROVE  MetainfoInv' /\ ManagedOnce'
  <2>1. managed' \subseteq managed /\ UNCHANGED transfer
    BY <1>5 DEF ForgetTorrent
  <2>. QED  BY <2>1 DEF MetainfoInv, ManagedOnce
<1>. QED  BY <1>1, <1>3, <1>4, <1>5

LEMMA TransferNext_Inv == TransferInv /\ [TransferNext]_transferVars => TransferInv'
<1>. SUFFICES ASSUME TransferInv, [TransferNext]_transferVars
              PROVE  TransferInv'
  OBVIOUS
<1>1. CASE UNCHANGED transferVars
  BY <1>1 DEF transferVars, TransferInv, MetainfoInv, ManagedOnce, RangesAreExact
<1>2. CASE RestartEngine
  BY <1>2 DEF RestartEngine, NoTransfer, NoResponse, TransferInv, MetainfoInv, ManagedOnce, RangesAreExact
<1>3. CASE ResponseRead
  BY <1>3 DEF ResponseRead, NoResponse, TransferInv, MetainfoInv, ManagedOnce, RangesAreExact
<1>. QED  BY <1>1, <1>2, <1>3, Import_Inv, Managed_Inv, StreamFile_Inv DEF TransferNext

\* Every answer of the gateway, to any Range header and for a file of any length,
\* carries the bytes the header asks for, and is an error only if there are none,
\* while imports, removals and restarts go on.
THEOREM ResponsesAreExact == TransferSpec => []RangesAreExact
<1>1. TransferInv => RangesAreExact
  BY DEF TransferInv
<1>. QED  BY TransferInit_Inv, TransferNext_Inv, <1>1, PTL DEF TransferSpec

\* However imports of one torrent interleave, the session manages it once.
THEOREM TorrentsAreManagedOnce == TransferSpec => []ManagedOnce
<1>1. TransferInv => ManagedOnce
  BY DEF TransferInv
<1>. QED  BY TransferInit_Inv, TransferNext_Inv, <1>1, PTL DEF TransferSpec

LEMMA TransferInit_Admitted == TransferInit => AdmittedInv
  BY DEF TransferInit, AdmittedInv, NoTransfer

LEMMA Import_Admitted ==
    ASSUME MetainfoInv, AdmittedInv, NEW i \in Importers,
           \/ \E meta \in Metainfo, only \in Selections :
                 ImportMagnet(i, meta, only) \/ ImportFile(i, meta, only)
           \/ \E meta \in Metainfo : CreateAndSeed(i, meta)
           \/ MagnetResolved(i)
           \/ AddToSession(i)
    PROVE  AdmittedInv'
<1>1. ASSUME NEW meta, NEW only, Adding(i, meta, only), UNCHANGED managed,
             meta \in Accepted, SelectionOk(meta, only)
      PROVE  AdmittedInv'
  BY <1>1 DEF Adding, AdmittedInv, MetainfoInv
<1>2. ASSUME Refuse(i), UNCHANGED managed
      PROVE  AdmittedInv'
  BY <1>2 DEF Refuse, NoTransfer, AdmittedInv, MetainfoInv
<1>3. ASSUME NEW meta \in Metainfo, NEW only \in Selections, ImportMagnet(i, meta, only)
      PROVE  AdmittedInv'
  BY <1>3 DEF ImportMagnet, AdmittedInv, MetainfoInv
<1>4. ASSUME NEW meta \in Metainfo, NEW only \in Selections, ImportFile(i, meta, only)
      PROVE  AdmittedInv'
  BY <1>1, <1>4 DEF ImportFile
<1>5. ASSUME NEW meta \in Metainfo, CreateAndSeed(i, meta)
      PROVE  AdmittedInv'
  BY <1>1, <1>5 DEF CreateAndSeed, SelectionOk
<1>6. CASE MagnetResolved(i)
  BY <1>1, <1>2, <1>6 DEF MagnetResolved
<1>7. CASE AddToSession(i)
  <2>. DEFINE meta == transfer[i].meta
              only == transfer[i].only
  <2>1. meta \in Accepted /\ SelectionOk(meta, only) /\ Refuse(i)
    BY <1>7 DEF AddToSession, InState, AdmittedInv
  <2>2. CASE Managed(meta.hash)
    BY <1>2, <1>7, <2>1, <2>2 DEF AddToSession
  <2>3. CASE ~Managed(meta.hash)
    <3>1. PICK id \in TorrentIds \ {t.id : t \in managed} :
            managed' = managed \cup {[id |-> id, meta |-> meta, only |-> Selected(meta, only), paused |-> FALSE]}
      BY <1>7, <2>3 DEF AddToSession
    <3>2. Selected(meta, only) # {} /\ Selected(meta, only) \subseteq DOMAIN meta.files
      <4>1. meta.files # <<>> /\ \E File : meta.files \in Seq(File)
        BY <2>1, FilesAssumption DEF Accepted, Validated
      <4>2. 1 \in DOMAIN meta.files
        BY <4>1
      <4>. QED  BY <2>1, <4>2 DEF Selected, SelectionOk
    <3>. DEFINE u == [id |-> id, meta |-> meta, only |-> Selected(meta, only), paused |-> FALSE]
    <3>3. u.meta \in Accepted /\ u.only # {} /\ u.only \subseteq DOMAIN u.meta.files
      BY <2>1, <3>2
    <3>4. managed' = managed \cup {u}
      BY <3>1
    <3>. HIDE DEF u
    <3>5. \A j \in Importers : transfer'[j].pc = "adding" => transfer'[j] = transfer[j]
      BY <2>1 DEF Refuse, NoTransfer, MetainfoInv
    <3>. QED  BY <3>3, <3>4, <3>5 DEF AdmittedInv
  <2>. QED  BY <2>2, <2>3
<1>. QED  BY <1>3, <1>4, <1>5, <1>6, <1>7

LEMMA Managed_Admitted ==
    ASSUME MetainfoInv, AdmittedInv, NEW t \in managed,
           \/ \E paused \in BOOLEAN : SetPaused(t, paused)
           \/ \E files \in SUBSET DOMAIN t.meta.files : UpdateFiles(t, files)
           \/ ForgetTorrent(t)
    PROVE  AdmittedInv'
<1>1. ASSUME NEW u, u.meta \in Accepted, u.only # {}, u.only \subseteq DOMAIN u.meta.files,
             managed' = (managed \ {t}) \cup {u}, UNCHANGED transfer
      PROVE  AdmittedInv'
  BY <1>1 DEF AdmittedInv
<1>2. ASSUME NEW paused \in BOOLEAN, SetPaused(t, paused)
      PROVE  AdmittedInv'
  BY <1>1, <1>2 DEF SetPaused, AdmittedInv, MetainfoInv
<1>3. ASSUME NEW files, UpdateFiles(t, files)
      PROVE  AdmittedInv'
  BY <1>1, <1>3 DEF UpdateFiles, AdmittedInv, MetainfoInv
<1>4. CASE ForgetTorrent(t)
  BY <1>4 DEF ForgetTorrent, AdmittedInv
<1>. QED  BY <1>2, <1>3, <1>4

LEMMA TransferNext_Admitted == MetainfoInv /\ AdmittedInv /\ [TransferNext]_transferVars => AdmittedInv'
<1>. SUFFICES ASSUME MetainfoInv, AdmittedInv, [TransferNext]_transferVars
              PROVE  AdmittedInv'
  OBVIOUS
<1>1. CASE UNCHANGED transferVars
  BY <1>1 DEF transferVars, AdmittedInv
<1>2. CASE RestartEngine
  BY <1>2 DEF RestartEngine, NoTransfer, AdmittedInv
<1>3. CASE ResponseRead
  BY <1>3 DEF ResponseRead, AdmittedInv
<1>4. ASSUME NEW id, NEW index, NEW header, StreamFile(id, index, header)
      PROVE  AdmittedInv'
  BY <1>4 DEF StreamFile, AdmittedInv
<1>. QED  BY <1>1, <1>2, <1>3, <1>4, Import_Admitted, Managed_Admitted DEF TransferNext

LEMMA FilesAreApart == MetainfoInv /\ AdmittedInv => FilesApart
<1>. SUFFICES ASSUME MetainfoInv, AdmittedInv, NEW t \in managed
              PROVE  /\ \A i, j \in DOMAIN t.meta.files :
                           i # j => ~IsPrefix(t.meta.files[i].path, t.meta.files[j].path)
                     /\ t.only # {} /\ t.only \subseteq DOMAIN t.meta.files
  BY DEF FilesApart
<1>1. t.meta \in Metainfo /\ PathsApart(t.meta)
  BY DEF MetainfoInv, AdmittedInv, Accepted, Validated
<1>2. t.meta.files \in Seq([path : Seq(Seq(Nat)), length : Nat, symlink : BOOLEAN])
  BY <1>1, FilesAssumption
<1>3. \A i, j \in DOMAIN t.meta.files :
         i # j => ~IsPrefix(t.meta.files[i].path, t.meta.files[j].path)
  BY <1>1, <1>2, CollidingPathsAreAdjacent
<1>. QED  BY <1>3 DEF AdmittedInv

\* No two files of a torrent that is managed collide, whatever paths peers declare; with
\* ManagedOnce and RangesAreExact everything the run checks of transfers.
THEOREM TransfersStaySound == TransferSpec => []TransfersAreSound
<1>1. TransferInv /\ AdmittedInv => TransfersAreSound
  BY FilesAreApart DEF TransferInv, TransfersAreSound
<1>2. TransferInv /\ AdmittedInv /\ [TransferNext]_transferVars => (TransferInv /\ AdmittedInv)'
  BY TransferNext_Inv, TransferNext_Admitted DEF TransferInv
<1>3. TransferInit => TransferInv /\ AdmittedInv
  BY TransferInit_Inv, TransferInit_Admitted
<1>. QED  BY <1>1, <1>2, <1>3, PTL DEF TransferSpec

\* The types of transfers: an ID that is free is one of the session's, and what is done
\* to a torrent leaves its ID and metainfo alone.
LEMMA TransferInit_Types == TransferInit => TransferTypeOK
  BY DEF TransferInit, TransferTypeOK, NoTransfer, NoResponse

LEMMA TransferOnlyTypes ==
    ASSUME MetainfoInv, TransferTypeOK, UNCHANGED <<managed, response>>, NEW i \in Importers, NEW new,
           transfer' = [transfer EXCEPT ![i] = new], new.pc \in {"idle", "resolving", "adding"}
    PROVE  TransferTypeOK'
  BY DEF TransferTypeOK, MetainfoInv

LEMMA Import_Types ==
    ASSUME MetainfoInv, TransferTypeOK, NEW i \in Importers,
           \/ \E meta \in Metainfo, only \in Selections :
                 ImportMagnet(i, meta, only) \/ ImportFile(i, meta, only)
           \/ \E meta \in Metainfo : CreateAndSeed(i, meta)
           \/ MagnetResolved(i)
           \/ AddToSession(i)
    PROVE  TransferTypeOK'
<1>1. ASSUME NEW meta, NEW only, Adding(i, meta, only), UNCHANGED <<managed, response>>
      PROVE  TransferTypeOK'
  BY <1>1, TransferOnlyTypes DEF Adding
<1>2. ASSUME Refuse(i), UNCHANGED <<managed, response>>
      PROVE  TransferTypeOK'
  BY <1>2, TransferOnlyTypes DEF Refuse, NoTransfer
<1>3. ASSUME NEW meta \in Metainfo, NEW only \in Selections, ImportMagnet(i, meta, only)
      PROVE  TransferTypeOK'
  BY <1>3, TransferOnlyTypes DEF ImportMagnet
<1>4. ASSUME NEW meta \in Metainfo, NEW only \in Selections, ImportFile(i, meta, only)
      PROVE  TransferTypeOK'
  BY <1>1, <1>4 DEF ImportFile
<1>5. ASSUME NEW meta \in Metainfo, CreateAndSeed(i, meta)
      PROVE  TransferTypeOK'
  BY <1>1, <1>5 DEF CreateAndSeed
<1>6. CASE MagnetResolved(i)
  BY <1>1, <1>2, <1>6 DEF MagnetResolved
<1>7. CASE AddToSession(i)
  <2>. DEFINE meta == transfer[i].meta
  <2>1. meta \in Metainfo /\ Refuse(i) /\ UNCHANGED response
    BY <1>7 DEF AddToSession, InState, MetainfoInv
  <2>2. CASE Managed(meta.hash)
    BY <1>2, <1>7, <2>1, <2>2 DEF AddToSession
  <2>3. CASE ~Managed(meta.hash)
    <3>1. PICK id \in TorrentIds : managed' = managed \cup
             {[id |-> id, meta |-> meta, only |-> Selected(meta, transfer[i].only), paused |-> FALSE]}
      BY <1>7, <2>3 DEF AddToSession
    <3>. DEFINE u == [id |-> id, meta |-> meta, only |-> Selected(meta, transfer[i].only), paused |-> FALSE]
    <3>2. u.id = id /\ u.meta = meta /\ u.paused = FALSE /\ managed' = managed \cup {u}
      BY <3>1
    <3>. HIDE DEF u
    <3>3. \A t \in managed' : t.id \in TorrentIds /\ t.meta \in Metainfo /\ t.paused \in BOOLEAN
      BY <2>1, <3>2 DEF TransferTypeOK
    <3>4. \A j \in Importers : transfer'[j].pc \in {"idle", "resolving", "adding"}
      BY <2>1 DEF Refuse, NoTransfer, TransferTypeOK, MetainfoInv
    <3>. QED  BY <2>1, <3>3, <3>4 DEF TransferTypeOK
  <2>. QED  BY <2>2, <2>3
<1>. QED  BY <1>3, <1>4, <1>5, <1>6, <1>7

LEMMA Managed_Types ==
    ASSUME MetainfoInv, TransferTypeOK, NEW t \in managed,
           \/ \E paused \in BOOLEAN : SetPaused(t, paused)
           \/ \E files \in SUBSET DOMAIN t.meta.files : UpdateFiles(t, files)
           \/ ForgetTorrent(t)
    PROVE  TransferTypeOK'
<1>1. ASSUME NEW u, u.id = t.id, u.meta = t.meta, u.paused \in BOOLEAN,
             managed' = (managed \ {t}) \cup {u}, UNCHANGED <<transfer, response>>
      PROVE  TransferTypeOK'
  BY <1>1 DEF TransferTypeOK
<1>2. ASSUME NEW paused \in BOOLEAN, SetPaused(t, paused)
      PROVE  TransferTypeOK'
  <2>. DEFINE u == [t EXCEPT !.paused = paused]
  <2>1. managed' = (managed \ {t}) \cup {u} /\ UNCHANGED <<transfer, response>>
    BY <1>2 DEF SetPaused
  <2>2. u.id = t.id /\ u.meta = t.meta /\ u.paused = paused
    BY DEF MetainfoInv
  <2>. HIDE DEF u
  <2>. QED  BY <1>1, <2>1, <2>2
<1>3. ASSUME NEW files, UpdateFiles(t, files)
      PROVE  TransferTypeOK'
  BY <1>1, <1>3 DEF UpdateFiles, MetainfoInv, TransferTypeOK
<1>4. CASE ForgetTorrent(t)
  BY <1>4 DEF ForgetTorrent, TransferTypeOK
<1>. QED  BY <1>2, <1>3, <1>4

LEMMA TransferNext_Types == MetainfoInv /\ TransferTypeOK /\ [TransferNext]_transferVars => TransferTypeOK'
<1>. SUFFICES ASSUME MetainfoInv, TransferTypeOK, [TransferNext]_transferVars
              PROVE  TransferTypeOK'
  OBVIOUS
<1>1. CASE UNCHANGED transferVars
  BY <1>1 DEF transferVars, TransferTypeOK
<1>2. CASE RestartEngine
  BY <1>2 DEF RestartEngine, NoTransfer, NoResponse, TransferTypeOK
<1>3. CASE ResponseRead
  BY <1>3 DEF ResponseRead, NoResponse, TransferTypeOK
<1>4. ASSUME NEW id, NEW index, NEW header, StreamFile(id, index, header)
      PROVE  TransferTypeOK'
  <2>1. response'.status \in {"not_found", "conflict", "failed", "not_satisfiable", "ok", "partial"}
    BY <1>4 DEF StreamFile, FileAnswer
  <2>. QED  BY <1>4, <2>1 DEF StreamFile, TransferTypeOK
<1>. QED  BY <1>1, <1>2, <1>3, <1>4, Import_Types, Managed_Types DEF TransferNext

\* Whatever torrents are imported and answers are given, each has an ID of the session and
\* metainfo that was given.
THEOREM TransferTypeCorrect == TransferSpec => []TransferTypeOK
<1>1. TransferInv => MetainfoInv
  BY DEF TransferInv
<1>. QED  BY <1>1, TransferInit_Inv, TransferNext_Inv, TransferInit_Types, TransferNext_Types, PTL DEF TransferSpec
-----------------------------------------------------------------------------
(* CatalogRecords *)

\* Induction, about the members of a set.
LEMMA EveryNumber ==
    ASSUME NEW T, 0 \in T, \A n \in Nat : n \in T => n + 1 \in T
    PROVE  \A n \in Nat : n \in T
<1>. DEFINE Others == {n \in Nat : n \notin T}
<1>1. ASSUME Others # {} PROVE FALSE
  <2>1. PICK m \in Others : \A n \in Others : m <= n
    BY <1>1, LeastNumber
  <2>2. m # 0 /\ m - 1 \in Nat
    OBVIOUS
  <2>3. m - 1 \notin Others
    BY <2>1, <2>2
  <2>. QED  BY <2>2, <2>3
<1>. QED  BY <1>1

\* FlattenSeq is a concatenation from the left: the function it chooses exists.
Flattens(B, S) ==
    \E f \in [1..Len(B) -> Seq(S)] :
       /\ f[1] = B[1]
       /\ \A i \in 2..Len(B) : f[i] = f[i - 1] \o B[i]
       /\ FlattenSeq(B) = f[Len(B)]

LEMMA Flattening ==
    ASSUME NEW S, NEW B \in Seq(Seq(S)), Len(B) # 0
    PROVE  Flattens(B, S)
<1>. DEFINE N == Len(B)
<1>. DEFINE Part(h, n) == /\ h \in [1..n -> Seq(S)]
                          /\ \A i \in 1..n : h[i] = IF i = 1 THEN B[i] ELSE h[i - 1] \o B[i]
            T == {n \in Nat : n <= N => \E h : Part(h, n)}
            g == CHOOSE g : g = [i \in 1..Len(B) |-> IF i = 1 THEN B[i] ELSE g[i - 1] \o B[i]]
<1>0. N \in Nat /\ N # 0 /\ N = Len(B) /\ \A i \in 1..N : B[i] \in Seq(S)
  OBVIOUS
<1>. HIDE DEF N
<1>1. 0 \in T
  <2>1. Part(<<>>, 0)
    OBVIOUS
  <2>. QED  BY <2>1
<1>2. ASSUME NEW n \in Nat, n \in T PROVE n + 1 \in T
  <2>0. n + 1 \in Nat
    OBVIOUS
  <2>. SUFFICES ASSUME n + 1 <= N PROVE \E h : Part(h, n + 1)
    BY <2>0, Zenon
  <2>1. PICK h : Part(h, n)
    <3>1. n <= N
      BY <1>0
    <3>. QED  BY <1>2, <3>1, Zenon
  <2>. DEFINE k == [i \in 1..(n + 1) |-> IF i = n + 1 THEN IF n = 0 THEN B[1] ELSE h[n] \o B[n + 1] ELSE h[i]]
  <2>2. n # 0 => h[n] \o B[n + 1] \in Seq(S)
    <3>1. n # 0 => h[n] \in Seq(S) /\ B[n + 1] \in Seq(S)
      BY <1>0, <2>1
    <3>. QED  BY <3>1, ConcatProperties
  <2>3. k \in [1..(n + 1) -> Seq(S)]
    BY <1>0, <2>1, <2>2
  <2>4. ASSUME NEW i \in 1..(n + 1) PROVE k[i] = IF i = 1 THEN B[i] ELSE k[i - 1] \o B[i]
    <3>1. CASE i = n + 1 /\ i = 1
      BY <3>1
    <3>2. CASE i = n + 1 /\ i # 1
      <4>1. n \in 1..(n + 1) /\ n # n + 1 /\ n # 0 /\ i - 1 = n
        BY <3>2
      <4>. QED  BY <3>2, <4>1
    <3>3. CASE i # n + 1
      <4>1. i \in 1..n /\ k[i] = h[i]
        BY <3>3
      <4>2. i # 1 => i - 1 \in 1..(n + 1) /\ i - 1 # n + 1
        BY <4>1
      <4>3. i # 1 => k[i - 1] = h[i - 1]
        BY <4>2
      <4>. HIDE DEF k
      <4>. QED  BY <2>1, <4>1, <4>3
    <3>. QED  BY <3>1, <3>2, <3>3
  <2>5. Part(k, n + 1)
    BY <2>3, <2>4
  <2>. QED  BY <2>5
<1>3. N \in T
  <2>. HIDE DEF T
  <2>. QED  BY <1>0, <1>1, <1>2, EveryNumber
<1>4. PICK f : Part(f, N)
  BY <1>0, <1>3
<1>5. f = [i \in 1..Len(B) |-> IF i = 1 THEN B[i] ELSE f[i - 1] \o B[i]]
  BY <1>0, <1>4
<1>6. g = [i \in 1..Len(B) |-> IF i = 1 THEN B[i] ELSE g[i - 1] \o B[i]]
  BY <1>5, Zenon
<1>7. FlattenSeq(B) = g[N]
  BY <1>0 DEF FlattenSeq
<1>. HIDE DEF g
<1>8. \A i \in 1..N : g[i] = IF i = 1 THEN B[i] ELSE g[i - 1] \o B[i]
  <2>. DEFINE e(i) == IF i = 1 THEN B[i] ELSE g[i - 1] \o B[i]
  <2>1. g = [i \in 1..N |-> e(i)]
    BY <1>0, <1>6
  <2>. HIDE DEF e
  <2>2. \A i \in 1..N : g[i] = e(i)
    BY <2>1
  <2>. QED  BY <2>2 DEF e
<1>9. \A n \in Nat : n \in 1..N => g[n] \in Seq(S)
  <2>. DEFINE U == {n \in Nat : n \in 1..N => g[n] \in Seq(S)}
  <2>1. 0 \in U
    OBVIOUS
  <2>2. ASSUME NEW n \in Nat, n \in U PROVE n + 1 \in U
    <3>. SUFFICES ASSUME n + 1 \in 1..N PROVE g[n + 1] \in Seq(S)
      OBVIOUS
    <3>1. CASE n = 0
      BY <1>0, <1>6, <3>1
    <3>2. CASE n # 0
      <4>1. g[n] \in Seq(S) /\ B[n + 1] \in Seq(S)
        BY <1>0, <2>2, <3>2
      <4>2. g[n + 1] = g[n] \o B[n + 1]
        <5>1. n + 1 \in 1..N /\ n + 1 # 1 /\ (n + 1) - 1 = n
          BY <3>2
        <5>2. g[n + 1] = g[(n + 1) - 1] \o B[n + 1]
          BY <1>8, <5>1, Zenon
        <5>. QED  BY <5>1, <5>2
      <4>. QED  BY <4>1, <4>2, ConcatProperties
    <3>. QED  BY <3>1, <3>2
  <2>. HIDE DEF U
  <2>3. \A n \in Nat : n \in U
    BY <2>1, <2>2, EveryNumber
  <2>. QED  BY <2>3 DEF U
<1>10. g \in [1..N -> Seq(S)]
  BY <1>0, <1>6, <1>9
<1>11. g[1] = B[1] /\ \A i \in 2..N : g[i] = g[i - 1] \o B[i]
  <2>1. 1 \in 1..N /\ \A i \in 2..N : i \in 1..N /\ i # 1
    BY <1>0
  <2>. QED  BY <1>8, <2>1, Zenon
<1>. QED  BY <1>0, <1>7, <1>10, <1>11, Zenon DEF Flattens

\* Bytes that cannot be taken for one another, whatever follows them: they differ
\* where both have some. Faithful is what an encoding is, of two values.
Separable(s, t) == s = t \/ \E i \in 1..Len(s) : i <= Len(t) /\ s[i] # t[i]
Faithful(s, t, v, w) ==
    /\ s \in Seq(Nat) /\ t \in Seq(Nat)
    /\ Separable(s, t)
    /\ s = t => v = w

LEMMA SameLengthSeparable ==
    ASSUME NEW s \in Seq(Nat), NEW t \in Seq(Nat), Len(s) = Len(t)
    PROVE  Separable(s, t)
<1>1. (\A i \in 1..Len(s) : s[i] = t[i]) => s = t
  BY SeqEqual
<1>. QED  BY <1>1 DEF Separable

\* One after the other.
LEMMA ThenSeparable ==
    ASSUME NEW s \in Seq(Nat), NEW t \in Seq(Nat), NEW c \in Seq(Nat), NEW d \in Seq(Nat),
           Separable(s, t), s = t => Separable(c, d)
    PROVE  /\ s \o c \in Seq(Nat) /\ t \o d \in Seq(Nat)
           /\ Separable(s \o c, t \o d)
           /\ s \o c = t \o d => s = t /\ c = d
<1>1. s \o c \in Seq(Nat) /\ t \o d \in Seq(Nat)
  BY ConcatProperties
<1>2. CASE s = t /\ c = d
  BY <1>1, <1>2 DEF Separable
<1>3. ASSUME NEW i \in 1..Len(s), i <= Len(t), s[i] # t[i]
      PROVE  Separable(s \o c, t \o d) /\ s \o c # t \o d
  <2>1. (s \o c)[i] = s[i] /\ (t \o d)[i] = t[i]
    BY <1>3
  <2>2. i \in 1..Len(s \o c) /\ i <= Len(t \o d)
    BY <1>3
  <2>. QED  BY <1>3, <2>1, <2>2, Zenon DEF Separable
<1>4. ASSUME s = t, NEW i \in 1..Len(c), i <= Len(d), c[i] # d[i]
      PROVE  Separable(s \o c, t \o d) /\ s \o c # t \o d
  <2>. DEFINE j == Len(s) + i
  <2>1. (s \o c)[j] = c[i] /\ (t \o d)[j] = d[i]
    BY <1>4
  <2>2. j \in 1..Len(s \o c) /\ j <= Len(t \o d)
    BY <1>4
  <2>. QED  BY <1>4, <2>1, <2>2, Zenon DEF Separable
<1>. QED  BY <1>1, <1>2, <1>3, <1>4, Zenon DEF Separable

LEMMA ByteFaithful ==
    ASSUME NEW m \in Nat, NEW n \in Nat
    PROVE  Faithful(<<m>>, <<n>>, m, n)
<1>1. <<m>> \in Seq(Nat) /\ <<n>> \in Seq(Nat) /\ Len(<<m>>) = Len(<<n>>)
  OBVIOUS
<1>2. <<m>> = <<n>> => m = n
  OBVIOUS
<1>. QED  BY <1>1, <1>2, SameLengthSeparable DEF Faithful

\* As many pieces on both sides, the same ones apart from one another.
LEMMA FlattenSeparable ==
    ASSUME NEW B \in Seq(Seq(Nat)), NEW C \in Seq(Seq(Nat)), Len(B) = Len(C),
           \A i \in 1..Len(B) : Separable(B[i], C[i])
    PROVE  /\ FlattenSeq(B) \in Seq(Nat) /\ FlattenSeq(C) \in Seq(Nat)
           /\ Separable(FlattenSeq(B), FlattenSeq(C))
           /\ FlattenSeq(B) = FlattenSeq(C) => B = C
<1>. DEFINE N == Len(B)
<1>0. N \in Nat /\ N = Len(C) /\ \A i \in 1..N : B[i] \in Seq(Nat) /\ C[i] \in Seq(Nat)
  OBVIOUS
<1>1. CASE N = 0
  <2>1. B = <<>> /\ C = <<>>
    <3>1. B # <<>> => Len(B) # 0
      BY EmptySeq
    <3>2. C # <<>> => Len(C) # 0
      BY EmptySeq
    <3>. QED  BY <1>0, <1>1, <3>1, <3>2
  <2>2. FlattenSeq(<<>>) = <<>>
    BY DEF FlattenSeq
  <2>3. <<>> \in Seq(Nat) /\ Separable(<<>>, <<>>)
    <3>1. <<>> \in Seq(Nat)
      OBVIOUS
    <3>. QED  BY <3>1, SameLengthSeparable, Zenon
  <2>. QED  BY <2>1, <2>2, <2>3
<1>2. CASE N # 0
  <2>. HIDE DEF N
  <2>0. Flattens(B, Nat) /\ Flattens(C, Nat)
    BY <1>0, <1>2, Flattening, Zenon DEF N
  <2>1. PICK f \in [1..N -> Seq(Nat)] :
           f[1] = B[1] /\ (\A i \in 2..N : f[i] = f[i - 1] \o B[i]) /\ FlattenSeq(B) = f[N]
    BY <2>0, Zenon DEF N, Flattens
  <2>2. PICK g \in [1..N -> Seq(Nat)] :
           g[1] = C[1] /\ (\A i \in 2..N : g[i] = g[i - 1] \o C[i]) /\ FlattenSeq(C) = g[N]
    BY <1>0, <2>0, Zenon DEF Flattens
  <2>. DEFINE Apart(n) == /\ Separable(f[n], g[n])
                          /\ f[n] = g[n] => \A i \in 1..n : B[i] = C[i]
              T == {n \in Nat : n \in 1..N => Apart(n)}
  <2>3. 0 \in T
    OBVIOUS
  <2>4. ASSUME NEW n \in Nat, n \in T PROVE n + 1 \in T
    <3>0. n + 1 \in Nat
      OBVIOUS
    <3>. SUFFICES ASSUME n + 1 \in 1..N PROVE Apart(n + 1)
      BY <3>0, Zenon
    <3>1. CASE n = 0
      <4>1. Separable(f[1], g[1]) /\ (f[1] = g[1] => B[1] = C[1])
        BY <1>0, <1>2, <2>1, <2>2 DEF N
      <4>2. \A i \in 1..(n + 1) : i = 1
        BY <3>1
      <4>3. n + 1 = 1
        BY <3>1
      <4>. QED  BY <4>1, <4>2, <4>3
    <3>2. CASE n # 0
      <4>1. n \in 1..N /\ n + 1 \in 2..N /\ (n + 1) - 1 = n
        BY <1>0, <3>2
      <4>2. f[n + 1] = f[n] \o B[n + 1] /\ g[n + 1] = g[n] \o C[n + 1]
        <5>1. f[n + 1] = f[(n + 1) - 1] \o B[n + 1] /\ g[n + 1] = g[(n + 1) - 1] \o C[n + 1]
          BY <2>1, <2>2, <4>1, Zenon
        <5>. QED  BY <4>1, <5>1
      <4>3. /\ f[n] \in Seq(Nat) /\ g[n] \in Seq(Nat)
            /\ B[n + 1] \in Seq(Nat) /\ C[n + 1] \in Seq(Nat)
            /\ Separable(B[n + 1], C[n + 1])
        BY <1>0, <2>1, <2>2, <4>1 DEF N
      <4>4. Apart(n)
        BY <2>4, <4>1, Zenon
      <4>5. Separable(f[n], g[n])
        BY <4>4
      <4>. HIDE DEF T, Apart
      <4>6. /\ Separable(f[n + 1], g[n + 1])
            /\ f[n + 1] = g[n + 1] => f[n] = g[n] /\ B[n + 1] = C[n + 1]
        <5>0. PICK s \in Seq(Nat), t \in Seq(Nat), c \in Seq(Nat), d \in Seq(Nat) :
                 s = f[n] /\ t = g[n] /\ c = B[n + 1] /\ d = C[n + 1]
          BY <4>3
        <5>1. Separable(s \o c, t \o d) /\ (s \o c = t \o d => s = t /\ c = d)
          <6>1. Separable(s, t) /\ Separable(c, d)
            BY <4>3, <4>5, <5>0, Zenon
          <6>. QED  BY <6>1, ThenSeparable, ZenonT(60)
        <5>2. /\ Separable(f[n] \o B[n + 1], g[n] \o C[n + 1])
              /\ f[n] \o B[n + 1] = g[n] \o C[n + 1] => f[n] = g[n] /\ B[n + 1] = C[n + 1]
          BY <5>0, <5>1, Zenon
        <5>. QED  BY <4>2, <5>2, Zenon
      <4>7. \A i \in 1..(n + 1) : i = n + 1 \/ i \in 1..n
        OBVIOUS
      <4>. QED  BY <4>4, <4>6, <4>7, Zenon DEF Apart
    <3>. QED  BY <3>1, <3>2
  <2>5. Apart(N)
    <3>. HIDE DEF T, Apart
    <3>1. \A n \in Nat : n \in T
      BY <2>3, <2>4, EveryNumber
    <3>2. N \in 1..N
      BY <1>0, <1>2
    <3>. QED  BY <1>0, <3>1, <3>2 DEF T
  <2>6. FlattenSeq(B) = FlattenSeq(C) => \A i \in 1..N : B[i] = C[i]
    BY <2>1, <2>2, <2>5
  <2>7. (\A i \in 1..N : B[i] = C[i]) => B = C
    <3>. HIDE DEF Apart
    <3>. QED  BY <1>0, SeqEqual DEF N
  <2>8. f[N] \in Seq(Nat) /\ g[N] \in Seq(Nat)
    <3>1. N \in 1..N
      BY <1>0, <1>2
    <3>. QED  BY <2>1, <2>2, <3>1, Zenon
  <2>. QED  BY <2>1, <2>2, <2>5, <2>6, <2>7, <2>8
<1>. QED  BY <1>1, <1>2

\* A part that may depend on what is before it.
LEMMA ThenFaithful ==
    ASSUME NEW s, NEW t, NEW v, NEW w, NEW c \in Seq(Nat), NEW d \in Seq(Nat), NEW x, NEW y,
           Faithful(s, t, v, w), v = w => Faithful(c, d, x, y)
    PROVE  /\ Faithful(s \o c, t \o d, x, y)
           /\ s \o c = t \o d => v = w
<1>1. s \in Seq(Nat) /\ t \in Seq(Nat) /\ Separable(s, t) /\ (s = t => v = w)
  BY Zenon DEF Faithful
<1>2. s = t => Separable(c, d) /\ (c = d => x = y)
  BY <1>1, Zenon DEF Faithful
<1>3. /\ s \o c \in Seq(Nat) /\ t \o d \in Seq(Nat)
      /\ Separable(s \o c, t \o d)
      /\ s \o c = t \o d => s = t /\ c = d
  BY <1>1, <1>2, ThenSeparable, ZenonT(60)
<1>. QED  BY <1>1, <1>2, <1>3, Zenon DEF Faithful

\* A discriminant.
LEMMA HeadsApart ==
    ASSUME NEW s \in Seq(Nat), NEW t \in Seq(Nat), s # <<>>, t # <<>>, s[1] # t[1], NEW v, NEW w
    PROVE  Faithful(s, t, v, w)
<1>1. 1 \in 1..Len(s) /\ 1 <= Len(t)
  OBVIOUS
<1>. QED  BY <1>1, Zenon DEF Faithful, Separable

LEMMA StringFaithful ==
    ASSUME NEW v \in Text, NEW w \in Text
    PROVE  Faithful(String(v), String(w), v, w)
<1>1. v \in Seq(Nat) /\ w \in Seq(Nat) /\ Len(v) \in Nat /\ Len(w) \in Nat
  BY DEF Text
<1>2. Faithful(<<Len(v)>>, <<Len(w)>>, Len(v), Len(w))
  BY <1>1, ByteFaithful, Zenon
<1>3. Len(v) = Len(w) => Faithful(v, w, v, w)
  BY <1>1, SameLengthSeparable, Zenon DEF Faithful
<1>4. Faithful(<<Len(v)>> \o v, <<Len(w)>> \o w, v, w)
  BY <1>1, <1>2, <1>3, ThenFaithful, Zenon
<1>. QED  BY <1>4, Zenon DEF String

LEMMA SubjectFaithful ==
    ASSUME NEW v \in SubjectRef, NEW w \in SubjectRef
    PROVE  Faithful(SubjectBytes(v), SubjectBytes(w), v, w)
<1>. DEFINE Kind(u) == IF u.torrent THEN 0 ELSE 1
<1>1. /\ v = [torrent |-> v.torrent, text |-> v.text] /\ w = [torrent |-> w.torrent, text |-> w.text]
      /\ v.torrent \in BOOLEAN /\ w.torrent \in BOOLEAN /\ v.text \in Text /\ w.text \in Text
  BY DEF SubjectRef
<1>2. Kind(v) \in Nat /\ Kind(w) \in Nat /\ (Kind(v) = Kind(w) => v.torrent = w.torrent)
  BY <1>1
<1>. HIDE DEF Kind
<1>3. Faithful(<<Kind(v)>>, <<Kind(w)>>, Kind(v), Kind(w))
  BY <1>2, ByteFaithful, Zenon
<1>4. Faithful(String(v.text), String(w.text), v.text, w.text)
  BY <1>1, StringFaithful, Zenon
<1>5. Kind(v) = Kind(w) => Faithful(String(v.text), String(w.text), v, w)
  BY <1>1, <1>2, <1>4, Zenon DEF Faithful
<1>6. String(v.text) \in Seq(Nat) /\ String(w.text) \in Seq(Nat)
  BY <1>4, Zenon DEF Faithful
<1>7. Faithful(<<Kind(v)>> \o String(v.text), <<Kind(w)>> \o String(w.text), v, w)
  BY <1>3, <1>5, <1>6, ThenFaithful, Zenon
<1>. QED  BY <1>7, Zenon DEF SubjectBytes, Kind

LEMMA ObjectFaithful ==
    ASSUME NEW v \in Object, NEW w \in Object
    PROVE  Faithful(ObjectBytes(v), ObjectBytes(w), v, w)
<1>1. /\ v = [path |-> v.path, size |-> v.size, digest |-> v.digest]
      /\ w = [path |-> w.path, size |-> w.size, digest |-> w.digest]
      /\ v.path \in Text /\ w.path \in Text
      /\ v.size \in Nat /\ w.size \in Nat /\ v.digest \in Nat /\ w.digest \in Nat
  BY DEF Object
<1>2. Faithful(String(v.path), String(w.path), v.path, w.path)
  BY <1>1, StringFaithful, Zenon
<1>. DEFINE c == <<v.size, v.digest>>
            d == <<w.size, w.digest>>
<1>3. /\ c \in Seq(Nat) /\ d \in Seq(Nat) /\ Len(c) = Len(d)
      /\ c = d => v.size = w.size /\ v.digest = w.digest
  BY <1>1
<1>. HIDE DEF c, d
<1>4. v.path = w.path => Faithful(c, d, v, w)
  BY <1>1, <1>3, SameLengthSeparable, Zenon DEF Faithful
<1>5. Faithful(String(v.path) \o c, String(w.path) \o d, v, w)
  BY <1>2, <1>3, <1>4, ThenFaithful, Zenon
<1>. QED  BY <1>5, Zenon DEF ObjectBytes, c, d

\* The parts of an attribution: the issuer an indexer's claim names, and an address
\* that may be absent.
IssuerBytes(s) == IF s.provenance = 3 THEN <<s.issuer>> ELSE <<>>
LocatorBytes(uri) == IF uri = <<>> THEN <<0>> ELSE <<1>> \o String(uri)
LEMMA LocatorFaithful ==
    ASSUME NEW v \in Text, NEW w \in Text
    PROVE  Faithful(LocatorBytes(v), LocatorBytes(w), v, w)
<1>1. /\ Faithful(String(v), String(w), v, w)
      /\ String(v) \in Seq(Nat) /\ String(w) \in Seq(Nat)
  BY StringFaithful, Zenon DEF Faithful
<1>. HIDE DEF String
<1>2. /\ <<1>> \o String(v) \in Seq(Nat) /\ <<1>> \o String(v) # <<>> /\ (<<1>> \o String(v))[1] = 1
      /\ <<1>> \o String(w) \in Seq(Nat) /\ <<1>> \o String(w) # <<>> /\ (<<1>> \o String(w))[1] = 1
  BY <1>1
<1>3. <<0>> \in Seq(Nat) /\ <<0>> # <<>> /\ <<0>>[1] = 0 /\ 0 # 1
  OBVIOUS
<1>4. CASE v = <<>> /\ w = <<>>
  <2>1. Faithful(<<0>>, <<0>>, v, w)
    BY <1>3, <1>4, SameLengthSeparable, Zenon DEF Faithful
  <2>. QED  BY <1>4, <2>1, Zenon DEF LocatorBytes
<1>5. CASE v = <<>> /\ w # <<>>
  <2>1. Faithful(<<0>>, <<1>> \o String(w), v, w)
    BY <1>2, <1>3, HeadsApart, Zenon
  <2>. QED  BY <1>5, <2>1, Zenon DEF LocatorBytes
<1>6. CASE v # <<>> /\ w = <<>>
  <2>1. Faithful(<<1>> \o String(v), <<0>>, v, w)
    BY <1>2, <1>3, HeadsApart, Zenon
  <2>. QED  BY <1>6, <2>1, Zenon DEF LocatorBytes
<1>7. CASE v # <<>> /\ w # <<>>
  <2>1. Faithful(<<1>>, <<1>>, 1, 1)
    BY ByteFaithful
  <2>2. Faithful(<<1>> \o String(v), <<1>> \o String(w), v, w)
    BY <1>1, <2>1, ThenFaithful, Zenon
  <2>. QED  BY <1>7, <2>2, Zenon DEF LocatorBytes
<1>. QED  BY <1>4, <1>5, <1>6, <1>7, Zenon

LEMMA SourceFaithful ==
    ASSUME NEW v \in SourceAttribution, NEW w \in SourceAttribution
    PROVE  Faithful(SourceBytes(v), SourceBytes(w), v, w)
<1>. DEFINE Rest(s) == IF s.kind = 0 THEN <<>>
                       ELSE IF s.kind = 1 THEN String(s.uri)
                       ELSE <<s.provenance>> \o IssuerBytes(s) \o LocatorBytes(s.uri)
            Shape(s) == \/ s.kind = 0 /\ s = [kind |-> 0]
                        \/ s.kind = 1 /\ s.uri \in Text /\ s = [kind |-> 1, uri |-> s.uri]
                        \/ /\ s.kind = 2 /\ s.uri \in Text /\ s.provenance \in {0, 1, 2, 4}
                           /\ s = [kind |-> 2, provenance |-> s.provenance, uri |-> s.uri]
                        \/ /\ s.kind = 2 /\ s.uri \in Text /\ s.provenance = 3 /\ s.issuer \in Nat
                           /\ s = [kind |-> 2, provenance |-> 3, issuer |-> s.issuer, uri |-> s.uri]
<1>1. Shape(v) /\ Shape(w)
  BY DEF SourceAttribution
<1>2. ASSUME NEW s, Shape(s)
      PROVE  /\ s.kind \in Nat /\ s.kind \in {0, 1, 2} /\ (s.kind # 0 => s.uri \in Text)
             /\ s.kind = 2 => s.provenance \in Nat /\ (s.provenance = 3 => s.issuer \in Nat)
  BY <1>2
<1>0. /\ v.kind = 0 /\ w.kind = 0 => v = w
      /\ v.kind = 1 /\ w.kind = 1 /\ v.uri = w.uri => v = w
      /\ /\ v.kind = 2 /\ w.kind = 2 /\ v.uri = w.uri /\ v.provenance = w.provenance
         /\ v.provenance = 3 => v.issuer = w.issuer
         => v = w
  BY <1>1
<1>. HIDE DEF Shape
<1>8. ASSUME NEW s
      PROVE  /\ s.kind = 0 => Rest(s) = <<>>
             /\ s.kind = 1 => Rest(s) = String(s.uri)
             /\ s.kind = 2 => Rest(s) = (<<s.provenance>> \o IssuerBytes(s)) \o LocatorBytes(s.uri)
  OBVIOUS
<1>10. SourceBytes(v) = <<v.kind>> \o Rest(v) /\ SourceBytes(w) = <<w.kind>> \o Rest(w)
  BY Zenon DEF SourceBytes, IssuerBytes, LocatorBytes
<1>. HIDE DEF Rest
<1>3. ASSUME NEW s, Shape(s), s.kind = 2
      PROVE  /\ IssuerBytes(s) \in Seq(Nat) /\ LocatorBytes(s.uri) \in Seq(Nat)
             /\ <<s.provenance>> \o IssuerBytes(s) \in Seq(Nat)
             /\ Rest(s) \in Seq(Nat)
  <2>1. s.provenance \in Nat /\ s.uri \in Text /\ (s.provenance = 3 => s.issuer \in Nat)
    BY <1>2, <1>3
  <2>2. IssuerBytes(s) \in Seq(Nat) /\ <<s.provenance>> \in Seq(Nat)
    BY <2>1 DEF IssuerBytes
  <2>3. LocatorBytes(s.uri) \in Seq(Nat)
    BY <2>1, LocatorFaithful, Zenon DEF Faithful
  <2>4. <<s.provenance>> \o IssuerBytes(s) \in Seq(Nat)
    BY <2>2, ConcatProperties
  <2>5. (<<s.provenance>> \o IssuerBytes(s)) \o LocatorBytes(s.uri) \in Seq(Nat)
    BY <2>3, <2>4, ConcatProperties
  <2>. QED  BY <1>3, <1>8, <2>2, <2>3, <2>4, <2>5, Zenon
<1>4. ASSUME NEW s, Shape(s) PROVE Rest(s) \in Seq(Nat)
  <2>1. CASE s.kind = 0
    <3>1. <<>> \in Seq(Nat)
      OBVIOUS
    <3>. QED  BY <1>8, <2>1, <3>1, Zenon
  <2>2. CASE s.kind = 1
    <3>1. String(s.uri) \in Seq(Nat)
      BY <1>2, <1>4, <2>2, StringFaithful DEF Faithful
    <3>. QED  BY <1>8, <2>2, <3>1, Zenon
  <2>. QED  BY <1>2, <1>3, <1>4, <2>1, <2>2
<1>5. ASSUME v.kind = 0, w.kind = 0 PROVE Faithful(Rest(v), Rest(w), v, w)
  <2>1. v = w /\ Rest(v) = <<>> /\ Rest(w) = <<>>
    BY <1>0, <1>5, <1>8, Zenon
  <2>2. <<>> \in Seq(Nat)
    OBVIOUS
  <2>. QED  BY <2>1, <2>2, SameLengthSeparable, Zenon DEF Faithful
<1>6. ASSUME v.kind = 1, w.kind = 1 PROVE Faithful(Rest(v), Rest(w), v, w)
  <2>1. Faithful(String(v.uri), String(w.uri), v.uri, w.uri)
    BY <1>1, <1>2, <1>6, StringFaithful
  <2>2. Rest(v) = String(v.uri) /\ Rest(w) = String(w.uri) /\ (v.uri = w.uri => v = w)
    BY <1>0, <1>6, <1>8, Zenon
  <2>. QED  BY <2>1, <2>2, Zenon DEF Faithful
<1>7. ASSUME v.kind = 2, w.kind = 2 PROVE Faithful(Rest(v), Rest(w), v, w)
  <2>1. /\ v.provenance \in Nat /\ v.uri \in Text /\ w.provenance \in Nat /\ w.uri \in Text
        /\ v.provenance = 3 => v.issuer \in Nat
        /\ w.provenance = 3 => w.issuer \in Nat
    BY <1>1, <1>2, <1>7
  <2>0. /\ IssuerBytes(v) \in Seq(Nat) /\ LocatorBytes(v.uri) \in Seq(Nat)
        /\ IssuerBytes(w) \in Seq(Nat) /\ LocatorBytes(w.uri) \in Seq(Nat)
    BY <1>1, <1>3, <1>7
  <2>2. Faithful(<<v.provenance>>, <<w.provenance>>, v.provenance, w.provenance)
    BY <2>1, ByteFaithful, Zenon
  <2>. DEFINE Said(s) == IF s.provenance = 3 THEN <<3, s.issuer>> ELSE <<s.provenance>>
  <2>3. ASSUME v.provenance = w.provenance
        PROVE  Faithful(IssuerBytes(v), IssuerBytes(w), Said(v), Said(w))
    <3>1. CASE v.provenance = 3
      <4>1. Faithful(<<v.issuer>>, <<w.issuer>>, v.issuer, w.issuer)
        BY <2>1, <2>3, <3>1, ByteFaithful
      <4>2. IssuerBytes(v) = <<v.issuer>> /\ IssuerBytes(w) = <<w.issuer>>
        BY <2>3, <3>1 DEF IssuerBytes
      <4>3. v.issuer = w.issuer => Said(v) = Said(w)
        BY <2>3
      <4>. HIDE DEF Said
      <4>. QED  BY <4>1, <4>2, <4>3, Zenon DEF Faithful
    <3>2. CASE v.provenance # 3
      <4>1. IssuerBytes(v) = <<>> /\ IssuerBytes(w) = <<>> /\ <<>> \in Seq(Nat)
        BY <2>3, <3>2 DEF IssuerBytes
      <4>2. Said(v) = Said(w)
        BY <2>3, <3>2
      <4>. HIDE DEF Said
      <4>. QED  BY <4>1, <4>2, SameLengthSeparable, Zenon DEF Faithful
    <3>. QED  BY <3>1, <3>2
  <2>4. Said(v) = Said(w) /\ v.uri = w.uri => v = w
    <3>1. Said(v) = Said(w) => /\ v.provenance = w.provenance
                               /\ v.provenance = 3 => v.issuer = w.issuer
      OBVIOUS
    <3>. QED  BY <1>0, <1>7, <3>1, Zenon
  <2>. HIDE DEF Said
  <2>5. /\ Faithful(<<v.provenance>> \o IssuerBytes(v), <<w.provenance>> \o IssuerBytes(w),
                    Said(v), Said(w))
        /\ Faithful((<<v.provenance>> \o IssuerBytes(v)) \o LocatorBytes(v.uri),
                    (<<w.provenance>> \o IssuerBytes(w)) \o LocatorBytes(w.uri), v, w)
    <3>. DEFINE pv == v.provenance
                pw == w.provenance
                hv == <<pv>>
                hw == <<pw>>
                iv == IssuerBytes(v)
                iw == IssuerBytes(w)
                lv == LocatorBytes(v.uri)
                lw == LocatorBytes(w.uri)
    <3>1. Faithful(lv, lw, v.uri, w.uri)
      BY <2>1, LocatorFaithful, Zenon
    <3>2. Said(v) = Said(w) => Faithful(lv, lw, v, w)
      BY <2>4, <3>1, Zenon DEF Faithful
    <3>3. Faithful(hv, hw, pv, pw) /\ (pv = pw => Faithful(iv, iw, Said(v), Said(w)))
      BY <2>2, <2>3, Zenon
    <3>4. iv \in Seq(Nat) /\ iw \in Seq(Nat) /\ lv \in Seq(Nat) /\ lw \in Seq(Nat)
      BY <2>0, Zenon
    <3>. HIDE DEF pv, pw, hv, hw, iv, iw, lv, lw
    <3>5. Faithful(hv \o iv, hw \o iw, Said(v), Said(w))
      BY <3>3, <3>4, ThenFaithful, Zenon
    <3>. DEFINE sv == hv \o iv
                sw == hw \o iw
    <3>6. Faithful(sv \o lv, sw \o lw, v, w)
      <4>1. Faithful(sv, sw, Said(v), Said(w))
        BY <3>5
      <4>. HIDE DEF sv, sw
      <4>. QED  BY <3>2, <3>4, <4>1, ThenFaithful, Zenon
    <3>. QED  BY <3>5, <3>6 DEF pv, pw, hv, hw, iv, iw, lv, lw
  <2>9. /\ Rest(v) = (<<v.provenance>> \o IssuerBytes(v)) \o LocatorBytes(v.uri)
        /\ Rest(w) = (<<w.provenance>> \o IssuerBytes(w)) \o LocatorBytes(w.uri)
    BY <1>7, <1>8, Zenon
  <2>. QED  BY <2>5, <2>9, Zenon
<1>12. v.kind = w.kind => Faithful(Rest(v), Rest(w), v, w)
  BY <1>1, <1>2, <1>5, <1>6, <1>7
<1>9. Faithful(<<v.kind>>, <<w.kind>>, v.kind, w.kind)
  BY <1>1, <1>2, ByteFaithful
<1>11. Faithful(<<v.kind>> \o Rest(v), <<w.kind>> \o Rest(w), v, w)
  BY <1>1, <1>4, <1>9, <1>12, ThenFaithful, Zenon
<1>. QED  BY <1>10, <1>11, Zenon

LEMMA ListFaithful ==
    ASSUME NEW B \in Seq(Seq(Nat)), NEW C \in Seq(Seq(Nat)),
           Len(B) = Len(C) => \A i \in 1..Len(B) : Separable(B[i], C[i])
    PROVE  Faithful(<<Len(B)>> \o FlattenSeq(B), <<Len(C)>> \o FlattenSeq(C), B, C)
<1>1. FlattenSeq(B) \in Seq(Nat) /\ FlattenSeq(C) \in Seq(Nat)
  <2>1. ASSUME NEW s \in Seq(Nat) PROVE Separable(s, s)
    BY SameLengthSeparable, Zenon
  <2>2. (\A i \in 1..Len(B) : B[i] \in Seq(Nat)) /\ \A i \in 1..Len(C) : C[i] \in Seq(Nat)
    OBVIOUS
  <2>. QED  BY <2>1, <2>2, FlattenSeparable, Zenon
<1>2. Faithful(<<Len(B)>>, <<Len(C)>>, Len(B), Len(C))
  BY ByteFaithful
<1>3. Len(B) = Len(C) => Faithful(FlattenSeq(B), FlattenSeq(C), B, C)
  BY <1>1, FlattenSeparable, Zenon DEF Faithful
<1>. QED  BY <1>1, <1>2, <1>3, ThenFaithful, Zenon

\* The bytes of what is in a list, and the list.
LEMMA SubjectsFaithful ==
    ASSUME NEW v \in Seq(SubjectRef), NEW w \in Seq(SubjectRef)
    PROVE  Faithful(List(v, SubjectBytes), List(w, SubjectBytes), v, w)
<1>. DEFINE B == [i \in DOMAIN v |-> SubjectBytes(v[i])]
            C == [i \in DOMAIN w |-> SubjectBytes(w[i])]
<1>1. \A x, y \in SubjectRef : Faithful(SubjectBytes(x), SubjectBytes(y), x, y)
  BY SubjectFaithful, Zenon
<1>2. \A x \in SubjectRef : SubjectBytes(x) \in Seq(Nat)
  BY <1>1, Zenon DEF Faithful
<1>. HIDE DEF SubjectBytes
<1>3. B \in Seq(Seq(Nat)) /\ C \in Seq(Seq(Nat)) /\ Len(B) = Len(v) /\ Len(C) = Len(w)
  <2>1. /\ DOMAIN v = 1..Len(v) /\ Len(v) \in Nat /\ \A i \in DOMAIN v : v[i] \in SubjectRef
        /\ DOMAIN w = 1..Len(w) /\ Len(w) \in Nat /\ \A i \in DOMAIN w : w[i] \in SubjectRef
    OBVIOUS
  <2>2. (\A i \in DOMAIN v : SubjectBytes(v[i]) \in Seq(Nat)) /\ \A i \in DOMAIN w : SubjectBytes(w[i]) \in Seq(Nat)
    BY <1>2, <2>1, Zenon
  <2>. DEFINE Bytes == Seq(Nat)
              m == Len(v)
              n == Len(w)
  <2>3. B \in [1..m -> Bytes] /\ C \in [1..n -> Bytes] /\ m \in Nat /\ n \in Nat
    BY <2>1, <2>2
  <2>. HIDE DEF Bytes, B, C, m, n
  <2>4. B \in Seq(Bytes) /\ C \in Seq(Bytes) /\ Len(B) = m /\ Len(C) = n
    BY <2>3
  <2>. QED  BY <2>4 DEF Bytes, m, n
<1>4. \A i \in 1..Len(v) : v[i] \in SubjectRef /\ B[i] = SubjectBytes(v[i])
  OBVIOUS
<1>5. \A i \in 1..Len(w) : w[i] \in SubjectRef /\ C[i] = SubjectBytes(w[i])
  OBVIOUS
<1>6. List(v, SubjectBytes) = <<Len(v)>> \o FlattenSeq(B) /\ List(w, SubjectBytes) = <<Len(w)>> \o FlattenSeq(C)
  BY DEF List
<1>. HIDE DEF B, C
<1>7. Len(B) = Len(C) => \A i \in 1..Len(B) : Faithful(B[i], C[i], v[i], w[i])
  BY <1>1, <1>3, <1>4, <1>5
<1>8. B = C => v = w
  <2>. SUFFICES ASSUME B = C PROVE v = w
    OBVIOUS
  <2>1. \A i \in 1..Len(v) : v[i] = w[i]
    BY <1>3, <1>7 DEF Faithful
  <2>. QED  BY <1>3, <2>1, SeqEqual
<1>9. Faithful(<<Len(B)>> \o FlattenSeq(B), <<Len(C)>> \o FlattenSeq(C), B, C)
  BY <1>3, <1>7, ListFaithful, Zenon DEF Faithful
<1>. QED  BY <1>3, <1>6, <1>8, <1>9, Zenon DEF Faithful

LEMMA ObjectsFaithful ==
    ASSUME NEW v \in Seq(Object), NEW w \in Seq(Object)
    PROVE  Faithful(List(v, ObjectBytes), List(w, ObjectBytes), v, w)
<1>. DEFINE B == [i \in DOMAIN v |-> ObjectBytes(v[i])]
            C == [i \in DOMAIN w |-> ObjectBytes(w[i])]
<1>1. \A x, y \in Object : Faithful(ObjectBytes(x), ObjectBytes(y), x, y)
  BY ObjectFaithful, Zenon
<1>2. \A x \in Object : ObjectBytes(x) \in Seq(Nat)
  BY <1>1, Zenon DEF Faithful
<1>. HIDE DEF ObjectBytes
<1>3. B \in Seq(Seq(Nat)) /\ C \in Seq(Seq(Nat)) /\ Len(B) = Len(v) /\ Len(C) = Len(w)
  <2>1. /\ DOMAIN v = 1..Len(v) /\ Len(v) \in Nat /\ \A i \in DOMAIN v : v[i] \in Object
        /\ DOMAIN w = 1..Len(w) /\ Len(w) \in Nat /\ \A i \in DOMAIN w : w[i] \in Object
    OBVIOUS
  <2>2. (\A i \in DOMAIN v : ObjectBytes(v[i]) \in Seq(Nat)) /\ \A i \in DOMAIN w : ObjectBytes(w[i]) \in Seq(Nat)
    BY <1>2, <2>1, Zenon
  <2>. DEFINE Bytes == Seq(Nat)
              m == Len(v)
              n == Len(w)
  <2>3. B \in [1..m -> Bytes] /\ C \in [1..n -> Bytes] /\ m \in Nat /\ n \in Nat
    BY <2>1, <2>2
  <2>. HIDE DEF Bytes, B, C, m, n
  <2>4. B \in Seq(Bytes) /\ C \in Seq(Bytes) /\ Len(B) = m /\ Len(C) = n
    BY <2>3
  <2>. QED  BY <2>4 DEF Bytes, m, n
<1>4. \A i \in 1..Len(v) : v[i] \in Object /\ B[i] = ObjectBytes(v[i])
  OBVIOUS
<1>5. \A i \in 1..Len(w) : w[i] \in Object /\ C[i] = ObjectBytes(w[i])
  OBVIOUS
<1>6. List(v, ObjectBytes) = <<Len(v)>> \o FlattenSeq(B) /\ List(w, ObjectBytes) = <<Len(w)>> \o FlattenSeq(C)
  BY DEF List
<1>. HIDE DEF B, C
<1>7. Len(B) = Len(C) => \A i \in 1..Len(B) : Faithful(B[i], C[i], v[i], w[i])
  BY <1>1, <1>3, <1>4, <1>5
<1>8. B = C => v = w
  <2>. SUFFICES ASSUME B = C PROVE v = w
    OBVIOUS
  <2>1. \A i \in 1..Len(v) : v[i] = w[i]
    BY <1>3, <1>7 DEF Faithful
  <2>. QED  BY <1>3, <2>1, SeqEqual
<1>9. Faithful(<<Len(B)>> \o FlattenSeq(B), <<Len(C)>> \o FlattenSeq(C), B, C)
  BY <1>3, <1>7, ListFaithful, Zenon DEF Faithful
<1>. QED  BY <1>3, <1>6, <1>8, <1>9, Zenon DEF Faithful

CoveredTypes == {"key", "u64", "choice", "name", "text", "subject", "subjects", "source", "objects"}
LEMMA FieldFaithful ==
    ASSUME NEW type \in CoveredTypes, NEW v \in ValueOf(type), NEW w \in ValueOf(type)
    PROVE  Faithful(FieldBytes(type, v), FieldBytes(type, w), v, w)
<1>1. CASE type \in {"key", "u64", "choice"}
  <2>1. v \in Nat /\ w \in Nat
    BY <1>1 DEF ValueOf
  <2>2. FieldBytes(type, v) = <<v>> /\ FieldBytes(type, w) = <<w>>
    BY <1>1 DEF FieldBytes
  <2>. QED  BY <2>1, <2>2, ByteFaithful, Zenon
<1>2. CASE type \in {"name", "text"}
  <2>1. v \in Text /\ w \in Text
    BY <1>2 DEF ValueOf
  <2>2. FieldBytes(type, v) = String(v) /\ FieldBytes(type, w) = String(w)
    BY <1>2 DEF FieldBytes
  <2>. QED  BY <2>1, <2>2, StringFaithful, Zenon
<1>3. CASE type = "subject"
  <2>1. v \in SubjectRef /\ w \in SubjectRef
    BY <1>3 DEF ValueOf
  <2>2. FieldBytes(type, v) = SubjectBytes(v) /\ FieldBytes(type, w) = SubjectBytes(w)
    BY <1>3 DEF FieldBytes
  <2>. QED  BY <2>1, <2>2, SubjectFaithful, Zenon
<1>4. CASE type = "subjects"
  <2>1. v \in Seq(SubjectRef) /\ w \in Seq(SubjectRef)
    BY <1>4 DEF ValueOf
  <2>2. FieldBytes(type, v) = List(v, SubjectBytes) /\ FieldBytes(type, w) = List(w, SubjectBytes)
    BY <1>4 DEF FieldBytes
  <2>. QED  BY <2>1, <2>2, SubjectsFaithful, Zenon
<1>5. CASE type = "source"
  <2>1. v \in SourceAttribution /\ w \in SourceAttribution
    BY <1>5 DEF ValueOf
  <2>2. FieldBytes(type, v) = SourceBytes(v) /\ FieldBytes(type, w) = SourceBytes(w)
    BY <1>5 DEF FieldBytes
  <2>. QED  BY <2>1, <2>2, SourceFaithful, Zenon
<1>6. CASE type = "objects"
  <2>1. v \in Seq(Object) /\ w \in Seq(Object)
    BY <1>6 DEF ValueOf
  <2>2. FieldBytes(type, v) = List(v, ObjectBytes) /\ FieldBytes(type, w) = List(w, ObjectBytes)
    BY <1>6 DEF FieldBytes
  <2>. QED  BY <2>1, <2>2, ObjectsFaithful, Zenon
<1>. QED  BY <1>1, <1>2, <1>3, <1>4, <1>5, <1>6 DEF CoveredTypes

\* The layouts: what the ID covers is of a type that has bytes.
LEMMA Layouts ==
    ASSUME NEW schema \in DOMAIN Layout
    PROVE  /\ Len(Layout[schema]) \in {3, 6, 7}
           /\ DOMAIN Layout[schema] = 1..Len(Layout[schema])
           /\ Covered(schema) \subseteq DOMAIN Layout[schema]
           /\ \A i \in Covered(schema) : Layout[schema][i] \in CoveredTypes
           /\ \A i \in DOMAIN Layout[schema] : Layout[schema][i] \in FieldTypes
<1>0. CoveredTypes \subseteq FieldTypes /\ "files" \in FieldTypes /\ "tags" \in FieldTypes
  BY DEF CoveredTypes, FieldTypes
<1>1. /\ TagClaimV1 \in Seq(CoveredTypes) /\ Len(TagClaimV1) = 7
      /\ CollectionV1 \in Seq(CoveredTypes) /\ Len(CollectionV1) = 7
      /\ TombstoneV1 \in Seq(CoveredTypes) /\ Len(TombstoneV1) = 6
      /\ ModerationDecisionV1 \in Seq(CoveredTypes) /\ Len(ModerationDecisionV1) = 7
      /\ BlocklistV1 \in Seq(CoveredTypes) /\ Len(BlocklistV1) = 6
      /\ DatasetManifestV1 \in Seq(CoveredTypes) /\ Len(DatasetManifestV1) = 3
  BY DEF TagClaimV1, CollectionV1, TombstoneV1, ModerationDecisionV1, BlocklistV1, DatasetManifestV1,
         CoveredTypes
<1>2. /\ ReleaseV1 \in Seq(CoveredTypes \cup {"files", "tags"}) /\ Len(ReleaseV1) = 7
      /\ \A i \in 1..3 : ReleaseV1[i] \in CoveredTypes
  BY DEF ReleaseV1, CoveredTypes
<1>. HIDE DEF CoveredTypes
<1>3. CASE schema = "release"
  <2>1. Layout[schema] = ReleaseV1 /\ Covered(schema) = 1..3
    BY <1>3 DEF Layout, Covered
  <2>2. /\ DOMAIN ReleaseV1 = 1..7 /\ Len(ReleaseV1) = 7 /\ 1..3 \subseteq 1..7
        /\ \A i \in 1..7 : ReleaseV1[i] \in FieldTypes
    <3>1. DOMAIN ReleaseV1 = 1..7
      BY <1>2
    <3>2. /\ ReleaseV1[4] \in FieldTypes /\ ReleaseV1[5] \in FieldTypes
          /\ ReleaseV1[6] \in FieldTypes /\ ReleaseV1[7] \in FieldTypes
      BY DEF ReleaseV1, FieldTypes
    <3>3. \A i \in 1..7 : i \in 1..3 \/ i = 4 \/ i = 5 \/ i = 6 \/ i = 7
      OBVIOUS
    <3>. QED  BY <1>0, <1>2, <3>1, <3>2, <3>3
  <2>. HIDE DEF Layout
  <2>. QED  BY <1>2, <2>1, <2>2
<1>4. CASE schema # "release"
  <2>1. Covered(schema) = DOMAIN Layout[schema]
    BY <1>4 DEF Covered
  <2>2. Layout[schema] \in {TagClaimV1, CollectionV1, TombstoneV1, ModerationDecisionV1,
                            BlocklistV1, DatasetManifestV1}
    BY <1>4 DEF Layout
  <2>3. Layout[schema] \in Seq(CoveredTypes) /\ Len(Layout[schema]) \in {3, 6, 7}
    BY <1>1, <2>2
  <2>. HIDE DEF Layout
  <2>. QED  BY <1>0, <2>1, <2>3
<1>. QED  BY <1>3, <1>4

\* The fields of a record are those of its schema.
FieldsTyped(d) ==
    /\ DOMAIN d.fields = DOMAIN Layout[d.schema]
    /\ \A i \in DOMAIN d.fields : d.fields[i] \in ValueOf(Layout[d.schema][i])

\* The canonical bytes of a schema are split in one way only.
LEMMA CanonicalFaithful ==
    ASSUME NEW d, NEW e, d.schema \in DOMAIN Layout, e.schema = d.schema,
           FieldsTyped(d), FieldsTyped(e), Canonical(d) = Canonical(e)
    PROVE  \A i \in Covered(d.schema) : d.fields[i] = e.fields[i]
<1>. DEFINE schema == d.schema
            f == d.fields
            g == e.fields
            N == Len(Layout[schema])
            Piece(h, i) == IF i \in Covered(schema) THEN FieldBytes(Layout[schema][i], h[i]) ELSE <<>>
            B == [i \in DOMAIN f |-> Piece(f, i)]
            C == [i \in DOMAIN g |-> Piece(g, i)]
<1>1. /\ DOMAIN f = DOMAIN Layout[schema] /\ DOMAIN g = DOMAIN Layout[schema]
      /\ \A i \in DOMAIN f : f[i] \in ValueOf(Layout[schema][i])
      /\ \A i \in DOMAIN g : g[i] \in ValueOf(Layout[schema][i])
  BY DEF FieldsTyped
<1>2. DOMAIN f = 1..N /\ DOMAIN g = 1..N /\ N \in Nat
  BY <1>1, Layouts
<1>4. ASSUME NEW i \in Covered(schema)
      PROVE  i \in DOMAIN f /\ Faithful(Piece(f, i), Piece(g, i), f[i], g[i])
  <2>1. i \in DOMAIN f /\ i \in DOMAIN g /\ Layout[schema][i] \in CoveredTypes
    BY <1>1, Layouts, Zenon
  <2>2. Faithful(FieldBytes(Layout[schema][i], f[i]), FieldBytes(Layout[schema][i], g[i]), f[i], g[i])
    BY <1>1, <2>1, FieldFaithful, Zenon
  <2>. QED  BY <2>1, <2>2, Zenon
<1>5. ASSUME NEW i, i \notin Covered(schema)
      PROVE  Piece(f, i) = <<>> /\ Piece(g, i) = <<>>
  BY <1>5
<1>6. /\ Canonical(d) = FlattenSeq(B)
      /\ Canonical(e) = FlattenSeq(C)
  BY Zenon DEF Canonical
<1>. HIDE DEF Piece
<1>7. ASSUME NEW i \in DOMAIN f
      PROVE  Piece(f, i) \in Seq(Nat) /\ Piece(g, i) \in Seq(Nat) /\ Separable(Piece(f, i), Piece(g, i))
  <2>1. CASE i \in Covered(schema)
    BY <1>4, <2>1, Zenon DEF Faithful
  <2>2. CASE i \notin Covered(schema)
    <3>1. <<>> \in Seq(Nat)
      OBVIOUS
    <3>. QED  BY <1>5, <2>2, <3>1, SameLengthSeparable, Zenon
  <2>. QED  BY <2>1, <2>2
<1>8. B \in Seq(Seq(Nat)) /\ C \in Seq(Seq(Nat)) /\ Len(B) = N /\ Len(C) = N
  <2>. DEFINE Bytes == Seq(Nat)
  <2>1. B \in [1..N -> Bytes] /\ C \in [1..N -> Bytes]
    BY <1>1, <1>2, <1>7
  <2>. HIDE DEF Bytes, B, C, N
  <2>2. B \in Seq(Bytes) /\ C \in Seq(Bytes) /\ Len(B) = N /\ Len(C) = N
    BY <1>2, <2>1
  <2>. QED  BY <2>2 DEF Bytes
<1>9. \A i \in DOMAIN f : B[i] = Piece(f, i) /\ C[i] = Piece(g, i)
  BY <1>1
<1>. HIDE DEF B, C, N
<1>10. B = C
  <2>1. \A i \in 1..Len(B) : Separable(B[i], C[i])
    BY <1>2, <1>7, <1>8, <1>9
  <2>. QED  BY <1>6, <1>8, <2>1, FlattenSeparable, Zenon
<1>11. ASSUME NEW i \in Covered(schema) PROVE f[i] = g[i]
  <2>1. Piece(f, i) = Piece(g, i)
    BY <1>4, <1>9, <1>10, Zenon
  <2>. QED  BY <1>4, <2>1, Zenon DEF Faithful
<1>. QED  BY <1>11, Zenon

\* What is drafted, and what sorting makes of it, keeps the types of its fields.
LEMMA ProductsTyped ==
    ASSUME NEW schema \in DOMAIN Layout, NEW F, NEW fields,
           \A i \in DOMAIN Layout[schema] : F[i] \subseteq ValueOf(Layout[schema][i]),
           fields \in CASE Len(Layout[schema]) = 3 -> F[1] \X F[2] \X F[3]
                       [] Len(Layout[schema]) = 6 -> F[1] \X F[2] \X F[3] \X F[4] \X F[5] \X F[6]
                       [] Len(Layout[schema]) = 7 -> F[1] \X F[2] \X F[3] \X F[4] \X F[5] \X F[6] \X F[7]
    PROVE  /\ DOMAIN fields = DOMAIN Layout[schema]
           /\ \A i \in DOMAIN fields : fields[i] \in ValueOf(Layout[schema][i])
<1>. DEFINE n == Len(Layout[schema])
<1>1. n \in {3, 6, 7} /\ DOMAIN Layout[schema] = 1..n
  BY Layouts, Zenon
<1>2. DOMAIN fields = 1..n /\ \A i \in 1..n : fields[i] \in F[i]
  <2>1. CASE n = 3
    <3>1. fields \in F[1] \X F[2] \X F[3]
      BY <2>1
    <3>2. \A i \in 1..3 : i = 1 \/ i = 2 \/ i = 3
      OBVIOUS
    <3>. HIDE DEF n
    <3>. QED  BY <2>1, <3>1, <3>2
  <2>2. CASE n = 6
    <3>1. fields \in F[1] \X F[2] \X F[3] \X F[4] \X F[5] \X F[6]
      BY <2>2
    <3>2. \A i \in 1..6 : i = 1 \/ i = 2 \/ i = 3 \/ i = 4 \/ i = 5 \/ i = 6
      OBVIOUS
    <3>. HIDE DEF n
    <3>. QED  BY <2>2, <3>1, <3>2
  <2>3. CASE n = 7
    <3>1. fields \in F[1] \X F[2] \X F[3] \X F[4] \X F[5] \X F[6] \X F[7]
      BY <2>3
    <3>2. \A i \in 1..7 : i = 1 \/ i = 2 \/ i = 3 \/ i = 4 \/ i = 5 \/ i = 6 \/ i = 7
      OBVIOUS
    <3>. HIDE DEF n
    <3>. QED  BY <2>3, <3>1, <3>2
  <2>. QED  BY <1>1, <2>1, <2>2, <2>3
<1>. HIDE DEF n
<1>. QED  BY <1>1, <1>2, Zenon

LEMMA DraftsTyped ==
    ASSUME NEW schema \in DOMAIN Layout, NEW d \in Drafts(schema)
    PROVE  d.schema = schema /\ FieldsTyped(d)
<1>. DEFINE F == [i \in DOMAIN Layout[schema] |-> Values[Layout[schema][i]]]
<1>1. \A i \in DOMAIN Layout[schema] : F[i] \subseteq ValueOf(Layout[schema][i])
  BY Layouts, ValuesAssumption
<1>2. Len(Layout[schema]) \in {3, 6, 7} /\ DOMAIN Layout[schema] = 1..Len(Layout[schema])
  BY Layouts, Zenon
<1>3. /\ d.schema = schema
      /\ d.fields \in CASE Len(Layout[schema]) = 3 -> F[1] \X F[2] \X F[3]
                         [] Len(Layout[schema]) = 6 -> F[1] \X F[2] \X F[3] \X F[4] \X F[5] \X F[6]
                         [] Len(Layout[schema]) = 7 -> F[1] \X F[2] \X F[3] \X F[4] \X F[5] \X F[6] \X F[7]
  <2>1. \A i \in 1..Len(Layout[schema]) : F[i] = Values[Layout[schema][i]]
    BY <1>2
  <2>. HIDE DEF F
  <2>2. CASE Len(Layout[schema]) = 3
    BY <2>1, <2>2 DEF Drafts, Drafted
  <2>3. CASE Len(Layout[schema]) = 6
    BY <2>1, <2>3 DEF Drafts, Drafted
  <2>4. CASE Len(Layout[schema]) = 7
    BY <2>1, <2>4 DEF Drafts, Drafted
  <2>. QED  BY <1>2, <2>2, <2>3, <2>4
<1>. HIDE DEF F
<1>. QED  BY <1>1, <1>3, ProductsTyped, Zenon DEF FieldsTyped

LEMMA ArrangementsTyped ==
    ASSUME NEW S, NEW seq \in Seq(S), NEW v \in Arrangements(seq)
    PROVE  v \in Seq(S)
<1>1. PICK p \in Bijection(DOMAIN seq, DOMAIN seq) : v = [i \in DOMAIN seq |-> seq[p[i]]]
  BY DEF Arrangements
<1>2. p \in [DOMAIN seq -> DOMAIN seq]
  BY DEF Bijection, Injection
<1>. DEFINE n == Len(seq)
<1>3. n \in Nat /\ DOMAIN seq = 1..n /\ \A i \in 1..n : seq[i] \in S
  OBVIOUS
<1>. HIDE DEF n
<1>4. v \in [1..n -> S]
  BY <1>1, <1>2, <1>3
<1>. QED  BY <1>3, <1>4

LEMMA SortedTyped ==
    ASSUME NEW d, d.schema \in DOMAIN Layout, FieldsTyped(d), NEW e \in SortedDrafts(d)
    PROVE  e.schema = d.schema /\ FieldsTyped(e)
<1>. DEFINE schema == d.schema
            F == [i \in DOMAIN Layout[schema] |-> SortedValues(Layout[schema][i], d.fields[i])]
<1>1. ASSUME NEW type, NEW v \in ValueOf(type) PROVE SortedValues(type, v) \subseteq ValueOf(type)
  <2>1. CASE type = "subjects"
    <3>1. ValueOf(type) = Seq(SubjectRef) /\ SortedValues(type, v) \subseteq Arrangements(v)
      BY <2>1 DEF ValueOf, SortedValues
    <3>. QED  BY <3>1, ArrangementsTyped, Zenon
  <2>2. CASE type = "objects"
    <3>1. ValueOf(type) = Seq(Object) /\ SortedValues(type, v) \subseteq Arrangements(v)
      BY <2>2 DEF ValueOf, SortedValues
    <3>. QED  BY <3>1, ArrangementsTyped, Zenon
  <2>3. CASE type # "subjects" /\ type # "objects"
    <3>1. SortedValues(type, v) = {v}
      BY <2>3 DEF SortedValues
    <3>. QED  BY <3>1
  <2>. QED  BY <2>1, <2>2, <2>3
<1>2. \A i \in DOMAIN Layout[schema] : d.fields[i] \in ValueOf(Layout[schema][i])
  BY DEF FieldsTyped
<1>3. \A i \in DOMAIN Layout[schema] : F[i] \subseteq ValueOf(Layout[schema][i])
  BY <1>1, <1>2
<1>4. Len(Layout[schema]) \in {3, 6, 7} /\ DOMAIN Layout[schema] = 1..Len(Layout[schema])
  BY Layouts, Zenon
<1>5. /\ e.schema = schema
      /\ e.fields \in CASE Len(Layout[schema]) = 3 -> F[1] \X F[2] \X F[3]
                         [] Len(Layout[schema]) = 6 -> F[1] \X F[2] \X F[3] \X F[4] \X F[5] \X F[6]
                         [] Len(Layout[schema]) = 7 -> F[1] \X F[2] \X F[3] \X F[4] \X F[5] \X F[6] \X F[7]
  <2>1. \A i \in 1..Len(Layout[schema]) : F[i] = SortedValues(Layout[schema][i], d.fields[i])
    BY <1>4
  <2>. HIDE DEF F
  <2>2. CASE Len(Layout[schema]) = 3
    BY <2>1, <2>2 DEF SortedDrafts, Drafted
  <2>3. CASE Len(Layout[schema]) = 6
    BY <2>1, <2>3 DEF SortedDrafts, Drafted
  <2>4. CASE Len(Layout[schema]) = 7
    BY <2>1, <2>4 DEF SortedDrafts, Drafted
  <2>. QED  BY <1>4, <2>2, <2>3, <2>4
<1>. HIDE DEF F
<1>. QED  BY <1>3, <1>5, ProductsTyped, Zenon DEF FieldsTyped

\* Where records stand: all have the fields of their schema; an ID is that of the
\* content it was made of; a document bears the ID and schema of the record it stands
\* for, and what is accepted is a document whose own bytes give that ID.
SentInv ==
    /\ draft.schema \in DOMAIN Layout => FieldsTyped(draft)
    /\ draft.schema \in DOMAIN Layout \cup {"import"}
    /\ record.schema \in DOMAIN Layout => FieldsTyped(record) /\ record.id = Canonical(record)
    /\ wire # Nothing => /\ wire.schema \in DOMAIN Layout /\ wire.schema = record.schema
                         /\ wire.id = record.id /\ FieldsTyped(wire)
    /\ accepted.schema \in DOMAIN Layout => /\ wire # Nothing /\ accepted = wire
                                            /\ accepted.id = Canonical(accepted)
    /\ accepted # Nothing => wire # Nothing
    /\ ImportsArePublic

\* What was not made, or was refused, is of no schema.
LEMMA Schemas ==
    /\ Nothing.schema = "none" /\ Refused.schema = "refused"
    /\ "none" \notin DOMAIN Layout /\ "refused" \notin DOMAIN Layout /\ "import" \notin DOMAIN Layout
  BY DEF Nothing, Refused, Layout

LEMMA SentInvInit == RecordsInit => SentInv
<1>. SUFFICES ASSUME RecordsInit PROVE SentInv
  OBVIOUS
<1>1. draft.schema \in DOMAIN Layout => FieldsTyped(draft)
  BY Schemas, DraftsTyped DEF RecordsInit
<1>2. draft.schema \in DOMAIN Layout \cup {"import"}
  BY DraftsTyped DEF RecordsInit
<1>. QED  BY <1>1, <1>2, Schemas DEF RecordsInit, SentInv, ImportsArePublic

LEMMA SentInvStep == SentInv /\ [RecordsNext]_recordVars => SentInv'
<1>. SUFFICES ASSUME SentInv, [RecordsNext]_recordVars PROVE SentInv'
  OBVIOUS
<1>. USE Schemas
<1>1. CASE Create
  <2>1. PICK d \in SortedDrafts(draft) : record' = New(d)
    BY <1>1 DEF Create
  <2>2. draft.schema \in DOMAIN Layout /\ FieldsTyped(draft) /\ record = Nothing
    BY <1>1 DEF Create, SentInv
  <2>3. wire = Nothing /\ accepted = Nothing
    BY <2>2 DEF SentInv
  <2>4. d.schema = draft.schema /\ FieldsTyped(d)
    BY <2>2, SortedTyped, Zenon
  <2>5. \/ record' = Refused
        \/ record' = WithId(d) /\ record'.schema = d.schema /\ record'.fields = d.fields /\ record'.id = Canonical(d)
    BY <2>1 DEF New, WithId
  <2>6. record'.schema # "import" /\ (record'.schema \in DOMAIN Layout =>
            FieldsTyped(record') /\ record'.id = Canonical(record'))
    BY <2>2, <2>4, <2>5 DEF FieldsTyped, Canonical
  <2>7. UNCHANGED <<draft, wire, accepted, torrent>>
    BY <1>1 DEF Create
  <2>. QED  BY <2>3, <2>6, <2>7 DEF SentInv, ImportsArePublic, FieldsTyped, Canonical
<1>2. CASE Import
  <2>1. PICK obs \in SUBSET Mapped(torrent) : record' = ImportOf(torrent.id, obs)
    BY <1>2 DEF Import
  <2>2. wire = Nothing /\ accepted = Nothing
    BY <1>2 DEF Import, SentInv
  <2>3. \/ record' = Refused
        \/ PublicImport(torrent.id, obs) /\ record'.schema = "import"
    BY <2>1 DEF ImportOf
  <2>4. PublicImport(torrent.id, obs) => ~torrent.private
    <3>. SUFFICES ASSUME PublicImport(torrent.id, obs) PROVE ~torrent.private
      OBVIOUS
    <3>1. PICK o \in obs : o.what = "public"
      BY DEF PublicImport
    <3>2. o.what = IF torrent.private THEN "private" ELSE "public"
      BY <3>1 DEF Mapped
    <3>. QED  BY <3>1, <3>2
  <2>5. UNCHANGED <<draft, wire, accepted, torrent>>
    BY <1>2 DEF Import
  <2>. QED  BY <2>2, <2>3, <2>4, <2>5 DEF SentInv, ImportsArePublic, FieldsTyped
<1>3. CASE Serve
  <2>1. PICK d \in Drafts(record.schema) :
           wire' = [schema |-> d.schema, fields |-> d.fields, id |-> record.id]
    BY <1>3 DEF Serve
  <2>2. record.schema \in DOMAIN Layout /\ wire = Nothing /\ accepted = Nothing
    BY <1>3 DEF Serve, SentInv
  <2>3. d.schema = record.schema /\ FieldsTyped(d)
    BY <2>2, DraftsTyped, Zenon
  <2>4. wire'.schema = record.schema /\ wire'.id = record.id /\ wire'.fields = d.fields /\ wire' # Nothing
    BY <2>1, <2>2, <2>3
  <2>5. FieldsTyped(wire')
    BY <2>3, <2>4, Zenon DEF FieldsTyped
  <2>6. UNCHANGED <<draft, record, accepted, torrent>>
    BY <1>3 DEF Serve
  <2>. QED  BY <2>2, <2>4, <2>5, <2>6 DEF SentInv, ImportsArePublic, FieldsTyped, Canonical
<1>4. CASE Read
  <2>1. wire # Nothing /\ accepted' = Parsed(wire)
    BY <1>4 DEF Read
  <2>2. accepted'.schema \in DOMAIN Layout => accepted' = wire /\ wire.id = Canonical(wire)
    BY <2>1 DEF Parsed
  <2>3. UNCHANGED <<draft, record, wire, torrent>>
    BY <1>4 DEF Read
  <2>. QED  BY <2>1, <2>2, <2>3 DEF SentInv, ImportsArePublic, FieldsTyped, Canonical
<1>5. CASE UNCHANGED recordVars
  BY <1>5 DEF recordVars, SentInv, ImportsArePublic, FieldsTyped, Canonical
<1>. QED  BY <1>1, <1>2, <1>3, <1>4, <1>5 DEF RecordsNext

LEMMA GenuineWhenSent == SentInv => AcceptedIsGenuine
<1>. SUFFICES ASSUME SentInv PROVE AcceptedIsGenuine
  OBVIOUS
<1>1. ASSUME accepted.schema \in DOMAIN Layout
      PROVE  \A i \in Covered(record.schema) : accepted.fields[i] = record.fields[i]
  <2>1. /\ accepted.schema = record.schema /\ FieldsTyped(accepted) /\ FieldsTyped(record)
        /\ Canonical(accepted) = Canonical(record)
    BY <1>1 DEF SentInv
  <2>. QED  BY <1>1, <2>1, CanonicalFaithful
<1>. QED  BY <1>1 DEF SentInv, AcceptedIsGenuine, IdsBindContent

\* What a reader accepts under an ID agrees with the record the ID was made for in every
\* field the ID covers, and a public import is never of a private torrent: for all
\* strings, lists, subjects and sources, not only the few values that are checked.
THEOREM AcceptedStayGenuine == RecordsSpec => []AcceptedIsGenuine
  BY GenuineWhenSent, SentInvInit, SentInvStep, PTL DEF RecordsSpec

LEMMA RecordsTypesInit == RecordsInit => RecordsTypeOK
<1>. SUFFICES ASSUME RecordsInit PROVE RecordsTypeOK
  OBVIOUS
<1>1. draft.schema \in DOMAIN Layout \cup {"import"}
  BY DraftsTyped DEF RecordsInit
<1>. QED  BY <1>1, Schemas DEF RecordsInit, RecordsTypeOK

\* What is made of a draft and read of a document has its schema, unless it is refused.
LEMMA RecordsTypesStep == SentInv /\ RecordsTypeOK /\ [RecordsNext]_recordVars => RecordsTypeOK'
<1>. SUFFICES ASSUME SentInv, RecordsTypeOK, [RecordsNext]_recordVars PROVE RecordsTypeOK'
  OBVIOUS
<1>. USE Schemas
<1>1. CASE Create
  <2>1. PICK d \in SortedDrafts(draft) : record' = New(d)
    BY <1>1 DEF Create
  <2>2. draft.schema \in DOMAIN Layout /\ FieldsTyped(draft)
    BY <1>1 DEF Create, SentInv
  <2>3. d.schema = draft.schema
    BY <2>2, SortedTyped, Zenon
  <2>4. record'.schema \in {d.schema, "refused"}
    BY <2>1 DEF New, WithId
  <2>5. UNCHANGED <<draft, wire, accepted, torrent>>
    BY <1>1 DEF Create
  <2>. QED  BY <2>3, <2>4, <2>5 DEF RecordsTypeOK
<1>2. CASE Import
  <2>1. draft.schema = "import" /\ record'.schema \in {"import", "refused"}
    BY <1>2 DEF Import, ImportOf
  <2>2. UNCHANGED <<draft, wire, accepted, torrent>>
    BY <1>2 DEF Import
  <2>. QED  BY <2>1, <2>2 DEF RecordsTypeOK
<1>3. CASE Serve
  <2>1. PICK d \in Drafts(record.schema) :
           wire' = [schema |-> d.schema, fields |-> d.fields, id |-> record.id]
    BY <1>3 DEF Serve
  <2>2. record.schema \in DOMAIN Layout
    BY <1>3 DEF Serve
  <2>3. d.schema = record.schema
    BY <2>2, DraftsTyped, Zenon
  <2>4. wire'.schema = record.schema
    BY <2>1, <2>3
  <2>5. record.schema = draft.schema
    BY <2>2 DEF RecordsTypeOK
  <2>6. UNCHANGED <<draft, record, accepted, torrent>>
    BY <1>3 DEF Serve
  <2>. QED  BY <2>4, <2>5, <2>6 DEF RecordsTypeOK
<1>4. CASE Read
  <2>1. wire # Nothing /\ accepted' = Parsed(wire)
    BY <1>4 DEF Read
  <2>2. accepted'.schema \in {wire.schema, "refused"}
    BY <2>1 DEF Parsed
  <2>3. UNCHANGED <<draft, record, wire, torrent>>
    BY <1>4 DEF Read
  <2>. QED  BY <2>2, <2>3 DEF RecordsTypeOK
<1>5. CASE UNCHANGED recordVars
  BY <1>5 DEF recordVars, RecordsTypeOK
<1>. QED  BY <1>1, <1>2, <1>3, <1>4, <1>5 DEF RecordsNext

\* A record, the document that is served for it and what is accepted of that are of the
\* schema that was submitted.
THEOREM RecordsTypeCorrect == RecordsSpec => []RecordsTypeOK
  BY SentInvInit, SentInvStep, RecordsTypesInit, RecordsTypesStep, PTL DEF RecordsSpec
=============================================================================
