-------------------------- MODULE TokenServiceProofs --------------------------
(***************************************************************************)
(* The safety invariants of TokenService hold for every set of requests and *)
(* every number of token pairs.                                             *)
(*                                                                         *)
(* They follow from one fact, Written: as long as nothing went wrong, the   *)
(* pair in the file is the newest one, except while somebody exchanges it.  *)
(* The other parts of IInv are what makes Written inductive: whoever is     *)
(* inside EnsureFreshToken holds the lock (LockHeld), what it asks with is  *)
(* the pair in memory (Asking), and what it got is the newest (Exchanged).  *)
(***************************************************************************)
EXTENDS TokenService, TLAPS

Inside == {"check", "refreshing", "answered", "save", "failed"}

LockHeld == \A c \in Caller : pc[c] \in Inside => mu = c

\* Who may be where: nobody in a process that is down, only Run before it serves, and
\* Run's own call is over then.
Stages ==
    /\ phase = "down" => \A c \in Caller : pc[c] = "idle"
    /\ phase = "booting" => \A c \in Caller \ {Main} : pc[c] = "idle"
    /\ phase = "serving" => pc[Main] = "idle"

Asking == \A c \in Caller : pc[c] \in {"refreshing", "answered"} => asked[c] = mem

Exchanged ==
    \A c \in Caller : pc[c] \in Exchanging =>
        /\ asked[c] < issued /\ got[c] = issued
        /\ pc[c] = "save" => mem = issued

\* The pairs in use were issued, the last one is accepted, the exchanged ones are old.
Numbered ==
    /\ mem <= issued /\ disk <= issued
    /\ issued # 0 => issued \in valid
    /\ \A p \in retired : p < issued

Written == ~mishap => disk = issued \/ \E c \in Caller : pc[c] \in Exchanging

InMemory == phase # "down" /\ ~mishap => disk = mem \/ \E c \in Caller : pc[c] = "save"

IInv == /\ TypeOK
        /\ LockHeld
        /\ Stages
        /\ Asking
        /\ Exchanged
        /\ Numbered
        /\ Written
        /\ InMemory

----------------------------------------------------------------------------
(* Types *)

LEMMA TypeInit == Init => TypeOK
<1> SUFFICES ASSUME Init PROVE TypeOK
  OBVIOUS
<1>1. 0 \in Pair
  BY ConstantsAssumption DEF Pair
<1> QED
  BY <1>1 DEF Init, TypeOK, Place, Age

LEMMA TypeStep == TypeOK /\ [Next]_vars => TypeOK'
<1> SUFFICES ASSUME TypeOK, [Next]_vars PROVE TypeOK'
  OBVIOUS
<1> USE DEF TypeOK, Place, server
<1>1. ASSUME NEW c \in Caller, NEW place \in {"idle", "ready", "refused"},
             Return(c, place)
      PROVE  /\ pc' \in [Caller -> Place] /\ mu' \in Caller \cup {NoOne}
             /\ asked' \in [Caller -> Pair] /\ got' \in [Caller -> Pair]
  BY <1>1, ConstantsAssumption DEF Return, Goto, Pair
<1>2. ASSUME issued < MaxPairs, issued' = issued + 1 PROVE issued + 1 \in Pair
  BY <1>2, ConstantsAssumption DEF Pair
<1>3. ASSUME NEW c \in Caller, Call(c) \/ Lock(c) \/ Reject(c) \/ LoseReply(c) PROVE TypeOK'
  BY <1>3 DEF Call, Lock, Reject, LoseReply, Goto
<1>4. ASSUME NEW c \in Caller, Check(c) PROVE TypeOK'
  <2>1. CASE mem = 0 /\ Return(c, "refused")
    BY <1>1, <1>4, <2>1 DEF Check
  <2>2. CASE mem # 0 /\ age[mem] = "fresh" /\ Return(c, "ready")
    BY <1>1, <1>4, <2>2 DEF Check
  <2>3. CASE /\ asked' = [asked EXCEPT ![c] = mem]
             /\ Goto(c, "refreshing")
             /\ UNCHANGED <<mu, got>>
    BY <1>4, <2>3 DEF Check, Goto
  <2> QED
    BY <1>4, <2>1, <2>2, <2>3 DEF Check
<1>5. ASSUME NEW c \in Caller, NEW revokes \in BOOLEAN, NEW a \in Age, Issue(c, revokes, a)
      PROVE  TypeOK'
  <2>1. issued + 1 \in Pair
    BY <1>2, <1>5 DEF Issue
  <2>2. age' \in [Pair -> Age] /\ got' \in [Caller -> Pair] /\ valid' \subseteq Pair
    BY <1>5, <2>1 DEF Issue
  <2> QED
    BY <1>5, <2>1, <2>2 DEF Issue, Goto
<1>6. ASSUME NEW c \in Caller, Apply(c) PROVE TypeOK'
  BY <1>6 DEF Apply, Goto
<1>7. ASSUME NEW c \in Caller, ApplyFails(c) \/ Save(c) \/ SaveFails(c) \/ RefreshFailed(c)
      PROVE  TypeOK'
  BY <1>1, <1>7 DEF ApplyFails, Save, SaveFails, RefreshFailed
<1>8. ASSUME NEW c \in Caller, Resume(c) PROVE TypeOK'
  BY <1>8, ConstantsAssumption DEF Resume, Goto, Pair
<1>9. CASE Start
  BY <1>9 DEF Start, Caller
<1>10. CASE Stop
  BY <1>10, ConstantsAssumption DEF Stop, Pair
<1>11. CASE Login
  <2>1. issued + 1 \in Pair
    BY <1>2, <1>11 DEF Login
  <2>2. age' \in [Pair -> Age] /\ valid' \subseteq Pair
    BY <1>11, <2>1 DEF Login, Age
  <2> QED
    BY <1>11, <2>1, <2>2 DEF Login
<1>12. ASSUME NEW p \in Pair, Tick(p) PROVE TypeOK'
  BY <1>12 DEF Tick, Age
<1>13. CASE UNCHANGED vars
  BY <1>13 DEF vars
<1> QED
  BY <1>3, <1>4, <1>5, <1>6, <1>7, <1>8, <1>9, <1>10, <1>11, <1>12, <1>13 DEF Next, Exchange

----------------------------------------------------------------------------
(* The inductive invariant *)

LEMMA InvInit == Init => IInv
<1> SUFFICES ASSUME Init PROVE IInv
  OBVIOUS
<1>1. TypeOK
  BY TypeInit
<1>2. LockHeld /\ Stages /\ Asking /\ Exchanged
  BY DEF Init, LockHeld, Stages, Asking, Exchanged, Inside, Exchanging, Caller
<1>3. Numbered /\ Written /\ InMemory
  BY DEF Init, Numbered, Written, InMemory
<1> QED
  BY <1>1, <1>2, <1>3 DEF IInv

LEMMA InvStep == IInv /\ [Next]_vars => IInv'
<1> SUFFICES ASSUME IInv, [Next]_vars PROVE IInv'
  OBVIOUS
<1>0. TypeOK'
  BY TypeStep DEF IInv
<1> USE <1>0, ConstantsAssumption
        DEF IInv, TypeOK, Pair, Caller, Inside, Exchanging, server
<1>1. ASSUME NEW c \in Caller, Call(c) PROVE IInv'
  <2>1. LockHeld' /\ Stages'
    BY <1>1 DEF Call, Goto, LockHeld, Stages
  <2>2. Asking' /\ Exchanged'
    BY <1>1 DEF Call, Goto, LockHeld, Stages, Asking, Exchanged, Numbered
  <2>3. Numbered'
    BY <1>1 DEF Call, Goto, Exchanged, Numbered
  <2>4. Written' /\ InMemory'
    BY <1>1 DEF Call, Goto, LockHeld, Stages, Asking, Exchanged, Numbered, Written, InMemory
  <2> QED
    BY <2>1, <2>2, <2>3, <2>4
<1>2. ASSUME NEW c \in Caller, Lock(c) PROVE IInv'
  <2>1. LockHeld' /\ Stages'
    BY <1>2 DEF Lock, Goto, LockHeld, Stages
  <2>2. Asking' /\ Exchanged'
    BY <1>2 DEF Lock, Goto, LockHeld, Stages, Asking, Exchanged, Numbered
  <2>3. Numbered'
    BY <1>2 DEF Lock, Goto, Exchanged, Numbered
  <2>4. Written' /\ InMemory'
    BY <1>2 DEF Lock, Goto, LockHeld, Stages, Asking, Exchanged, Numbered, Written, InMemory
  <2> QED
    BY <2>1, <2>2, <2>3, <2>4
<1>3. ASSUME NEW c \in Caller, Check(c) PROVE IInv'
  <2>1. LockHeld' /\ Stages'
    BY <1>3 DEF Check, Return, Goto, LockHeld, Stages
  <2>2. Asking' /\ Exchanged'
    BY <1>3, ZenonT(60) DEF Check, Return, Goto, LockHeld, Stages, Asking, Exchanged, Numbered
  <2>3. Numbered'
    BY <1>3 DEF Check, Return, Goto, Exchanged, Numbered
  <2>4. Written' /\ InMemory'
    BY <1>3 DEF Check, Return, Goto, LockHeld, Stages, Asking, Exchanged, Numbered, Written, InMemory
  <2> QED
    BY <2>1, <2>2, <2>3, <2>4
<1>4. ASSUME NEW c \in Caller, NEW revokes \in BOOLEAN, NEW a \in Age,
             Issue(c, revokes, a)
      PROVE  IInv'
  <2>1. LockHeld' /\ Stages'
    BY <1>4 DEF Issue, Goto, LockHeld, Stages
  <2>2. Asking' /\ Exchanged'
    BY <1>4 DEF Issue, Goto, LockHeld, Stages, Asking, Exchanged, Numbered
  <2>3. Numbered'
    BY <1>4 DEF Issue, Goto, Exchanged, Numbered
  <2>4. Written' /\ InMemory'
    BY <1>4 DEF Issue, Goto, LockHeld, Stages, Asking, Exchanged, Numbered, Written, InMemory
  <2> QED
    BY <2>1, <2>2, <2>3, <2>4
<1>5. ASSUME NEW c \in Caller, Reject(c) PROVE IInv'
  <2>1. LockHeld' /\ Stages'
    BY <1>5 DEF Reject, Goto, LockHeld, Stages
  <2>2. Asking' /\ Exchanged'
    BY <1>5 DEF Reject, Goto, LockHeld, Stages, Asking, Exchanged, Numbered
  <2>3. Numbered'
    BY <1>5 DEF Reject, Goto, Exchanged, Numbered
  <2>4. Written' /\ InMemory'
    BY <1>5 DEF Reject, Goto, LockHeld, Stages, Asking, Exchanged, Numbered, Written, InMemory
  <2> QED
    BY <2>1, <2>2, <2>3, <2>4
<1>6. ASSUME NEW c \in Caller, LoseReply(c) PROVE IInv'
  <2>1. LockHeld' /\ Stages'
    BY <1>6 DEF LoseReply, Goto, LockHeld, Stages
  <2>2. Asking' /\ Exchanged'
    BY <1>6 DEF LoseReply, Goto, LockHeld, Stages, Asking, Exchanged, Numbered
  <2>3. Numbered'
    BY <1>6 DEF LoseReply, Goto, Exchanged, Numbered
  <2>4. Written' /\ InMemory'
    BY <1>6 DEF LoseReply, Goto, LockHeld, Stages, Asking, Exchanged, Numbered, Written, InMemory
  <2> QED
    BY <2>1, <2>2, <2>3, <2>4
<1>7. ASSUME NEW c \in Caller, Apply(c) PROVE IInv'
  <2>1. LockHeld' /\ Stages'
    BY <1>7 DEF Apply, Goto, LockHeld, Stages
  <2>2. Asking' /\ Exchanged'
    BY <1>7 DEF Apply, Goto, LockHeld, Stages, Asking, Exchanged, Numbered
  <2>3. Numbered'
    BY <1>7 DEF Apply, Goto, Exchanged, Numbered
  <2>4. Written' /\ InMemory'
    BY <1>7 DEF Apply, Goto, LockHeld, Stages, Asking, Exchanged, Numbered, Written, InMemory
  <2> QED
    BY <2>1, <2>2, <2>3, <2>4
<1>8. ASSUME NEW c \in Caller, Save(c) PROVE IInv'
  <2>1. LockHeld' /\ Stages'
    BY <1>8 DEF Save, Return, Goto, LockHeld, Stages
  <2>2. Asking' /\ Exchanged'
    BY <1>8 DEF Save, Return, Goto, LockHeld, Stages, Asking, Exchanged, Numbered
  <2>3. Numbered'
    BY <1>8 DEF Save, Return, Goto, Exchanged, Numbered
  <2>4. Written' /\ InMemory'
    BY <1>8 DEF Save, Return, Goto, LockHeld, Stages, Asking, Exchanged, Numbered, Written, InMemory
  <2> QED
    BY <2>1, <2>2, <2>3, <2>4
<1>9. ASSUME NEW c \in Caller, SaveFails(c) PROVE IInv'
  <2>1. LockHeld' /\ Stages'
    BY <1>9 DEF SaveFails, Return, Goto, LockHeld, Stages
  <2>2. Asking' /\ Exchanged'
    BY <1>9 DEF SaveFails, Return, Goto, LockHeld, Stages, Asking, Exchanged, Numbered
  <2>3. Numbered'
    BY <1>9 DEF SaveFails, Return, Goto, Exchanged, Numbered
  <2>4. Written' /\ InMemory'
    BY <1>9 DEF SaveFails, Return, Goto, LockHeld, Stages, Asking, Exchanged, Numbered, Written, InMemory
  <2> QED
    BY <2>1, <2>2, <2>3, <2>4
<1>10. ASSUME NEW c \in Caller, RefreshFailed(c) PROVE IInv'
  <2>1. LockHeld' /\ Stages'
    BY <1>10 DEF RefreshFailed, Return, Goto, LockHeld, Stages
  <2>2. Asking' /\ Exchanged'
    BY <1>10 DEF RefreshFailed, Return, Goto, LockHeld, Stages, Asking, Exchanged, Numbered
  <2>3. Numbered'
    BY <1>10 DEF RefreshFailed, Return, Goto, Exchanged, Numbered
  <2>4. Written' /\ InMemory'
    BY <1>10 DEF RefreshFailed, Return, Goto, LockHeld, Stages, Asking, Exchanged, Numbered, Written, InMemory
  <2> QED
    BY <2>1, <2>2, <2>3, <2>4
<1>11. ASSUME NEW c \in Caller, Resume(c) PROVE IInv'
  <2>1. LockHeld' /\ Stages'
    BY <1>11 DEF Resume, Goto, LockHeld, Stages
  <2>2. Asking' /\ Exchanged'
    BY <1>11 DEF Resume, Goto, LockHeld, Stages, Asking, Exchanged, Numbered
  <2>3. Numbered'
    BY <1>11 DEF Resume, Goto, Exchanged, Numbered
  <2>4. Written' /\ InMemory'
    BY <1>11 DEF Resume, Goto, LockHeld, Stages, Asking, Exchanged, Numbered, Written, InMemory
  <2> QED
    BY <2>1, <2>2, <2>3, <2>4
<1>12. CASE Start
  <2>1. LockHeld' /\ Stages'
    BY <1>12 DEF Start, LockHeld, Stages
  <2>2. Asking' /\ Exchanged'
    BY <1>12 DEF Start, LockHeld, Stages, Asking, Exchanged, Numbered
  <2>3. Numbered'
    BY <1>12 DEF Start, Exchanged, Numbered
  <2>4. Written' /\ InMemory'
    BY <1>12 DEF Start, LockHeld, Stages, Asking, Exchanged, Numbered, Written, InMemory
  <2> QED
    BY <2>1, <2>2, <2>3, <2>4
<1>13. CASE Stop
  <2>1. LockHeld' /\ Stages'
    BY <1>13 DEF Stop, LockHeld, Stages
  <2>2. Asking' /\ Exchanged'
    BY <1>13 DEF Stop, LockHeld, Stages, Asking, Exchanged, Numbered
  <2>3. Numbered'
    BY <1>13 DEF Stop, Exchanged, Numbered
  <2>4. Written' /\ InMemory'
    BY <1>13 DEF Stop, LockHeld, Stages, Asking, Exchanged, Numbered, Written, InMemory
  <2> QED
    BY <2>1, <2>2, <2>3, <2>4
<1>14. CASE Login
  <2>1. LockHeld' /\ Stages'
    BY <1>14 DEF Login, LockHeld, Stages
  <2>2. Asking' /\ Exchanged'
    BY <1>14 DEF Login, LockHeld, Stages, Asking, Exchanged, Numbered
  <2>3. Numbered'
    BY <1>14 DEF Login, Exchanged, Numbered
  <2>4. Written' /\ InMemory'
    BY <1>14 DEF Login, LockHeld, Stages, Asking, Exchanged, Numbered, Written, InMemory
  <2> QED
    BY <2>1, <2>2, <2>3, <2>4
<1>15. ASSUME NEW p \in Pair, Tick(p) PROVE IInv'
  <2>1. LockHeld' /\ Stages'
    BY <1>15 DEF Tick, LockHeld, Stages
  <2>2. Asking' /\ Exchanged'
    BY <1>15 DEF Tick, LockHeld, Stages, Asking, Exchanged, Numbered
  <2>3. Numbered'
    BY <1>15 DEF Tick, Exchanged, Numbered
  <2>4. Written' /\ InMemory'
    BY <1>15 DEF Tick, LockHeld, Stages, Asking, Exchanged, Numbered, Written, InMemory
  <2> QED
    BY <2>1, <2>2, <2>3, <2>4
<1>16. ASSUME NEW c \in Caller, ApplyFails(c) PROVE IInv'
  <2>1. LockHeld' /\ Stages'
    BY <1>16 DEF ApplyFails, Return, Goto, LockHeld, Stages
  <2>2. Asking' /\ Exchanged'
    BY <1>16 DEF ApplyFails, Return, Goto, LockHeld, Stages, Asking, Exchanged, Numbered
  <2>3. Numbered'
    BY <1>16 DEF ApplyFails, Return, Goto, Exchanged, Numbered
  <2>4. Written' /\ InMemory'
    BY <1>16 DEF ApplyFails, Return, Goto, LockHeld, Stages, Asking, Exchanged, Numbered, Written,
                 InMemory
  <2> QED
    BY <2>1, <2>2, <2>3, <2>4
<1>17. CASE UNCHANGED vars
  BY <1>17 DEF vars, LockHeld, Stages, Asking, Exchanged, Numbered, Written, InMemory
<1> QED
  BY SMTT(30), <1>1, <1>2, <1>3, <1>4, <1>5, <1>6, <1>7, <1>8, <1>9, <1>10, <1>11, <1>12, <1>13, <1>14,
     <1>15, <1>16, <1>17 DEF Next, Exchange

LEMMA Inductive == Spec => []IInv
BY InvInit, InvStep, PTL DEF Spec

----------------------------------------------------------------------------
(* The theorems *)

\* Every variable keeps its type.
THEOREM TypeCorrect == Spec => []TypeOK
BY TypeInit, TypeStep, PTL DEF Spec

\* EnsureFreshToken presents no refresh token a second time, however many goroutines find
\* it near its expiry, as long as no reply and no file was lost.
THEOREM UsedOnce == Spec => []RefreshTokenUsedOnce
<1>1. IInv => RefreshTokenUsedOnce
  BY ConstantsAssumption
     DEF IInv, TypeOK, LockHeld, Stages, Asking, Numbered, Written, InMemory, Inside, Exchanging,
         Caller, Pair, RefreshTokenUsedOnce
<1> QED
  BY <1>1, Inductive, PTL

\* The file has the pair in memory whenever the lock is free.
THEOREM FileFollows == Spec => []FileKeepsUp
<1>1. IInv => FileKeepsUp
  BY ConstantsAssumption
     DEF IInv, TypeOK, LockHeld, InMemory, Inside, Exchanging, Caller, FileKeepsUp
<1> QED
  BY <1>1, Inductive, PTL

\* The refresh token in the file can be used after a restart, at whatever step the process
\* was stopped, unless a reply or a file was lost.
THEOREM RestartCanRefresh == Spec => []LogoutNeedsMishap
<1>1. IInv => LogoutNeedsMishap
  BY DEF IInv, Numbered, Written, LogoutNeedsMishap
<1> QED
  BY <1>1, Inductive, PTL

=============================================================================
