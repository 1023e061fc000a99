-------------------------- MODULE StubDrivesProofs --------------------------
(***************************************************************************)
(* Proofs about StubDrives, for any number of drives, containers and       *)
(* requests, with requests that overlap, fail, or are served although the  *)
(* host gave them up.                                                      *)
(***************************************************************************)
EXTENDS StubDrives, SequenceTheorems, TLAPS

\* The list of free drives without its head, which is how Reserve takes one.
LEMMA TailFacts ==
    ASSUME NEW S, NEW s \in Seq(S), s # <<>>
    PROVE  /\ Len(s) \in Nat /\ Len(s) >= 1 /\ DOMAIN s = 1 .. Len(s)
           /\ Head(s) = s[1] /\ Head(s) \in S
           /\ Tail(s) \in Seq(S) /\ DOMAIN Tail(s) = 1 .. (Len(s) - 1)
           /\ \A i \in 1 .. (Len(s) - 1) : Tail(s)[i] = s[i + 1]
<1>1. Len(s) \in Nat /\ DOMAIN s = 1 .. Len(s)
  BY LenProperties
<1>2. Tail(s) \in Seq(S) /\ Len(Tail(s)) = Len(s) - 1 /\ Head(s) = s[1] /\ Len(s) >= 1
  BY <1>1, HeadTailProperties, EmptySeq
<1>. QED
  BY <1>1, <1>2, HeadTailProperties, LenProperties, ElementOfSeq

\* The list of free drives with one more at its end, as Release leaves it.
LEMMA AppendFacts ==
    ASSUME NEW S, NEW s \in Seq(S), NEW x \in S
    PROVE  /\ Len(s) \in Nat /\ DOMAIN s = 1 .. Len(s)
           /\ Append(s, x) \in Seq(S)
           /\ DOMAIN Append(s, x) = 1 .. (Len(s) + 1)
           /\ \A i \in 1 .. Len(s) : Append(s, x)[i] = s[i]
           /\ Append(s, x)[Len(s) + 1] = x
  BY AppendProperties, LenProperties

-----------------------------------------------------------------------------
(* Types.                                                                  *)

\* The initial state is in the types.
LEMMA TypeInit == Init => TypeOK
<1> SUFFICES ASSUME Init PROVE TypeOK
  OBVIOUS
<1>1. free \in Seq(Drives)
  BY DriveCountAssumption DEF Init, Drives
<1>. QED
  BY <1>1, NoCallAssumption DEF Init, TypeOK

\* Every action keeps the types; the list of drives is popped only if it is
\* not empty.
LEMMA TypeStep ==
    ASSUME TypeOK, [Next]_vars,
           \A c \in Calls : pc[c] \in Reserving => free # <<>>,
           \A c \in Calls : pc[c] \in Releasing => cid[c] \in DOMAIN used
    PROVE  TypeOK'
<1> USE DEF TypeOK, Reserving, Releasing, Waiting, Replies, Goto, GiveUp,
            handlerVars, guestVars, taskVars
<1>1. ASSUME NEW c \in Calls, Create(c) PROVE TypeOK'
  BY <1>1 DEF Create
<1>2. ASSUME NEW c \in Calls, Reserve(c) PROVE TypeOK'
  BY <1>2 DEF Reserve
<1>3. ASSUME NEW c \in Calls, Patch(c) PROVE TypeOK'
  BY <1>3, TailFacts DEF Patch
<1>4. ASSUME NEW c \in Calls, Mount(c) PROVE TypeOK'
  <2>1. pc[c] = "mount" /\ free # <<>>
    BY <1>4 DEF Mount
  <2>2. Head(free) \in Drives /\ Tail(free) \in Seq(Drives)
    BY <2>1, TailFacts
  <2>3. /\ UNCHANGED <<cid, backing, taskVars>>
        /\ holder' = NoCall
        /\ pc' = [pc EXCEPT ![c] = "task"] \/ pc' = [pc EXCEPT ![c] = "failed"]
    BY <1>4 DEF Mount
  <2>4. mounted' \subseteq Drives \X Ids /\ late' \subseteq Drives \X Ids
    BY <1>4, <2>2 DEF Mount
  <2>5. free' \in Seq(Drives)
    BY <1>4, <2>2 DEF Mount
  <2>6. DOMAIN used' \subseteq Ids /\ used' \in [DOMAIN used' -> Drives]
    BY <1>4, <2>2 DEF Mount
  <2>. QED
    BY <2>3, <2>4, <2>5, <2>6
<1>5. ASSUME NEW c \in Calls, CreateTask(c) PROVE TypeOK'
  BY <1>5 DEF CreateTask
<1>6. ASSUME NEW c \in Calls, Delete(c) PROVE TypeOK'
  BY <1>6 DEF Delete
<1>7. ASSUME NEW c \in Calls, Release(c) PROVE TypeOK'
  BY <1>7 DEF Release
<1>8. ASSUME NEW c \in Calls, Unmount(c) PROVE TypeOK'
  BY <1>8 DEF Unmount
<1>9. ASSUME NEW c \in Calls, Repatch(c) PROVE TypeOK'
  <2>1. pc[c] = "repatch" /\ used[cid[c]] \in Drives
    BY <1>9 DEF Repatch
  <2>2. Append(free, used[cid[c]]) \in Seq(Drives)
    BY <2>1, AppendFacts
  <2>3. /\ UNCHANGED <<cid, mounted, late, taskVars>>
        /\ holder' = NoCall
        /\ pc' = [pc EXCEPT ![c] = "unlink"] \/ pc' = [pc EXCEPT ![c] = "unlinkErr"]
    BY <1>9 DEF Repatch
  <2>4. backing' \in [Drives -> Ids \cup {Stub}]
    BY <1>9, <2>1 DEF Repatch
  <2>5. free' \in Seq(Drives)
    BY <1>9, <2>2 DEF Repatch
  <2>6. DOMAIN used' \subseteq Ids /\ used' \in [DOMAIN used' -> Drives]
    BY <1>9, <2>2 DEF Repatch, Restrict
  <2>. QED
    BY <2>3, <2>4, <2>5, <2>6
<1>10. ASSUME NEW c \in Calls, Unlink(c) PROVE TypeOK'
  BY <1>10 DEF Unlink
<1>11. ASSUME NEW m \in late, LateMount(m) PROVE TypeOK'
  BY <1>11 DEF LateMount
<1>12. CASE UNCHANGED vars
  BY <1>12 DEF vars
<1>. QED
  BY <1>1, <1>2, <1>3, <1>4, <1>5, <1>6, <1>7, <1>8, <1>9, <1>10, <1>11, <1>12
  DEF Next, CallStep, CreateStep, DeleteStep

-----------------------------------------------------------------------------
(* The inductive invariant.                                                *)

Active(c) == pc[c] \in Reserving \cup Releasing \cup Waiting

\* A container with a running request has its link and no task, and the
\* request is the only one: the link admits one Create, a task one Delete.
OneOwner ==
    /\ tasks \subseteq links
    /\ \A c \in Calls : Active(c) => cid[c] \in links /\ cid[c] \notin tasks
    /\ \A c, d \in Calls : Active(c) /\ Active(d) /\ cid[c] = cid[d] => c = d

\* The handler's mutex excludes.
Locked == \A c \in Calls : pc[c] \in Reserving \cup Releasing => holder = c

\* What was checked under the mutex still holds when it is used.
Checked ==
    /\ \A c \in Calls : pc[c] \in Reserving => free # <<>> /\ cid[c] \notin DOMAIN used
    /\ \A c \in Calls : pc[c] \in Releasing => cid[c] \in DOMAIN used

\* The container has a drive that serves its image as its rootfs.
Has(id) ==
    /\ id \in DOMAIN used
    /\ backing[used[id]] = id
    /\ <<used[id], id>> \in mounted

Reserved ==
    /\ \A c \in Calls : pc[c] = "mount" => backing[free[1]] = cid[c]
    /\ \A c \in Calls : pc[c] = "task" => Has(cid[c])

\* No drive but the container's own serves the container's image.
Clean(id) == \A d \in Drives : backing[d] = id => id \in DOMAIN used /\ used[id] = d

\* Only a Create that failed, whose link stays, leaves an image on a free drive.
Tidy ==
    /\ \A id \in Ids : id \notin links \/ id \in tasks => Clean(id)
    /\ \A c \in Calls : Active(c) /\ pc[c] # "mount" => Clean(cid[c])
    /\ \A c \in Calls : pc[c] = "mount" =>
           \A d \in Drives : backing[d] = cid[c] => d = free[1]
    /\ \A c \in Calls : pc[c] = "unlink" => cid[c] \notin DOMAIN used

IInv ==
    /\ TypeOK
    /\ OneOwner
    /\ Locked
    /\ Checked
    /\ DrivesPartitioned
    /\ Reserved
    /\ OwnImage
    /\ Tidy

-----------------------------------------------------------------------------
(* The invariant is preserved, one lemma per action that changes the       *)
(* drives.                                                                 *)

\* The drives as Mount leaves them when it succeeds: the first of the free
\* ones is used by id.
LEMMA TakeHead ==
    ASSUME TypeOK, DrivesPartitioned, free # <<>>,
           NEW id \in Ids, id \notin DOMAIN used,
           free' = Tail(free),
           used' = [x \in DOMAIN used \cup {id} |-> IF x = id THEN Head(free) ELSE used[x]]
    PROVE  /\ DrivesPartitioned'
           /\ Head(free) = free[1] /\ free[1] \in Drives
           /\ \A x \in DOMAIN used : used[x] # free[1]
<1>1. /\ Len(free) \in Nat /\ Len(free) >= 1 /\ DOMAIN free = 1 .. Len(free)
      /\ Head(free) = free[1] /\ free[1] \in Drives
      /\ DOMAIN free' = 1 .. (Len(free) - 1)
      /\ \A i \in 1 .. (Len(free) - 1) : free'[i] = free[i + 1]
  BY TailFacts DEF TypeOK
<1>2. \A x \in DOMAIN used : used[x] # free[1]
  BY <1>1 DEF DrivesPartitioned
<1>3. \A i, j \in DOMAIN free' : free'[i] = free'[j] => i = j
  BY <1>1 DEF DrivesPartitioned
<1>4. \A x, y \in DOMAIN used' : used'[x] = used'[y] => x = y
  BY <1>1, <1>2 DEF DrivesPartitioned
<1>5. \A i \in DOMAIN free', x \in DOMAIN used' : free'[i] # used'[x]
  BY <1>1 DEF DrivesPartitioned
<1>6. ASSUME NEW d \in Drives PROVE d \in Range(free') \cup Range(used')
  <2>1. CASE d \in Range(used)
    BY <2>1 DEF Range
  <2>2. CASE d = free[1]
    BY <1>1, <2>2 DEF Range
  <2>3. CASE \E i \in DOMAIN free : i # 1 /\ d = free[i]
    <3>1. PICK i \in DOMAIN free : i # 1 /\ d = free[i]
      BY <2>3
    <3>2. i - 1 \in DOMAIN free' /\ free'[i - 1] = d
      BY <1>1, <3>1
    <3>. QED
      BY <3>2 DEF Range
  <2>. QED
    BY <2>1, <2>2, <2>3 DEF DrivesPartitioned, Range
<1>. QED
  BY <1>1, <1>2, <1>3, <1>4, <1>5, <1>6 DEF DrivesPartitioned

\* The drives as Repatch leaves them when it succeeds: id's drive is the last
\* of the free ones.
LEMMA PutLast ==
    ASSUME TypeOK, DrivesPartitioned,
           NEW id \in DOMAIN used,
           free' = Append(free, used[id]),
           used' = Restrict(used, DOMAIN used \ {id})
    PROVE  /\ DrivesPartitioned'
           /\ DOMAIN used' = DOMAIN used \ {id}
           /\ \A x \in DOMAIN used' : used'[x] = used[x]
<1>1. /\ Len(free) \in Nat /\ DOMAIN free = 1 .. Len(free)
      /\ DOMAIN free' = 1 .. (Len(free) + 1)
      /\ \A i \in 1 .. Len(free) : free'[i] = free[i]
      /\ free'[Len(free) + 1] = used[id]
  BY AppendFacts DEF TypeOK
<1>2. DOMAIN used' = DOMAIN used \ {id} /\ \A x \in DOMAIN used' : used'[x] = used[x]
  BY DEF Restrict
<1>3. \A i, j \in DOMAIN free' : free'[i] = free'[j] => i = j
  BY <1>1 DEF DrivesPartitioned
<1>4. \A x, y \in DOMAIN used' : used'[x] = used'[y] => x = y
  BY <1>2 DEF DrivesPartitioned
<1>5. ASSUME NEW i \in DOMAIN free', NEW x \in DOMAIN used' PROVE free'[i] # used'[x]
  <2>1. x \in DOMAIN used /\ x # id /\ used'[x] = used[x]
    BY <1>2
  <2>2. CASE i \in DOMAIN free
    BY <1>1, <2>1, <2>2 DEF DrivesPartitioned
  <2>3. CASE i = Len(free) + 1
    BY <1>1, <2>1, <2>3 DEF DrivesPartitioned
  <2>. QED
    BY <1>1, <2>2, <2>3
<1>6. ASSUME NEW d \in Drives PROVE d \in Range(free') \cup Range(used')
  <2>1. CASE d = used[id]
    BY <1>1, <2>1 DEF Range
  <2>2. CASE \E i \in DOMAIN free : d = free[i]
    BY <1>1, <2>2 DEF Range
  <2>3. CASE \E x \in DOMAIN used : x # id /\ d = used[x]
    BY <1>2, <2>3 DEF Range
  <2>. QED
    BY <2>1, <2>2, <2>3 DEF DrivesPartitioned, Range
<1>. QED
  BY <1>2, <1>3, <1>4, <1>5, <1>6 DEF DrivesPartitioned

LEMMA ControlSteps ==
    ASSUME IInv, TypeOK', NEW c \in Calls,
           \/ Create(c) \/ Reserve(c) \/ CreateTask(c)
           \/ Delete(c) \/ Release(c) \/ Unlink(c)
    PROVE  IInv'
<1> USE NoCallAssumption DEF IInv, TypeOK, OneOwner, Locked, Checked, Reserved,
        OwnImage, Tidy, Has, Clean, Active, Reserving, Releasing, Waiting, Replies,
        Goto, GiveUp, handlerVars, guestVars, taskVars
<1>0. ASSUME UNCHANGED <<free, used>> PROVE DrivesPartitioned'
  BY <1>0 DEF DrivesPartitioned
<1>1. CASE Create(c)
  <2>1. /\ pc[c] = "idle"
        /\ links' = links \/ links' = links \cup {cid[c]}
        /\ \/ /\ pc' = [pc EXCEPT ![c] = "reserve"]
              /\ cid[c] \notin links /\ links' = links \cup {cid[c]}
           \/ pc' = [pc EXCEPT ![c] = "failed"]
        /\ UNCHANGED <<cid, handlerVars, guestVars, tasks>>
    BY <1>1 DEF Create
  <2>2. OneOwner'
    BY <2>1
  <2>3. Locked' /\ Checked'
    BY <2>1
  <2>4. Reserved' /\ OwnImage'
    BY <2>1
  <2>5. Tidy'
    BY <2>1
  <2>. QED
    BY <2>1, <2>2, <2>3, <2>4, <2>5, <1>0
<1>2. CASE Reserve(c)
  BY <1>2, <1>0 DEF Reserve
<1>3. CASE CreateTask(c)
  <2>1. /\ pc[c] = "task"
        /\ \/ pc' = [pc EXCEPT ![c] = "created"] /\ tasks' = tasks \cup {cid[c]}
           \/ pc' = [pc EXCEPT ![c] = "failed"] /\ tasks' = tasks
        /\ UNCHANGED <<cid, handlerVars, guestVars, links>>
    BY <1>3 DEF CreateTask
  <2>2. OneOwner'
    BY <2>1
  <2>3. Locked' /\ Checked'
    BY <2>1
  <2>4. Reserved' /\ OwnImage'
    BY <2>1
  <2>5. Tidy'
    BY <2>1
  <2>. QED
    BY <2>1, <2>2, <2>3, <2>4, <2>5, <1>0
<1>4. CASE Delete(c)
  BY <1>4, <1>0 DEF Delete
<1>5. CASE Release(c)
  BY <1>5, <1>0 DEF Release
<1>6. CASE Unlink(c)
  <2>1. /\ pc[c] \in {"unlink", "unlinkErr"} /\ links' = links \ {cid[c]}
        /\ \/ pc' = [pc EXCEPT ![c] = "deleted"]
           \/ pc' = [pc EXCEPT ![c] = "failed"]
        /\ UNCHANGED <<cid, handlerVars, guestVars, tasks>>
    BY <1>6 DEF Unlink
  <2>2. OneOwner'
    BY <2>1
  <2>3. Locked' /\ Checked'
    BY <2>1
  <2>4. Reserved' /\ OwnImage'
    BY <2>1
  <2>5. Tidy'
    BY <2>1
  <2>. QED
    BY <2>1, <2>2, <2>3, <2>4, <2>5, <1>0
<1>. QED
  BY <1>1, <1>2, <1>3, <1>4, <1>5, <1>6

\* Patch changes what the first of the free drives serves, which no container
\* uses.
LEMMA PatchStep ==
    ASSUME IInv, TypeOK', NEW c \in Calls, Patch(c)
    PROVE  IInv'
<1> DEFINE d == free[1]
<1>1. /\ free # <<>> /\ Head(free) = d /\ d \in Drives
      /\ \A x \in DOMAIN used : used[x] # d
      /\ cid[c] \notin DOMAIN used /\ holder = c /\ pc[c] = "patch"
  <2>1. pc[c] = "patch"
    BY DEF Patch, Goto, GiveUp
  <2>2. free # <<>> /\ cid[c] \notin DOMAIN used /\ holder = c
    BY <2>1 DEF IInv, Checked, Locked, Reserving
  <2>3. Head(free) = d /\ d \in Drives /\ 1 \in DOMAIN free
    BY <2>2, TailFacts DEF IInv, TypeOK
  <2>. QED
    BY <2>1, <2>2, <2>3 DEF IInv, DrivesPartitioned
<1>2. /\ UNCHANGED <<cid, free, used, mounted, late, taskVars>>
      /\ \/ /\ pc' = [pc EXCEPT ![c] = "mount"] /\ UNCHANGED holder
            /\ backing' = [backing EXCEPT ![d] = cid[c]]
         \/ /\ pc' = [pc EXCEPT ![c] = "failed"] /\ holder' = NoCall
            /\ backing' = backing \/ backing' = [backing EXCEPT ![d] = cid[c]]
  BY <1>1 DEF Patch, Goto, GiveUp
<1> HIDE DEF d
<1> USE NoCallAssumption, StubAssumption DEF IInv, TypeOK, Active, Reserving,
        Releasing, Waiting, Replies, taskVars
<1>3. \A c2 \in Calls : c2 # c => pc[c2] \notin Reserving \cup Releasing
  BY <1>1 DEF Locked
<1>4. \A id \in Ids : Has(id) => Has(id)'
  BY <1>1, <1>2 DEF Has
<1>5. \A id \in Ids : id # cid[c] /\ Clean(id) => Clean(id)'
  BY <1>1, <1>2 DEF Clean
<1>6. OneOwner'
  BY <1>2, <1>1 DEF OneOwner
<1>7. Locked' /\ Checked'
  BY <1>1, <1>2, <1>3 DEF Locked, Checked
<1>8. DrivesPartitioned'
  BY <1>2 DEF DrivesPartitioned
<1>9. Reserved'
  BY <1>1, <1>2, <1>3, <1>4 DEF Reserved, d
<1>10. OwnImage'
  BY <1>2, <1>4 DEF OwnImage, Has
<1>11. Tidy'
  <2>1. \A id \in Ids : id \notin links' \/ id \in tasks' => Clean(id)'
    BY <1>1, <1>2, <1>5 DEF Tidy, OneOwner
  <2>2. ASSUME NEW c2 \in Calls, Active(c2)', pc'[c2] # "mount" PROVE Clean(cid[c2])'
    <3>1. c2 # c /\ Active(c2) /\ pc[c2] # "mount" /\ cid'[c2] = cid[c2]
      BY <1>2, <2>2
    <3>2. cid[c2] # cid[c] /\ Clean(cid[c2])
      BY <1>1, <3>1 DEF Tidy, OneOwner
    <3>3. \A id \in Ids : id = cid[c2] => Clean(id)'
      BY <1>5, <3>2
    <3>. QED
      BY <1>2, <3>1, <3>3 DEF Clean
  <2>3. \A c2 \in Calls : pc'[c2] = "mount" =>
           \A e \in Drives : backing'[e] = cid'[c2] => e = free'[1]
    BY <1>1, <1>2, <1>3 DEF Tidy, Clean, d
  <2>4. \A c2 \in Calls : pc'[c2] = "unlink" => cid'[c2] \notin DOMAIN used'
    BY <1>2 DEF Tidy
  <2>. QED
    BY <2>1, <2>2, <2>3, <2>4 DEF Tidy
<1>. QED
  BY <1>6, <1>7, <1>8, <1>9, <1>10, <1>11

\* A served MountDrive gives the container the drive that was patched for it;
\* one that fails leaves the drives alone.
LEMMA MountStep ==
    ASSUME IInv, TypeOK', NEW c \in Calls, Mount(c)
    PROVE  IInv'
<1> USE NoCallAssumption DEF IInv, TypeOK, Active, Reserving, Releasing, Waiting,
        Replies, taskVars, Goto, GiveUp
<1>1. /\ pc[c] = "mount" /\ holder = c /\ cid[c] \in Ids
      /\ free # <<>> /\ cid[c] \notin DOMAIN used
      /\ Head(free) = free[1] /\ free[1] \in Drives
      /\ backing[free[1]] = cid[c]
  <2>1. pc[c] = "mount"
    BY DEF Mount
  <2>2. holder = c /\ free # <<>> /\ cid[c] \notin DOMAIN used /\ backing[free[1]] = cid[c]
    BY <2>1 DEF Locked, Checked, Reserved
  <2>. QED
    BY <2>1, <2>2, TailFacts
<1>2. \A e \in Calls : e # c => pc[e] \notin Reserving \cup Releasing
  BY <1>1 DEF Locked
<1>3. CASE pc' = [pc EXCEPT ![c] = "failed"]
  <2>1. /\ UNCHANGED <<cid, free, used, mounted, backing, taskVars>>
        /\ holder' = NoCall
    BY <1>1, <1>3 DEF Mount
  <2>2. OneOwner' /\ Locked' /\ Checked'
    BY <1>1, <1>2, <1>3, <2>1 DEF OneOwner, Locked, Checked
  <2>3. DrivesPartitioned'
    BY <2>1 DEF DrivesPartitioned
  <2>4. Reserved' /\ OwnImage'
    BY <1>1, <1>2, <1>3, <2>1 DEF Reserved, OwnImage, Has
  <2>5. Tidy'
    BY <1>1, <1>2, <1>3, <2>1 DEF Tidy, Clean
  <2>. QED
    BY <2>2, <2>3, <2>4, <2>5
<1>4. CASE pc' = [pc EXCEPT ![c] = "task"]
  <2>1. /\ UNCHANGED <<cid, backing, late, taskVars>>
        /\ holder' = NoCall
        /\ mounted' = mounted \cup {<<free[1], cid[c]>>}
        /\ free' = Tail(free)
        /\ used' = [x \in DOMAIN used \cup {cid[c]} |->
                       IF x = cid[c] THEN Head(free) ELSE used[x]]
    BY <1>1, <1>4 DEF Mount
  <2>2. DrivesPartitioned'
    BY <1>1, <2>1, TakeHead
  <2>3. OneOwner' /\ Locked' /\ Checked'
    BY <1>1, <1>2, <1>4, <2>1 DEF OneOwner, Locked, Checked
  <2>4. \A id \in Ids : Has(id) => Has(id)'
    BY <1>1, <2>1 DEF Has
  <2>5. \A id \in Ids : id = cid[c] => Has(id)'
    BY <1>1, <2>1 DEF Has
  <2>6. Reserved'
    <3>1. ASSUME NEW e \in Calls, pc'[e] = "task" PROVE Has(cid[e])'
      <4>1. \A id \in Ids : id = cid[e] => Has(id)'
        BY <1>4, <2>4, <2>5, <3>1 DEF Reserved
      <4>. QED
        BY <2>1, <4>1 DEF Has
    <3>2. \A e \in Calls : pc'[e] # "mount"
      BY <1>2, <1>4
    <3>. QED
      BY <3>1, <3>2 DEF Reserved
  <2>7. OwnImage'
    BY <2>1, <2>4 DEF OwnImage, Has
  <2>8. \A id \in Ids : id # cid[c] /\ Clean(id) => Clean(id)'
    BY <1>1, <2>1 DEF Clean
  <2>9. \A id \in Ids : id = cid[c] => Clean(id)'
    BY <1>1, <2>1 DEF Clean, Tidy
  <2>10. \A id \in Ids : id \notin links' \/ id \in tasks' => Clean(id)'
    BY <1>1, <2>1, <2>8, <2>9 DEF Tidy
  <2>11. ASSUME NEW e \in Calls, Active(e)', pc'[e] # "mount" PROVE Clean(cid[e])'
    <3>1. \A id \in Ids : id = cid[e] => Clean(id)'
      BY <1>4, <2>8, <2>9, <2>11 DEF Tidy
    <3>. QED
      BY <2>1, <3>1 DEF Clean
  <2>12. \A e \in Calls : pc'[e] # "mount"
    BY <1>2, <1>4
  <2>13. \A e \in Calls : pc'[e] = "unlink" => cid'[e] \notin DOMAIN used'
    BY <1>1, <1>4, <2>1 DEF Tidy, OneOwner
  <2>. QED
    BY <2>2, <2>3, <2>6, <2>7, <2>10, <2>11, <2>12, <2>13 DEF Tidy
<1>. QED
  BY <1>3, <1>4 DEF Mount

\* Unmount touches the mounts of the drive of the container that is deleted.
LEMMA UnmountStep ==
    ASSUME IInv, TypeOK', NEW c \in Calls, Unmount(c)
    PROVE  IInv'
<1> USE NoCallAssumption DEF IInv, TypeOK, Active, Reserving, Releasing, Waiting,
        Replies, taskVars, Goto, GiveUp
<1>1. /\ pc[c] = "unmount" /\ holder = c /\ cid[c] \in DOMAIN used /\ cid[c] \notin tasks
      /\ \A e \in Calls : pc[e] = "task" => cid[e] # cid[c]
      /\ \A x \in DOMAIN used : x # cid[c] => used[x] # used[cid[c]]
  <2>1. pc[c] = "unmount"
    BY DEF Unmount
  <2>. QED
    BY <2>1 DEF Locked, Checked, OneOwner, DrivesPartitioned
<1>2. /\ UNCHANGED <<cid, free, used, backing, late, taskVars>>
      /\ \/ pc' = [pc EXCEPT ![c] = "repatch"] /\ UNCHANGED holder
         \/ pc' = [pc EXCEPT ![c] = "unlinkErr"] /\ holder' = NoCall
      /\ \/ mounted' = mounted
         \/ mounted' = {m \in mounted : m[1] # used[cid[c]]}
  BY DEF Unmount
<1>3. \A e \in Calls : e # c => pc[e] \notin Reserving \cup Releasing
  BY <1>1 DEF Locked
<1>4. \A id \in Ids : id # cid[c] /\ Has(id) => Has(id)'
  BY <1>1, <1>2 DEF Has
<1>5. OneOwner' /\ Locked' /\ Checked'
  BY <1>1, <1>2, <1>3 DEF OneOwner, Locked, Checked
<1>6. DrivesPartitioned'
  BY <1>2 DEF DrivesPartitioned
<1>7. Reserved' /\ OwnImage'
  BY <1>1, <1>2, <1>3, <1>4 DEF Reserved, OwnImage, Has
<1>8. Tidy'
  BY <1>1, <1>2, <1>3 DEF Tidy, Clean
<1>. QED
  BY <1>5, <1>6, <1>7, <1>8

\* Repatch touches the drive of the container that is deleted.
LEMMA RepatchStep ==
    ASSUME IInv, TypeOK', NEW c \in Calls, Repatch(c)
    PROVE  IInv'
<1> USE NoCallAssumption, StubAssumption DEF IInv, TypeOK, Active, Reserving,
        Releasing, Waiting, Replies, taskVars, Goto, GiveUp
<1>1. /\ pc[c] = "repatch" /\ holder = c /\ cid[c] \in DOMAIN used /\ cid[c] \notin tasks
      /\ \A e \in Calls : e # c /\ Active(e) => cid[e] # cid[c]
      /\ \A x \in DOMAIN used : x # cid[c] => used[x] # used[cid[c]]
      /\ used[cid[c]] \in Drives
  <2>1. pc[c] = "repatch"
    BY DEF Repatch
  <2>. QED
    BY <2>1 DEF Locked, Checked, OneOwner, DrivesPartitioned
<1>2. /\ UNCHANGED <<cid, mounted, late, taskVars>>
      /\ holder' = NoCall
      /\ \/ /\ pc' = [pc EXCEPT ![c] = "unlink"]
            /\ backing' = [backing EXCEPT ![used[cid[c]]] = Stub]
            /\ used' = Restrict(used, DOMAIN used \ {cid[c]})
            /\ free' = Append(free, used[cid[c]])
         \/ /\ pc' = [pc EXCEPT ![c] = "unlinkErr"]
            /\ UNCHANGED <<used, free>>
            /\ \/ backing' = backing
               \/ backing' = [backing EXCEPT ![used[cid[c]]] = Stub]
  BY DEF Repatch
<1>3. \A e \in Calls : e # c => pc[e] \notin Reserving \cup Releasing
  BY <1>1 DEF Locked
<1>4. /\ DrivesPartitioned'
      /\ \A x \in DOMAIN used : x # cid[c] => x \in DOMAIN used' /\ used'[x] = used[x]
      /\ DOMAIN used' \subseteq DOMAIN used
      /\ \A x \in DOMAIN used' : used'[x] = used[x]
  <2>1. CASE UNCHANGED <<used, free>>
    BY <2>1 DEF DrivesPartitioned
  <2>2. CASE /\ used' = Restrict(used, DOMAIN used \ {cid[c]})
             /\ free' = Append(free, used[cid[c]])
    BY <1>1, <2>2, PutLast
  <2>. QED
    BY <1>2, <2>1, <2>2
<1>5. pc'[c] = "unlink" => cid[c] \notin DOMAIN used'
  BY <1>1, <1>2 DEF Restrict
<1>6. /\ backing' = backing \/ backing' = [backing EXCEPT ![used[cid[c]]] = Stub]
      /\ pc'[c] = "unlink" => backing'[used[cid[c]]] = Stub
      /\ \/ pc' = [pc EXCEPT ![c] = "unlink"]
         \/ pc' = [pc EXCEPT ![c] = "unlinkErr"] /\ UNCHANGED <<used, free>>
  BY <1>1, <1>2
<1>7. \A id \in Ids : id # cid[c] /\ Has(id) => Has(id)'
  BY <1>1, <1>2, <1>4, <1>6 DEF Has
<1>8. \A id \in Ids : id # cid[c] /\ Clean(id) => Clean(id)'
  BY <1>1, <1>4, <1>6 DEF Clean
<1>9. \A id \in Ids : id = cid[c] => Clean(id)'
  BY <1>1, <1>6 DEF Clean, Tidy
<1>10. OneOwner' /\ Locked' /\ Checked'
  BY <1>1, <1>2, <1>3, <1>6 DEF OneOwner, Locked, Checked
<1>11. Reserved' /\ OwnImage'
  <2>1. ASSUME NEW e \in Calls, pc'[e] = "task" PROVE Has(cid[e])'
    <3>1. \A id \in Ids : id = cid[e] => Has(id)'
      BY <1>1, <1>6, <1>7, <2>1 DEF Reserved
    <3>. QED
      BY <1>2, <3>1 DEF Has
  <2>2. \A id \in tasks : Has(id)'
    BY <1>1, <1>7 DEF OwnImage, Has
  <2>3. \A e \in Calls : pc'[e] # "mount"
    BY <1>3, <1>6
  <2>. QED
    BY <1>2, <2>1, <2>2, <2>3 DEF Reserved, OwnImage, Has
<1>12. Tidy'
  <2>1. \A id \in Ids : id \notin links' \/ id \in tasks' => Clean(id)'
    BY <1>2, <1>8, <1>9 DEF Tidy
  <2>2. ASSUME NEW e \in Calls, Active(e)' PROVE Clean(cid[e])'
    <3>1. \A id \in Ids : id = cid[e] => Clean(id)'
      BY <1>1, <1>3, <1>6, <1>8, <1>9, <2>2 DEF Tidy
    <3>. QED
      BY <1>2, <3>1 DEF Clean
  <2>3. \A e \in Calls : pc'[e] # "mount"
    BY <1>3, <1>6
  <2>4. \A e \in Calls : pc'[e] = "unlink" => cid'[e] \notin DOMAIN used'
    BY <1>2, <1>4, <1>5, <1>6 DEF Tidy
  <2>. QED
    BY <2>1, <2>2, <2>3, <2>4 DEF Tidy
<1>. QED
  BY <1>4, <1>10, <1>11, <1>12

\* A late mount adds a mount, which disturbs nothing.
LEMMA LateMountStep ==
    ASSUME IInv, TypeOK', NEW m \in late, LateMount(m)
    PROVE  IInv'
<1> USE DEF IInv, taskVars, handlerVars
<1>1. /\ UNCHANGED <<pc, cid, free, used, holder, backing, links, tasks>>
      /\ mounted \subseteq mounted'
  BY DEF LateMount
<1>2. OneOwner' /\ Locked' /\ Checked' /\ DrivesPartitioned' /\ Tidy'
  BY <1>1 DEF OneOwner, Locked, Checked, DrivesPartitioned, Tidy, Clean, Active
<1>3. Reserved' /\ OwnImage'
  BY <1>1 DEF Reserved, OwnImage, Has
<1>. QED
  BY <1>2, <1>3

\* Nothing but names changes.
LEMMA StutterStep ==
    ASSUME IInv, UNCHANGED vars
    PROVE  IInv'
  BY DEF IInv, vars, taskVars, handlerVars, guestVars, TypeOK, OneOwner, Locked,
     Checked, DrivesPartitioned, Tidy, Clean, Active, Reserved, OwnImage, Has

-----------------------------------------------------------------------------
(* The theorems.                                                           *)

\* Invariance: the invariant holds of every behaviour.
THEOREM Invariance == Spec => []IInv
<1>1. Init => IInv
  <2> SUFFICES ASSUME Init PROVE IInv
    OBVIOUS
  <2>1. TypeOK
    BY TypeInit
  <2>2. OneOwner /\ Locked /\ Checked /\ Reserved /\ OwnImage
    BY DEF Init, OneOwner, Locked, Checked, Reserved, OwnImage, Active,
           Reserving, Releasing, Waiting
  <2>3. DrivesPartitioned
    BY DEF Init, DrivesPartitioned, Range
  <2>4. Tidy
    BY <2>1, StubAssumption DEF Init, Tidy, Clean, Active, Reserving, Releasing,
       Waiting, TypeOK
  <2>. QED
    BY <2>1, <2>2, <2>3, <2>4 DEF IInv
<1>2. IInv /\ [Next]_vars => IInv'
  <2> SUFFICES ASSUME IInv, [Next]_vars PROVE IInv'
    OBVIOUS
  <2>1. TypeOK'
    BY TypeStep DEF IInv, Checked
  <2>. QED
    BY <2>1, ControlSteps, PatchStep, MountStep, UnmountStep, RepatchStep,
       LateMountStep, StutterStep
    DEF Next, CallStep, CreateStep, DeleteStep
<1>. QED
  BY <1>1, <1>2, PTL DEF Spec

\* TypeCorrect: every variable stays in its type.
THEOREM TypeCorrect == Spec => []TypeOK
<1>1. IInv => TypeOK
  BY DEF IInv
<1>. QED
  BY <1>1, Invariance, PTL

\* NoDriveLost: DrivesPartitioned, for any number of drives and requests.
THEOREM NoDriveLost == Spec => []DrivesPartitioned
<1>1. IInv => DrivesPartitioned
  BY DEF IInv
<1>. QED
  BY <1>1, Invariance, PTL

\* Isolated: a container with a task always reads its own image (OwnImage).
THEOREM Isolated == Spec => []OwnImage
<1>1. IInv => OwnImage
  BY DEF IInv
<1>. QED
  BY <1>1, Invariance, PTL

\* ImageReleased: a Delete that succeeds leaves no drive with the container's
\* image (ImageIsGone).
THEOREM ImageReleased == Spec => ImageIsGone
<1> DEFINE Gone(c) == pc[c] # "deleted" /\ pc'[c] = "deleted" =>
                          \A d \in Drives : backing'[d] # cid[c]
<1>1. IInv /\ [Next]_vars => [\A c \in Calls : Gone(c)]_vars
  <2> SUFFICES ASSUME IInv, Next, NEW c \in Calls, pc[c] # "deleted", pc'[c] = "deleted"
               PROVE  \A d \in Drives : backing'[d] # cid[c]
    OBVIOUS
  <2>1. Unlink(c)
    BY DEF Next, CallStep, CreateStep, DeleteStep, Create, Reserve, Patch, Mount,
           CreateTask, Delete, Release, Unmount, Repatch, Unlink, LateMount,
           Goto, GiveUp, IInv, TypeOK
  <2>2. pc[c] = "unlink" /\ UNCHANGED backing
    BY <2>1 DEF Unlink, Goto, guestVars, IInv, TypeOK
  <2>3. Clean(cid[c]) /\ cid[c] \notin DOMAIN used
    BY <2>2 DEF IInv, Tidy, Active, Waiting
  <2>. QED
    BY <2>2, <2>3 DEF Clean
<1>. QED
  BY <1>1, Invariance, PTL DEF Spec, ImageIsGone
=============================================================================
