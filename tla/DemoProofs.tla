----------------------------- MODULE DemoProofs -----------------------------
(***************************************************************************)
(* Proofs about Demo for any processes, URLs, names and number of parts:   *)
(* what can be said of the files, whatever else main does meanwhile, then  *)
(* which slots an emission of main's signal calls, and at last how a       *)
(* process can end.                                                        *)
(***************************************************************************)
EXTENDS Demo, SequenceTheorems, TLAPS

Sendable == Url \cup {Page}

Typed ==
  /\ pc \in [Process -> DemoPC]
  /\ file \in [Name -> Found]
  /\ url \in [Process -> Url \cup {NoUrl}]
  /\ sent \in [Process -> Sendable]
  /\ got \in [Process -> 0..Parts]
  /\ ok \in [Process -> BOOLEAN]
  /\ saved \in [Name -> SUBSET Sendable]
  /\ broken \subseteq Name

Writing == {"transfer", "close"}

\* Inside Download, and after it has returned a path, there is a name.
Named == \A p \in Process : pc[p] \in Inside \cup {"path"} => url[p] \in Url /\ Target(p) \in Name

\* The file of a download, or of a path that was returned, is there.
Present == \A p \in Process : pc[p] \in Writing \cup {"path"} => file[Target(p)] # NoFile

\* What the processes have opened is a file, whatever was found there.
Opened == \A n \in Name : saved[n] # {} => file[n] \in Content

\* What is being received is among what the file was sent; a good answer is complete.
Receiving ==
  \A p \in Process :
    /\ pc[p] \in Writing => sent[p] \in saved[Target(p)]
    /\ pc[p] = "close" /\ ok[p] = TRUE => got[p] = Parts

(* A file that is not broken and was sent one thing only holds it in every *)
(* part that nobody is still going to write.                               *)
Whole ==
  \A n \in Name, s \in Sendable :
    file[n] # NoFile /\ n \notin broken /\ saved[n] = {s} =>
      \A k \in 1..Parts :
        file[n][k] = s \/ \E q \in Process : pc[q] \in Writing /\ Target(q) = n /\ got[q] <= k

IInv == Typed /\ Named /\ Present /\ Opened /\ Receiving /\ Whole

\* No process is at work yet.
LEMMA InitHolds == Init => IInv
<1> SUFFICES ASSUME Init PROVE IInv
  OBVIOUS
<1>1. Typed
  <2>1. pc \in [Process -> DemoPC] /\ url \in [Process -> Url \cup {NoUrl}] /\ broken \subseteq Name
    BY DEF Init, DemoPC, PC
  <2>2. file \in [Name -> Found] /\ saved \in [Name -> SUBSET Sendable]
    BY DEF Init, Found
  <2>3. sent \in [Process -> Sendable] /\ got \in [Process -> 0..Parts]
    BY PartsPositive DEF Init, Sendable
  <2>4. ok \in [Process -> BOOLEAN]
    BY DEF Init
  <2> QED BY <2>1, <2>2, <2>3, <2>4 DEF Typed
<1>2. Named /\ Present /\ Opened /\ Receiving
  BY DEF Init, Named, Present, Opened, Receiving, Inside, Writing
<1>3. Whole
  BY DEF Init, Whole
<1> QED BY <1>1, <1>2, <1>3 DEF IInv

\* A step outside the transfers: no file changes, and a new path names a file.
LEMMA OutsideHolds ==
  ASSUME IInv, NEW p \in Process, NEW l \in DemoPC, Goto(p, l),
         pc[p] \notin Writing, l \notin Writing,
         url' \in [Process -> Url \cup {NoUrl}], \A q \in Process \ {p} : url'[q] = url[q],
         l \in Inside \cup {"path"} => url'[p] \in Url /\ NameOf[url'[p]] \in Name,
         l = "path" => file[NameOf[url'[p]]] # NoFile,
         UNCHANGED <<file, saved, broken>>, UNCHANGED <<sent, got, ok>> \/ Forget(p)
  PROVE  IInv'
<1> USE DEF IInv, Typed, Goto, Forget
<1>1. Typed'
  <2>1. ok' \in [Process -> BOOLEAN]
    OBVIOUS
  <2>2. sent' \in [Process -> Sendable] /\ got' \in [Process -> 0..Parts]
    BY PartsPositive DEF Sendable
  <2> QED BY <2>1, <2>2
<1>2. \A q \in Process : q # p => /\ pc'[q] = pc[q] /\ Target(q)' = Target(q)
                                 /\ sent'[q] = sent[q] /\ got'[q] = got[q] /\ ok'[q] = ok[q]
  BY DEF Target
<1>3. Named'
  BY <1>2 DEF Named, Target
<1>4. Present'
  BY <1>2 DEF Present, Target
<1>5. Receiving'
  BY <1>2 DEF Receiving, Writing
<1>6. Whole' /\ Opened'
  BY <1>2 DEF Whole, Opened
<1> QED BY <1>1, <1>3, <1>4, <1>5, <1>6

\* fopen: every part is still to be written by the one that has opened the file.
LEMMA OpenHolds == ASSUME IInv, NEW p \in Process, Open(p) PROVE IInv'
<1> DEFINE n == Target(p)
<1>1. pc[p] = "open" /\ n \in Name /\ url[p] \in Url
  BY DEF Open, IInv, Named, Inside
<1>2. CASE Goto(p, "undefined") /\ UNCHANGED <<file, got, sent, saved, broken>>
  <2>1. UNCHANGED <<url, ok>>
    BY DEF Open
  <2>2. url' \in [Process -> Url \cup {NoUrl}] /\ pc[p] \notin Writing
    BY <1>1, <2>1 DEF IInv, Typed, Writing
  <2>3. "undefined" \in DemoPC /\ "undefined" \notin Writing /\ "undefined" \notin Inside \cup {"path"}
    BY DEF Inside, Writing, DemoPC, PC, Over
  <2> QED BY <1>2, <2>1, <2>2, <2>3, OutsideHolds
<1>3. CASE /\ Goto(p, "transfer")
           /\ file' = [file EXCEPT ![n] = [k \in 1..Parts |-> Missing]]
           /\ got' = [got EXCEPT ![p] = 0]
           /\ \E s \in {url[p], Page} :
                /\ sent' = [sent EXCEPT ![p] = s]
                /\ saved' = [saved EXCEPT ![n] = {s} \cup {sent[q] : q \in Busy(n)}]
           /\ broken' = broken \ {n}
  <2> USE <1>1, <1>3 DEF IInv, Typed, Goto
  <2>0. UNCHANGED <<url, ok>> /\ \A q \in Process : Target(q)' = Target(q)
    BY DEF Open, Target
  <2>1. PICK s \in {url[p], Page} :
          /\ sent' = [sent EXCEPT ![p] = s]
          /\ saved' = [saved EXCEPT ![n] = {s} \cup {sent[q] : q \in Busy(n)}]
    OBVIOUS
  <2>2. s \in Sendable
    BY DEF Sendable
  <2>3. [k \in 1..Parts |-> Missing] \in Content
    BY DEF Content
  <2>4. Typed'
    <3>1. pc' \in [Process -> DemoPC] /\ broken' \subseteq Name
      BY DEF DemoPC, PC, Inside
    <3>5. got' \in [Process -> 0..Parts]
      BY PartsPositive
    <3>2. file' \in [Name -> Found]
      BY <2>3 DEF Found
    <3>3. sent' \in [Process -> Sendable]
      BY <2>1, <2>2
    <3>4. saved' \in [Name -> SUBSET Sendable]
      BY <2>1, <2>2 DEF Busy
    <3> QED BY <3>1, <3>2, <3>3, <3>4, <3>5, <2>0
  <2>5. Named'
    BY <2>0 DEF Named, Inside
  <2>6. Present'
    <3>1. file'[n] # NoFile /\ \A m \in Name : m # n => file'[m] = file[m]
      BY <2>3, ValuesDiffer
    <3>2. ASSUME NEW q \in Process, pc'[q] \in Writing \cup {"path"}
          PROVE  Target(q) = n \/ (Target(q) \in Name /\ file[Target(q)] # NoFile)
      BY <3>2 DEF Present, Named, Writing, Inside
    <3> QED BY <3>1, <3>2, <2>0 DEF Present
  <2>9. Opened'
    BY <2>1, <2>3 DEF Opened
  <2>7. Receiving'
    <3>1. ASSUME NEW q \in Process, pc'[q] \in Writing PROVE sent'[q] \in saved'[Target(q)]
      BY <3>1, <2>0, <2>1 DEF Receiving, Named, Inside, Writing, Busy
    <3> QED BY <3>1, <2>0 DEF Receiving
  <2>8. Whole'
    <3> SUFFICES ASSUME NEW m \in Name, NEW r \in Sendable, NEW k \in 1..Parts,
                        file'[m] # NoFile, m \notin broken', saved'[m] = {r}
                 PROVE  \/ file'[m][k] = r
                        \/ \E q \in Process : pc'[q] \in Writing /\ Target(q)' = m /\ got'[q] <= k
      BY DEF Whole
    <3>1. CASE m = n
      BY <3>1, <2>0 DEF Writing
    <3>2. CASE m # n
      <4>1. \/ file[m][k] = r
            \/ \E q \in Process : pc[q] \in Writing /\ Target(q) = m /\ got[q] <= k
        BY <3>2, <2>1 DEF Whole
      <4> QED BY <4>1, <3>2, <2>0
    <3> QED BY <3>1, <3>2
  <2> QED BY <2>4, <2>5, <2>6, <2>7, <2>8, <2>9
<1> QED BY <1>2, <1>3 DEF Open

\* What a write changes: one part of one file, to what its process was sent.
LEMMA FlushedIs ==
  ASSUME IInv, NEW p \in Process, pc[p] \in Writing
  PROVE  /\ Flushed(p) \in [Name -> Found]
         /\ \A n \in Name : n # Target(p) => Flushed(p)[n] = file[n]
         /\ Flushed(p)[Target(p)] \in Content
         /\ \A k \in 1..Parts :
              Flushed(p)[Target(p)][k] = IF k = got[p] THEN sent[p] ELSE file[Target(p)][k]
<1> DEFINE n == Target(p)
<1> USE DEF IInv, Typed
<1>1. n \in Name /\ file[n] \in Content
  BY DEF Named, Opened, Receiving, Writing, Inside
<1>2. CASE got[p] = 0
  BY <1>1, <1>2, PartsPositive DEF Flushed
<1>3. CASE got[p] # 0
  <2>1. Flushed(p) = [file EXCEPT ![n] = [file[n] EXCEPT ![got[p]] = sent[p]]]
    BY <1>1, <1>3 DEF Flushed
  <2>2. [file[n] EXCEPT ![got[p]] = sent[p]] \in Content
    BY <1>1 DEF Content, Sendable
  <2>3. Flushed(p) \in [Name -> Found] /\ \A m \in Name : m # n => Flushed(p)[m] = file[m]
    BY <1>1, <2>1, <2>2 DEF Found
  <2>4. Flushed(p)[n] = [file[n] EXCEPT ![got[p]] = sent[p]]
    BY <1>1, <2>1
  <2>5. \A k \in 1..Parts : Flushed(p)[n][k] = IF k = got[p] THEN sent[p] ELSE file[n][k]
    BY <1>1, <2>4 DEF Content
  <2> QED BY <2>2, <2>3, <2>4, <2>5
<1> QED BY <1>2, <1>3

\* A part is received; the one before it reaches the file.
LEMMA ReceiveHolds == ASSUME IInv, NEW p \in Process, Receive(p) PROVE IInv'
<1> USE DEF IInv, Typed
<1>1. pc[p] = "transfer" /\ got[p] < Parts /\ file' = Flushed(p) /\ pc[p] \in Writing
  BY DEF Receive, Writing
<1>2. UNCHANGED <<pc, url, sent, ok, saved, broken>> /\ got' = [got EXCEPT ![p] = @ + 1]
  BY DEF Receive
<1>3. \A q \in Process : Target(q)' = Target(q)
  BY <1>2 DEF Target
<1>4. Typed'
  BY <1>1, <1>2, FlushedIs, PartsPositive
<1>5. Named'
  BY <1>2, <1>3 DEF Named
<1>6. Present'
  BY <1>1, <1>2, <1>3, FlushedIs, ValuesDiffer DEF Present, Named, Writing, Inside
<1>9. Opened'
  BY <1>1, <1>2, FlushedIs DEF Opened
<1>7. Receiving'
  BY <1>1, <1>2, <1>3 DEF Receiving
<1>8. Whole'
  <2> SUFFICES ASSUME NEW m \in Name, NEW r \in Sendable, NEW k \in 1..Parts,
                      file'[m] # NoFile, m \notin broken, saved[m] = {r}
               PROVE  \/ file'[m][k] = r
                      \/ \E q \in Process : pc[q] \in Writing /\ Target(q) = m /\ got'[q] <= k
    BY <1>2, <1>3 DEF Whole
  <2>1. file[m] # NoFile
    BY <1>1, FlushedIs DEF Present
  <2>2. CASE file[m][k] = r /\ ~(m = Target(p) /\ k = got[p])
    BY <2>2, <1>1, FlushedIs
  <2>3. CASE m = Target(p) /\ k = got[p]
    BY <2>3, <1>1, FlushedIs DEF Receiving
  <2>4. CASE file[m][k] # r /\ ~(m = Target(p) /\ k = got[p])
    <3>1. PICK q \in Process : pc[q] \in Writing /\ Target(q) = m /\ got[q] <= k
      BY <2>1, <2>4 DEF Whole
    <3>2. got'[q] <= k
      BY <3>1, <2>4, <1>2, PartsPositive
    <3> QED BY <3>1, <3>2
  <2> QED BY <2>2, <2>3, <2>4
<1> QED BY <1>4, <1>5, <1>6, <1>7, <1>8, <1>9

\* curl_easy_perform says that all was received only if it was.
LEMMA PerformHolds == ASSUME IInv, NEW p \in Process, Perform(p) PROVE IInv'
<1> USE DEF IInv, Typed, Goto
<1>1. PICK r \in BOOLEAN : (r => got[p] = Parts) /\ ok' = [ok EXCEPT ![p] = r]
  BY DEF Perform
<1>2. pc[p] = "transfer" /\ pc' = [pc EXCEPT ![p] = "close"]
      /\ UNCHANGED <<file, url, sent, got, saved, broken>>
  BY DEF Perform
<1>3. \A q \in Process : Target(q)' = Target(q) /\ (pc'[q] \in Writing <=> pc[q] \in Writing)
  BY <1>2 DEF Target, Writing
<1>4. Typed'
  <2>1. ok' \in [Process -> BOOLEAN]
    BY <1>1
  <2>2. pc' \in [Process -> DemoPC]
    BY <1>2 DEF DemoPC, PC, Inside
  <2> QED BY <2>1, <2>2, <1>2
<1>5. Named' /\ Present' /\ Opened'
  BY <1>2, <1>3 DEF Named, Present, Opened, Inside, Writing
<1>6. Receiving'
  BY <1>1, <1>2, <1>3 DEF Receiving
<1>7. Whole'
  BY <1>2, <1>3 DEF Whole
<1> QED BY <1>4, <1>5, <1>6, <1>7
\* p stops writing: every part is in its file then, or the file is broken.
LEMMA StopHolds ==
  ASSUME IInv, NEW p \in Process, pc[p] \in Writing, Forget(p),
         NEW l \in {"path", "failed", "none"}, Goto(p, l),
         file' = file \/ file' = Flushed(p),
         broken' \in {broken, broken \cup {Target(p)}},
         Target(p) \in broken' \/ (pc[p] = "close" /\ ok[p] = TRUE /\ file' = Flushed(p)),
         url' \in [Process -> Url \cup {NoUrl}], \A q \in Process \ {p} : url'[q] = url[q],
         l = "path" => url' = url, saved' = saved
  PROVE  IInv'
<1> USE DEF IInv, Typed, Goto, Forget
<1>1. \A q \in Process : q # p => /\ pc'[q] = pc[q] /\ Target(q)' = Target(q)
                                 /\ sent'[q] = sent[q] /\ got'[q] = got[q] /\ ok'[q] = ok[q]
  BY DEF Target
<1>2. l \in DemoPC /\ l \notin Writing \cup Inside
  BY DEF DemoPC, PC, Writing, Inside
<1>3. Typed'
  <2>1. file' \in [Name -> Found]
    BY FlushedIs
  <2>2. ok' \in [Process -> BOOLEAN]
    OBVIOUS
  <2>3. sent' \in [Process -> Sendable] /\ got' \in [Process -> 0..Parts]
    BY PartsPositive DEF Sendable
  <2>4. pc' \in [Process -> DemoPC]
    BY <1>2
  <2>5. broken' \subseteq Name
    BY DEF Named, Writing, Inside
  <2> QED BY <2>1, <2>2, <2>3, <2>4, <2>5
<1>4. Named'
  <2>1. ASSUME l = "path" PROVE url'[p] \in Url /\ Target(p)' \in Name
    BY <2>1 DEF Named, Writing, Inside, Target
  <2> QED BY <1>1, <1>2, <2>1 DEF Named
<1>5. \A m \in Name : file[m] # NoFile <=> file'[m] # NoFile
  BY FlushedIs, ValuesDiffer DEF Present
<1>9. Opened'
  BY FlushedIs DEF Opened
<1>6. Present'
  <2>1. ASSUME l = "path" PROVE file'[Target(p)'] # NoFile
    BY <2>1, <1>5 DEF Present, Named, Writing, Inside, Target
  <2>2. ASSUME NEW q \in Process, q # p, pc'[q] \in Writing \cup {"path"}
        PROVE  file'[Target(q)'] # NoFile
    BY <2>2, <1>1, <1>5 DEF Present, Named, Writing, Inside
  <2> QED BY <1>2, <2>1, <2>2 DEF Present
<1>7. Receiving'
  <2>1. pc'[p] \notin Writing
    BY <1>2
  <2> QED BY <2>1, <1>1 DEF Receiving, Writing
<1>8. Whole'
  <2> SUFFICES ASSUME NEW m \in Name, NEW r \in Sendable, NEW k \in 1..Parts,
                      file'[m] # NoFile, m \notin broken', saved[m] = {r}
               PROVE  \/ file'[m][k] = r
                      \/ \E q \in Process : pc'[q] \in Writing /\ Target(q)' = m /\ got'[q] <= k
    BY DEF Whole
  <2>1. m \notin broken /\ file[m] # NoFile
    BY <1>5
  <2>2. CASE file[m][k] = r
    <3>1. m = Target(p) => sent[p] = r
      BY DEF Receiving
    <3> QED BY <2>2, <3>1, FlushedIs
  <2>3. CASE \E q \in Process : q # p /\ pc[q] \in Writing /\ Target(q) = m /\ got[q] <= k
    BY <2>3, <1>1
  <2>4. CASE Target(p) = m /\ got[p] <= k
    <3>1. ok[p] = TRUE /\ pc[p] = "close" /\ file' = Flushed(p)
      BY <2>4
    <3>2. k = got[p] /\ sent[p] = r
      BY <2>4, <3>1, PartsPositive DEF Receiving
    <3> QED BY <2>4, <3>1, <3>2, FlushedIs
  <2> QED BY <2>1, <2>2, <2>3, <2>4 DEF Whole
<1> QED BY <1>3, <1>4, <1>6, <1>7, <1>8, <1>9

\* fclose, with ~FileHandle.
LEMMA CloseHolds == ASSUME IInv, NEW p \in Process, Close(p) PROVE IInv'
<1>1. pc[p] = "close" /\ pc[p] \in Writing /\ url' = url /\ saved' = saved /\ Forget(p)
  BY DEF Close, Writing
<1>2. ok[p] \in BOOLEAN /\ url' \in [Process -> Url \cup {NoUrl}]
  BY <1>1 DEF IInv, Typed
<1>3. PICK l \in {"path", "failed", "none"} : Goto(p, l)
  BY DEF Close
<1>4. /\ file' = file \/ file' = Flushed(p)
      /\ broken' \in {broken, broken \cup {Target(p)}}
      /\ Target(p) \in broken' \/ (ok[p] = TRUE /\ file' = Flushed(p))
  BY <1>2 DEF Close
<1> QED BY <1>1, <1>2, <1>3, <1>4, StopHolds

\* A process is killed, in a transfer or anywhere else.
LEMMA KillHolds == ASSUME IInv, NEW p \in Process, Kill(p) PROVE IInv'
<1>1. /\ Goto(p, "none") /\ Forget(p) /\ UNCHANGED <<file, saved>>
      /\ url' = [url EXCEPT ![p] = NoUrl]
  BY DEF Kill
<1>2. /\ url' \in [Process -> Url \cup {NoUrl}]
      /\ \A q \in Process \ {p} : url'[q] = url[q]
  BY <1>1 DEF IInv, Typed
<1>3. "none" \in DemoPC \ Writing /\ "none" \notin Inside \cup {"path"}
  BY DEF DemoPC, PC, Writing, Inside
<1>4. CASE pc[p] \in Writing
  <2>1. broken' = broken \cup {Target(p)}
    BY <1>4 DEF Kill, Writing
  <2> QED BY <1>1, <1>2, <1>4, <2>1, StopHolds
<1>5. CASE pc[p] \notin Writing
  <2>1. broken' = broken
    BY <1>5 DEF Kill, Writing
  <2> QED BY <1>1, <1>2, <1>3, <1>5, <2>1, OutsideHolds
<1> QED BY <1>4, <1>5

\* The constructor, and Download up to its test.
LEMMA CallHolds ==
  ASSUME IInv, NEW p \in Process, Construct(p) \/ \E u \in Url : Download(p, u) PROVE IInv'
<1>1. pc[p] \notin Writing
  BY DEF Construct, Download, Writing, Over
<1>2. UNCHANGED <<file, sent, got, ok, saved, broken>>
  BY DEF Construct, Download
<1>3. CASE Construct(p)
  <2>1. PICK l \in {"ready", "exited"} : Goto(p, l)
    BY <1>3 DEF Construct
  <2>2. l \in DemoPC \ Writing /\ l \notin Inside \cup {"path"}
    BY DEF DemoPC, PC, Over, Writing, Inside
  <2>3. url' \in [Process -> Url \cup {NoUrl}] /\ \A q \in Process \ {p} : url'[q] = url[q]
    BY <1>3 DEF Construct, IInv, Typed
  <2> QED BY <1>1, <1>2, <2>1, <2>2, <2>3, OutsideHolds
<1>4. ASSUME NEW u \in Url, Download(p, u) PROVE IInv'
  <2>1. /\ url' \in [Process -> Url \cup {NoUrl}] /\ url'[p] = u
        /\ \A q \in Process \ {p} : url'[q] = url[q]
    BY <1>4 DEF Download, IInv, Typed
  <2>2. PICK l \in {"terminated", "open", "path"} :
          /\ Goto(p, l)
          /\ l # "terminated" => NameOf[u] # NoName
          /\ l = "path" => file[NameOf[u]] # NoFile
    BY <1>4 DEF Download
  <2>3. l \in DemoPC \ Writing
    BY DEF DemoPC, PC, Over, Writing, Inside
  <2>4. l \in Inside \cup {"path"} => NameOf[u] \in Name
    BY <2>2, NamesOfUrls DEF Inside
  <2> QED BY <1>1, <1>2, <2>1, <2>2, <2>3, <2>4, OutsideHolds
<1> QED BY <1>3, <1>4

\* The rest of main: the other tests, and the end of a process.
LEMMA ElsewhereHolds ==
  ASSUME IInv, NEW p \in Process, NextTest(p) \/ Leave(p) \/ TestSigSlot(p) \/ TestGetPath(p) PROVE IInv'
<1>1. UNCHANGED downloadVars /\ pc[p] \notin Writing
  BY DEF NextTest, Leave, Return, TestSigSlot, TestGetPath, Writing, Sig!SignalStep,
         Sig!Bind, Sig!Emit, Sig!Run, Sig!Dangle, Sig!Done
<1>2. CASE UNCHANGED pc
  BY <1>1, <1>2 DEF downloadVars, IInv, Typed, Named, Present, Opened, Receiving, Whole, Target
<1>3. CASE \E l \in {"signal", "emit", "emitted", "getPath", "returned", "terminated", "undefined"} : Goto(p, l)
  <2>1. PICK l \in {"signal", "emit", "emitted", "getPath", "returned", "terminated", "undefined"} : Goto(p, l)
    BY <1>3
  <2>2. l \in DemoPC \ Writing /\ l \notin Inside \cup {"path"}
    BY DEF DemoPC, PC, Over, Writing, Inside
  <2>3. url' = url /\ url \in [Process -> Url \cup {NoUrl}]
    BY <1>1 DEF downloadVars, IInv, Typed
  <2> QED BY <1>1, <2>1, <2>2, <2>3, OutsideHolds DEF downloadVars
<1> QED BY <1>2, <1>3 DEF NextTest, Leave, Return, TestSigSlot, TestGetPath, Sig!SignalStep,
         Sig!Bind, Sig!Emit, Sig!Run, Sig!Dangle, Sig!Done, Sig!Goto, Goto, Sig!After

\* Every step of main preserves the invariant.
LEMMA NextHolds == ASSUME IInv, [DemoNext]_demoVars PROVE IInv'
<1>1. CASE UNCHANGED demoVars
  BY <1>1 DEF demoVars, vars, downloadVars, IInv, Typed, Named, Present, Opened, Receiving, Whole, Target
<1>2. ASSUME NEW p \in Process, Start(p) \/ CallDownload(p) PROVE IInv'
  BY <1>2, CallHolds DEF Start, CallDownload
<1>3. ASSUME NEW p \in Process, Network(p) \/ FileCall(p) \/ Killed(p) PROVE IInv'
  BY <1>3, ReceiveHolds, PerformHolds, OpenHolds, CloseHolds, KillHolds DEF Network, FileCall, Killed
<1> QED BY <1>1, <1>2, <1>3, ElsewhereHolds DEF DemoNext, Local

LEMMA Invariance == DemoSpec => []IInv
<1>1. DemoInit => IInv
  BY InitHolds DEF DemoInit
<1>2. IInv /\ [DemoNext]_demoVars => IInv'
  BY NextHolds
<1> QED BY <1>1, <1>2, PTL DEF DemoSpec

-----------------------------------------------------------------------------
(* A path that Download has returned names the whole model, unless one of  *)
(* the accidents that PathNamesModel lists has happened to its file, or no *)
(* process has ever opened it: for any processes, URLs, names and parts,   *)
(* and whatever was in the directory before.                               *)
THEOREM PathsNameModels == DemoSpec => []PathNamesModel
<1>1. IInv => PathNamesModel
  <2> SUFFICES ASSUME IInv, NEW p \in Process, pc[p] = "path",
                      Target(p) \notin broken, Busy(Target(p)) = {},
                      saved[Target(p)] \ {url[p]} = {}, saved[Target(p)] # {}
               PROVE  file[Target(p)] = Model(url[p])
    BY DEF PathNamesModel
  <2>1. url[p] \in Url /\ Target(p) \in Name /\ file[Target(p)] \in Content /\ saved[Target(p)] = {url[p]}
    BY DEF IInv, Typed, Named, Opened
  <2>2. \A k \in 1..Parts : file[Target(p)][k] = url[p]
    BY <2>1 DEF IInv, Whole, Present, Busy, Writing, Sendable
  <2> QED BY <2>1, <2>2 DEF Content, Model
<1> QED BY <1>1, Invariance, PTL

(* Only a process that has found no file, or has opened it, writes to it;  *)
(* and a process that finds a file does not become one of those.           *)
THEOREM FilesKept == DemoSpec => FilesStay
<1>1. IInv /\ [DemoNext]_demoVars => [\A n \in Name : Settled(n) => Settled(n)' /\ file'[n] = file[n]]_vars
  <2> SUFFICES ASSUME IInv, [DemoNext]_demoVars, NEW n \in Name, Settled(n)
               PROVE  Settled(n)' /\ file'[n] = file[n]
    OBVIOUS
  <2> USE DEF IInv, Typed, Inside, Goto, Target
  <2>1. CASE UNCHANGED demoVars
    BY <2>1 DEF demoVars, vars, downloadVars, Settled
  <2>2. ASSUME NEW p \in Process, Start(p)
        PROVE  Settled(n)' /\ file'[n] = file[n]
    BY <2>2 DEF Start, Construct, Settled
  <2>3. ASSUME NEW p \in Process, NEW u \in Url, Download(p, u)
        PROVE  Settled(n)' /\ file'[n] = file[n]
    <3>1. file' = file /\ \A q \in Process \ {p} : pc'[q] = pc[q] /\ url'[q] = url[q]
      BY <2>3 DEF Download
    <3>2. pc'[p] \in Inside => url'[p] = u /\ NameOf[u] # n
      BY <2>3 DEF Download, Settled
    <3> QED BY <3>1, <3>2 DEF Settled
  <2>4. ASSUME NEW p \in Process, Open(p)
        PROVE  Settled(n)' /\ file'[n] = file[n]
    BY <2>4 DEF Open, Settled
  <2>5. ASSUME NEW p \in Process, Receive(p) \/ Close(p)
        PROVE  Settled(n)' /\ file'[n] = file[n]
    <3>1. pc[p] \in Writing /\ Target(p) # n /\ file' \in {file, Flushed(p)}
      BY <2>5 DEF Receive, Close, Writing, Settled
    <3>2. file'[n] = file[n]
      BY <3>1, FlushedIs
    <3>3. url' = url /\ \A q \in Process : pc'[q] \in Inside => pc[q] \in Inside
      BY <2>5 DEF Receive, Close
    <3> QED BY <3>2, <3>3 DEF Settled
  <2>6. ASSUME NEW p \in Process, Perform(p) \/ Killed(p)
        PROVE  Settled(n)' /\ file'[n] = file[n]
    BY <2>6 DEF Perform, Killed, Kill, Settled
  <2>7. ASSUME NEW p \in Process, NextTest(p) \/ Leave(p) \/ TestSigSlot(p) \/ TestGetPath(p)
        PROVE  Settled(n)' /\ file'[n] = file[n]
    <3>1. file' = file /\ url' = url
      BY <2>7 DEF NextTest, Leave, Return, TestSigSlot, TestGetPath, downloadVars
    <3>2. \A q \in Process : pc'[q] \in Inside => pc[q] \in Inside
      BY <2>7 DEF NextTest, Leave, Return, TestSigSlot, TestGetPath, Sig!SignalStep,
           Sig!Bind, Sig!Emit, Sig!Run, Sig!Dangle, Sig!Done, Sig!Goto, Sig!After
    <3> QED BY <3>1, <3>2 DEF Settled
  <2> QED BY <2>1, <2>2, <2>3, <2>4, <2>5, <2>6, <2>7 DEF DemoNext, Local, CallDownload, FileCall, Network
<1> QED BY <1>1, Invariance, PTL DEF DemoSpec, FilesStay

-----------------------------------------------------------------------------
(* In every run of Demo an emission reaches its slots: for any number of   *)
(* slots, in any process, through kills and restarts.                      *)

Arg == {"sent", "moved"}
Ref == {"lvalue", "rvalue"}
Iterators == {"valid", "dangling"}
Emission == [next : Nat, end : Nat, arg : Arg, ref : Ref, iterators : Iterators]

EmissionTyped ==
  /\ pc \in [Process -> DemoPC]
  /\ slots_ \in [Process -> Seq(Sig!Slot)]
  /\ emission \in [Process -> Emission]
  /\ received \in [Process -> Seq(Nat \X Arg)]

BeforeEmission == {"ready", "path", "failed", "signal"} \cup Inside

\* A process that is going to emit has emitted nothing since it was started.
Fresh(p) == pc[p] \in BeforeEmission => received[p] = <<>>

\* What was received so far: in the order of the slots, and nothing after a slot that threw.
InOrder(p) ==
  \A i \in 1..Len(received[p]) :
    /\ received[p][i][1] = i
    /\ received[p][i][2] # "sent" => i > 1 /\ emission[p].ref = "rvalue"
    /\ slots_[p][i] = "throws" => i = Len(received[p]) /\ pc[p] \notin {"emit", "emitted"}

\* The loop: the slots before next have been called, and those up to end are there.
Looping(p) ==
  /\ pc[p] = "emit" =>
       /\ Len(received[p]) = emission[p].next - 1
       /\ emission[p].next <= emission[p].end + 1 /\ emission[p].end <= Len(slots_[p])
       /\ emission[p].arg = "moved" => emission[p].next > 1 /\ emission[p].ref = "rvalue"
  /\ pc[p] = "emitted" => Len(received[p]) = emission[p].end

EmissionInv == EmissionTyped /\ \A p \in Process : Fresh(p) /\ InOrder(p) /\ Looping(p)

LEMMA EmissionInit == DemoInit => EmissionInv
<1> SUFFICES ASSUME DemoInit PROVE EmissionInv
  OBVIOUS
<1>1. EmissionTyped
  BY DEF DemoInit, Init, EmissionTyped, Sig!SignalInit, Sig!NoEmission, Sig!Begun, Emission, Arg, Ref, Iterators, DemoPC, PC
<1>2. ASSUME NEW p \in Process PROVE Fresh(p) /\ InOrder(p) /\ Looping(p)
  BY <1>2 DEF DemoInit, Init, Sig!SignalInit, Fresh, InOrder, Looping
<1> QED BY <1>1, <1>2 DEF EmissionInv

(* A step that leaves the signal alone, or forgets it, and does not bring  *)
(* the process to an emission.                                             *)
LEMMA EmissionElsewhere ==
  ASSUME EmissionInv, NEW p \in Process, NEW l \in DemoPC \ {"emit", "emitted"}, pc' = [pc EXCEPT ![p] = l],
         \/ UNCHANGED <<slots_, emission, received>> /\ (l \in BeforeEmission => pc[p] \in BeforeEmission)
         \/ Sig!Forget(p)
  PROVE  EmissionInv'
<1> USE DEF EmissionInv, EmissionTyped
<1>1. CASE UNCHANGED <<slots_, emission, received>> /\ (l \in BeforeEmission => pc[p] \in BeforeEmission)
  BY <1>1 DEF Fresh, InOrder, Looping
<1>2. CASE Sig!Forget(p)
  <2>1. EmissionTyped'
    BY <1>2 DEF Sig!Forget, Sig!NoEmission, Sig!Begun, Emission, Arg, Ref, Iterators
  <2>2. ASSUME NEW q \in Process PROVE Fresh(q)' /\ InOrder(q)' /\ Looping(q)'
    <3>1. CASE q = p
      BY <1>2, <3>1 DEF Sig!Forget, Fresh, InOrder, Looping
    <3>2. CASE q # p
      BY <1>2, <3>2 DEF Sig!Forget, Fresh, InOrder, Looping
    <3> QED BY <3>1, <3>2
  <2> QED BY <2>1, <2>2
<1> QED BY <1>1, <1>2

\* The signal is bound to and called.
LEMMA EmissionCall ==
  ASSUME EmissionInv, NEW p \in Process, Sig!Bind(p) \/ Sig!Emit(p) PROVE EmissionInv'
<1> USE DEF EmissionInv, EmissionTyped, Sig!Goto
<1>1. pc[p] = "signal" /\ received[p] = <<>> /\ received' = received
  BY DEF Sig!Bind, Sig!Emit, Fresh, BeforeEmission
<1>2. EmissionTyped'
  <2>1. CASE Sig!Bind(p)
    BY <2>1 DEF Sig!Bind
  <2>2. CASE Sig!Emit(p)
    <3>1. PICK r \in Ref : emission' = [emission EXCEPT ![p] = Sig!Begun(Len(slots_[p]), r)]
      BY <2>2 DEF Sig!Emit, Ref
    <3>2. Sig!Begun(Len(slots_[p]), r) \in Emission
      BY DEF Sig!Begun, Emission, Arg, Iterators
    <3>3. emission' \in [Process -> Emission]
      BY <3>1, <3>2
    <3> QED BY <2>2, <3>3 DEF Sig!Emit, DemoPC
  <2> QED BY <2>1, <2>2
<1>3. ASSUME NEW q \in Process PROVE Fresh(q)' /\ InOrder(q)' /\ Looping(q)'
  <2>1. CASE q # p
    BY <2>1 DEF Sig!Bind, Sig!Emit, Fresh, InOrder, Looping
  <2>2. CASE q = p
    BY <1>1, <2>2 DEF Sig!Bind, Sig!Emit, Sig!NoEmission, Sig!Begun, Fresh, InOrder, Looping
  <2> QED BY <2>1, <2>2
<1> QED BY <1>2, <1>3

\* One slot is called.
LEMMA EmissionRun == ASSUME EmissionInv, NEW p \in Process, Sig!Run(p) PROVE EmissionInv'
<1> DEFINE e == emission[p]
           s == slots_[p][e.next]
<1> USE DEF EmissionInv, EmissionTyped, Sig!Goto
<1>1. /\ pc[p] = "emit" /\ e.next <= e.end
      /\ received' = [received EXCEPT ![p] = Append(@, <<e.next, e.arg>>)]
      /\ pc' = [pc EXCEPT ![p] = IF s = "throws" THEN "terminated" ELSE "emit"]
  BY DEF Sig!Run, Sig!More, Sig!After
<1>2. e \in Emission /\ Len(received[p]) = e.next - 1 /\ e.end <= Len(slots_[p])
  BY <1>1 DEF Looping
<1>3. PICK j \in Iterators :
        emission' = [emission EXCEPT ![p] =
                       [next |-> e.next + 1, end |-> e.end, ref |-> e.ref, iterators |-> j,
                        arg |-> IF e.ref = "rvalue" THEN "moved" ELSE e.arg]]
  BY DEF Sig!Run, Sig!Advance, Iterators
<1>4. slots_' = slots_ \/ slots_' = [slots_ EXCEPT ![p] = Append(@, "returns")]
  BY DEF Sig!Run
<1>0. /\ Append(slots_[p], "returns") \in Seq(Sig!Slot)
      /\ Len(Append(slots_[p], "returns")) = Len(slots_[p]) + 1
      /\ \A i \in 1..Len(slots_[p]) : Append(slots_[p], "returns")[i] = slots_[p][i]
  BY AppendProperties, "returns" \in Sig!Slot DEF Sig!Slot
<1>e. e \in Emission /\ e.next \in Nat /\ e.end \in Nat /\ <<e.next, e.arg>> \in Nat \X Arg
  BY DEF Emission
<1>r. /\ Append(received[p], <<e.next, e.arg>>) \in Seq(Nat \X Arg)
      /\ Len(Append(received[p], <<e.next, e.arg>>)) = Len(received[p]) + 1
      /\ \A i \in 1..Len(received[p]) : Append(received[p], <<e.next, e.arg>>)[i] = received[p][i]
      /\ Append(received[p], <<e.next, e.arg>>)[Len(received[p]) + 1] = <<e.next, e.arg>>
  BY <1>e, AppendProperties
<1>5. EmissionTyped'
  <2>1. pc' \in [Process -> DemoPC]
    BY <1>1 DEF DemoPC, PC, Over
  <2>2. slots_' \in [Process -> Seq(Sig!Slot)]
    BY <1>4, <1>0
  <2>3. [next |-> e.next + 1, end |-> e.end, ref |-> e.ref, iterators |-> j,
           arg |-> IF e.ref = "rvalue" THEN "moved" ELSE e.arg] \in Emission
    <3>1. (IF e.ref = "rvalue" THEN "moved" ELSE e.arg) \in Arg
      BY <1>e DEF Arg, Emission
    <3> QED BY <1>e, <3>1 DEF Emission
  <2>5. received' \in [Process -> Seq(Nat \X Arg)]
    BY <1>1, <1>r
  <2>6. emission' \in [Process -> Emission]
    BY <1>3, <2>3
  <2> QED BY <2>1, <2>2, <2>5, <2>6
<1>6. ASSUME NEW q \in Process, q # p PROVE Fresh(q)' /\ InOrder(q)' /\ Looping(q)'
  BY <1>1, <1>3, <1>4, <1>6 DEF Fresh, InOrder, Looping
<1>7. /\ emission'[p].next = e.next + 1 /\ emission'[p].end = e.end /\ emission'[p].ref = e.ref
      /\ emission'[p].arg = IF e.ref = "rvalue" THEN "moved" ELSE e.arg
  BY <1>2, <1>3 DEF Emission
<1>8. Len(received'[p]) = e.next /\ \A i \in 1..(e.next - 1) : received'[p][i] = received[p][i]
  BY <1>1, <1>2, <1>e, <1>r
<1>9. received'[p][e.next] = <<e.next, e.arg>>
  BY <1>1, <1>2, <1>e, <1>r
<1>10. \A i \in 1..e.next : slots_'[p][i] = slots_[p][i]
  BY <1>1, <1>2, <1>4, <1>e, <1>0
<1>11. Len(slots_'[p]) >= Len(slots_[p])
  BY <1>4, <1>0
<1>a. e.arg = "moved" => e.ref = "rvalue" /\ e.next > 1
  BY <1>1 DEF Looping
<1>p. pc'[p] \in {"emit", "terminated"} /\ (pc'[p] = "emit" => s # "throws")
  BY <1>1
<1>12. Fresh(p)' /\ Looping(p)'
  <2>1. Fresh(p)'
    BY <1>p DEF Fresh, BeforeEmission, Inside
  <2>2. emission'[p].arg = "moved" => emission'[p].ref = "rvalue" /\ emission'[p].next > 1
    BY <1>7, <1>a, <1>e, <1>2
  <2>3. /\ Len(received'[p]) = emission'[p].next - 1
        /\ emission'[p].next <= emission'[p].end + 1 /\ emission'[p].end <= Len(slots_'[p])
    <3>1. Len(slots_[p]) \in Nat /\ Len(slots_'[p]) \in Nat
      BY <1>5
    <3> QED BY <3>1, <1>1, <1>2, <1>e, <1>7, <1>8, <1>11
  <2> QED BY <2>1, <2>2, <2>3, <1>p DEF Looping
<1>13. InOrder(p)'
  <2> SUFFICES ASSUME NEW i \in 1..e.next
               PROVE  /\ received'[p][i][1] = i
                      /\ received'[p][i][2] # "sent" => i > 1 /\ e.ref = "rvalue"
                      /\ slots_'[p][i] = "throws" => i = e.next /\ pc'[p] \notin {"emit", "emitted"}
    BY <1>7, <1>8 DEF InOrder
  <2>1. CASE i = e.next
    <3>1. received'[p][i][1] = i /\ received'[p][i][2] = e.arg /\ slots_'[p][i] = s
      BY <1>9, <1>10, <2>1
    <3>2. e.arg # "sent" => i > 1 /\ e.ref = "rvalue"
      BY <1>a, <1>2, <2>1 DEF Emission, Arg
    <3> QED BY <3>1, <3>2, <1>p, <2>1
  <2>2. CASE i # e.next
    <3>1. i \in 1..(e.next - 1) /\ i \in 1..Len(received[p])
      BY <1>2, <1>e, <2>2
    <3>2. received'[p][i] = received[p][i] /\ slots_'[p][i] = slots_[p][i]
      BY <1>8, <1>10, <3>1
    <3>3. /\ received[p][i][1] = i
          /\ received[p][i][2] # "sent" => i > 1 /\ e.ref = "rvalue"
          /\ slots_[p][i] # "throws"
      BY <1>1, <3>1 DEF InOrder
    <3> QED BY <3>2, <3>3
  <2> QED BY <2>1, <2>2
<1> QED BY <1>5, <1>6, <1>12, <1>13

\* The loop ends, or uses an iterator that dangles.
LEMMA EmissionEnd == ASSUME EmissionInv, NEW p \in Process, Sig!Dangle(p) \/ Sig!Done(p) PROVE EmissionInv'
<1> USE DEF EmissionInv, EmissionTyped, Sig!Goto
<1>1. UNCHANGED <<slots_, emission, received>> /\ pc[p] = "emit"
  BY DEF Sig!Dangle, Sig!Done, Sig!signalVars
<1>2. CASE Sig!Dangle(p)
  <2>1. "undefined" \in DemoPC \ {"emit", "emitted"} /\ "undefined" \notin BeforeEmission
    BY DEF DemoPC, PC, Over, BeforeEmission, Inside
  <2> QED BY <1>1, <1>2, <2>1, EmissionElsewhere DEF Sig!Dangle
<1>3. CASE Sig!Done(p)
  <2>1. pc' = [pc EXCEPT ![p] = "emitted"] /\ ~(emission[p].next <= emission[p].end)
    BY <1>3 DEF Sig!Done, Sig!More
  <2>2. EmissionTyped'
    BY <1>1, <2>1 DEF DemoPC
  <2>3. ASSUME NEW q \in Process, q # p PROVE Fresh(q)' /\ InOrder(q)' /\ Looping(q)'
    BY <1>1, <2>1, <2>3 DEF Fresh, InOrder, Looping
  <2>4. Len(received[p]) = emission[p].end
    BY <1>1, <2>1 DEF Looping, Emission
  <2>5. Fresh(p)' /\ InOrder(p)' /\ Looping(p)'
    BY <1>1, <2>1, <2>4 DEF Fresh, InOrder, Looping, BeforeEmission, Inside
  <2> QED BY <2>2, <2>3, <2>5
<1> QED BY <1>2, <1>3

\* Every step of main preserves the invariant.
LEMMA EmissionNext == ASSUME EmissionInv, [DemoNext]_demoVars PROVE EmissionInv'
<1>1. CASE UNCHANGED demoVars
  BY <1>1 DEF demoVars, vars, EmissionInv, EmissionTyped, Fresh, InOrder, Looping
<1>2. ASSUME NEW p \in Process, Start(p) PROVE EmissionInv'
  <2>1. PICK l \in {"ready", "exited"} : Goto(p, l)
    BY <1>2 DEF Start, Construct
  <2>2. l \in DemoPC \ {"emit", "emitted"}
    BY DEF DemoPC, PC, Over
  <2> QED BY <1>2, <2>1, <2>2, EmissionElsewhere DEF Start, Goto
<1>3. ASSUME NEW p \in Process, CallDownload(p) \/ Network(p) \/ FileCall(p) PROVE EmissionInv'
  <2>1. UNCHANGED <<slots_, emission, received>>
    BY <1>3 DEF CallDownload, Network, FileCall
  <2>2. pc[p] \in BeforeEmission
    BY <1>3 DEF CallDownload, Network, FileCall, Download, Receive, Perform, Open, Close, BeforeEmission, Inside
  <2>3. \E l \in {"terminated", "open", "path", "transfer", "undefined", "close", "failed"} :
          pc' = [pc EXCEPT ![p] = l]
    <3>1. CASE Receive(p)
      <4>1. pc' = [pc EXCEPT ![p] = "transfer"]
        BY <3>1 DEF Receive, EmissionInv, EmissionTyped
      <4> QED BY <4>1
    <3>2. CASE ~Receive(p)
      BY <1>3, <3>2 DEF CallDownload, Network, FileCall, Download, Perform, Open, Close, Goto
    <3> QED BY <3>1, <3>2
  <2>4. {"terminated", "open", "path", "transfer", "undefined", "close", "failed"} \subseteq DemoPC \ {"emit", "emitted"}
    BY DEF DemoPC, PC, Over, Inside
  <2> QED BY <2>1, <2>2, <2>3, <2>4, EmissionElsewhere
<1>4. ASSUME NEW p \in Process, NextTest(p) \/ Leave(p) \/ TestGetPath(p) \/ Killed(p) PROVE EmissionInv'
  <2>1. PICK l \in {"signal", "getPath", "returned", "undefined", "terminated", "none"} :
          /\ pc' = [pc EXCEPT ![p] = l]
          /\ \/ UNCHANGED <<slots_, emission, received>> /\ (l = "signal" => pc[p] \in {"path", "failed"})
             \/ Sig!Forget(p)
    BY <1>4 DEF NextTest, Leave, Return, TestGetPath, Killed, Kill, Goto
  <2>2. l \in DemoPC \ {"emit", "emitted"} /\ (l \in BeforeEmission => l = "signal")
    BY DEF DemoPC, PC, Over, Inside, BeforeEmission
  <2> QED BY <2>1, <2>2, EmissionElsewhere DEF BeforeEmission
<1>5. ASSUME NEW p \in Process, TestSigSlot(p) PROVE EmissionInv'
  BY <1>5, EmissionCall, EmissionRun, EmissionEnd DEF TestSigSlot, Sig!SignalStep
<1> QED BY <1>1, <1>2, <1>3, <1>4, <1>5 DEF DemoNext, Local

LEMMA EmissionInvariance == DemoSpec => []EmissionInv
<1>1. EmissionInv /\ [DemoNext]_demoVars => EmissionInv'
  BY EmissionNext
<1> QED BY <1>1, EmissionInit, PTL DEF DemoSpec

-----------------------------------------------------------------------------
(* However many slots there are, and whatever they do when they are        *)
(* called: the loop of operator() calls each one that was bound when it    *)
(* began, in order, and nobody after one that threw.                       *)
THEOREM EmissionsReachSlots == DemoSpec => []EmissionReachesSlots
<1>1. EmissionInv => EmissionReachesSlots
  <2> SUFFICES ASSUME EmissionInv, NEW p \in Process
               PROVE  /\ \A i \in DOMAIN received[p] :
                           /\ received[p][i][1] = i
                           /\ received[p][i][2] # "sent" => i > 1 /\ emission[p].ref = "rvalue"
                           /\ slots_[p][i] = "throws" => i = Len(received[p]) /\ pc[p] # "emitted"
                      /\ pc[p] = "emitted" => Len(received[p]) = emission[p].end
    BY DEF EmissionReachesSlots, Sig!EmissionReachesSlots
  <2>1. DOMAIN received[p] = 1..Len(received[p])
    BY DEF EmissionInv, EmissionTyped
  <2>2. InOrder(p) /\ Looping(p)
    BY DEF EmissionInv
  <2>3. pc[p] = "emitted" => Len(received[p]) = emission[p].end
    BY <2>2 DEF Looping
  <2>4. ASSUME NEW i \in 1..Len(received[p])
        PROVE  /\ received[p][i][1] = i
               /\ received[p][i][2] # "sent" => i > 1 /\ emission[p].ref = "rvalue"
               /\ slots_[p][i] = "throws" => i = Len(received[p]) /\ pc[p] # "emitted"
    BY <2>2 DEF InOrder
  <2> QED BY <2>1, <2>3, <2>4
<1> QED BY <1>1, EmissionInvariance, PTL

-----------------------------------------------------------------------------
(* How a process can end.                                                  *)

EndsTyped ==
  /\ calls \in [Process -> 0..MaxDownloads]
  /\ link \in [Process -> SUBSET Answer]

\* EndsExplained for one process.
Explained(p) ==
  /\ pc[p] = "returned" /\ p \in Runs =>
       \E a \in link[p] : 0 <= a.cnt /\ a.cnt < PathMax - 1 /\ a.zero /\ SuffixSize <= a.directory
  /\ pc[p] = "terminated" =>
       \/ NameOf[url[p]] = NoName
       \/ received[p] # <<>> /\ slots_[p][Len(received[p])] = "throws"
       \/ \E a \in link[p] : a.directory < SuffixSize
  /\ pc[p] = "undefined" =>
       \/ emission[p].iterators = "dangling"
       \/ \E a \in link[p] : ~(0 <= a.cnt /\ a.cnt < PathMax /\ a.zero)
       \/ calls[p] > 0 /\ slots_[p] = <<>> /\ link[p] = {}

\* The tests before TestSigSlot.
Unbound == {"ready", "path", "failed"} \cup Inside

(* Until its end a process has no answer of readlink; while it downloads   *)
(* its signal has no slot, and fopen is called by a Download.              *)
OnTheWay(p) ==
  /\ pc[p] \notin {"returned", "terminated", "undefined"} => link[p] = {}
  /\ pc[p] \in Unbound => slots_[p] = <<>>
  /\ pc[p] \in Inside => calls[p] > 0
  /\ pc[p] = "failed" => Target(p) \in Name
  /\ emission[p].end <= Len(slots_[p])

EndsInv == EndsTyped /\ \A p \in Process : Explained(p) /\ OnTheWay(p)

AllInv == IInv /\ EmissionInv /\ EndsInv

\* The difference of the two sizes wraps just if the directory's name is the shorter one.
LEMMA TailWraps ==
  ASSUME NEW d \in Nat
  PROVE  TailStart(d) > d <=> d < SuffixSize
<1>1. SuffixSize \in Nat /\ SizeMod \in Nat /\ 0 < SuffixSize /\ SuffixSize < SizeMod
  BY SizesHoldSuffix, DemoBounds
<1> DEFINE e == d - SuffixSize
<1>2. CASE d < SuffixSize
  <2>1. e + SizeMod \in 0..(SizeMod - 1) /\ e + SizeMod > d
    BY <1>1, <1>2
  <2>2. e % SizeMod = e + SizeMod
    BY <1>1, <2>1
  <2> QED BY <1>1, <1>2, <2>1, <2>2 DEF TailStart
<1>3. CASE d >= SuffixSize
  <2>1. e \in Nat /\ e < d
    BY <1>1, <1>3
  <2>2. e % SizeMod <= e
    BY <1>1, <2>1
  <2>3. e % SizeMod \in Int
    BY <1>1, <2>1
  <2> QED BY <1>1, <1>3, <2>1, <2>2, <2>3 DEF TailStart
<1> QED BY <1>1, <1>2, <1>3

Others(p) ==
  \A q \in Process \ {p} :
    /\ pc'[q] = pc[q] /\ url'[q] = url[q] /\ calls'[q] = calls[q] /\ link'[q] = link[q]
    /\ slots_'[q] = slots_[q] /\ emission'[q] = emission[q] /\ received'[q] = received[q]

LEMMA EndsFrame ==
  ASSUME EndsInv, NEW p \in Process, Others(p), EndsTyped', Explained(p)', OnTheWay(p)'
  PROVE  EndsInv'
<1>1. ASSUME NEW q \in Process, q # p PROVE Explained(q)' /\ OnTheWay(q)'
  BY <1>1 DEF EndsInv, Others, Explained, OnTheWay, Target
<1> QED BY <1>1 DEF EndsInv

LEMMA EndsInit == DemoInit => EndsInv
<1> SUFFICES ASSUME DemoInit PROVE EndsInv
  OBVIOUS
<1>1. EndsTyped
  BY DemoBounds DEF DemoInit, EndsTyped
<1>2. ASSUME NEW p \in Process PROVE Explained(p) /\ OnTheWay(p)
  BY <1>2, EmptySeq DEF DemoInit, Init, Sig!SignalInit, Sig!NoEmission, Sig!Begun, Explained, OnTheWay, Inside, Unbound
<1> QED BY <1>1, <1>2 DEF EndsInv

\* A step on which the signal, the calls and readlink's answer do not change.
LEMMA EndsMove ==
  ASSUME AllInv, NEW p \in Process, NEW l \in DemoPC, pc' = [pc EXCEPT ![p] = l],
         UNCHANGED <<slots_, emission, received, calls, link>>,
         \A q \in Process \ {p} : url'[q] = url[q],
         l \in {"returned", "terminated"} => p \notin Runs /\ l = "returned",
         pc[p] \notin {"returned", "terminated", "undefined"},
         l = "undefined" => (calls[p] > 0 /\ slots_[p] = <<>>) \/ emission[p].iterators = "dangling",
         l \in Inside => calls[p] > 0,
         l \in Unbound => pc[p] \in Unbound,
         l = "failed" => url'[p] = url[p] /\ Target(p) \in Name
  PROVE  EndsInv'
<1>1. pc \in [Process -> DemoPC] /\ EndsInv /\ EndsTyped
  BY DEF AllInv, EmissionInv, EmissionTyped, EndsInv
<1>2. Others(p) /\ pc'[p] = l
  BY <1>1 DEF Others
<1>3. EndsTyped'
  BY <1>1 DEF EndsTyped
<1>4. Explained(p) /\ OnTheWay(p) /\ link[p] = {}
  BY <1>1 DEF EndsInv, OnTheWay
<1>5. Explained(p)'
  BY <1>2, <1>4 DEF Explained
<1>6. OnTheWay(p)'
  BY <1>2, <1>4 DEF OnTheWay, Target
<1> QED BY <1>1, <1>2, <1>3, <1>5, <1>6, EndsFrame

\* A run begins.
LEMMA EndsStart == ASSUME AllInv, NEW p \in Process, Start(p) PROVE EndsInv'
<1> USE DEF AllInv, IInv, Typed, EmissionInv, EmissionTyped, EndsInv, EndsTyped, Start, Construct, Goto, Sig!Forget
<1>1. Others(p) /\ pc'[p] \in {"ready", "exited"} /\ link'[p] = {} /\ slots_'[p] = <<>>
      /\ emission'[p] = Sig!NoEmission
  BY DEF Others
<1>2. EndsTyped'
  BY DemoBounds
<1>3. Explained(p)' /\ OnTheWay(p)'
  BY <1>1, EmptySeq DEF Explained, OnTheWay, Inside, Unbound, Sig!NoEmission, Sig!Begun
<1> QED BY <1>1, <1>2, <1>3, EndsFrame

\* Download up to its test.
LEMMA EndsCall == ASSUME AllInv, NEW p \in Process, CallDownload(p) PROVE EndsInv'
<1> USE DEF AllInv, IInv, Typed, EmissionInv, EmissionTyped, EndsInv, EndsTyped
<1>1. PICK u \in Url, l \in {"terminated", "open", "path"} :
        /\ pc' = [pc EXCEPT ![p] = l] /\ url' = [url EXCEPT ![p] = u]
        /\ l = "terminated" => NameOf[u] = NoName
  BY DEF CallDownload, Download, Goto
<1>2. /\ calls' = [calls EXCEPT ![p] = @ + 1] /\ calls[p] < MaxDownloads
      /\ UNCHANGED <<slots_, emission, received, link>> /\ pc[p] \in {"ready", "path", "failed"}
  BY DEF CallDownload, Download
<1>3. Others(p) /\ pc'[p] = l /\ url'[p] = u /\ calls'[p] > 0
  BY <1>1, <1>2 DEF Others
<1>4. EndsTyped'
  BY <1>2, DemoBounds
<1>5. Explained(p)' /\ OnTheWay(p)'
  BY <1>1, <1>2, <1>3 DEF Explained, OnTheWay, Unbound, Inside
<1> QED BY <1>3, <1>4, <1>5, EndsFrame

\* The signal.
LEMMA EndsSignal == ASSUME AllInv, NEW p \in Process, TestSigSlot(p) PROVE EndsInv'
<1> USE DEF AllInv, IInv, Typed, EmissionInv, EmissionTyped, EndsInv, EndsTyped
<1>1. url' = url /\ calls' = calls /\ link' = link /\ OnTheWay(p) /\ EndsTyped'
  BY DEF TestSigSlot, downloadVars
<1>2. ASSUME Sig!Bind(p) \/ Sig!Emit(p) PROVE EndsInv'
  <2>1. Others(p) /\ pc'[p] \in {"signal", "emit"} /\ pc[p] = "signal"
    BY <1>1, <1>2 DEF Others, Sig!Bind, Sig!Emit, Sig!Goto
  <2>2. emission'[p].end <= Len(slots_'[p])
    <3>1. CASE Sig!Bind(p)
      <4>1. PICK x \in Sig!Slot : slots_'[p] = Append(slots_[p], x) /\ emission' = emission
        BY <3>1 DEF Sig!Bind
      <4>2. Len(slots_'[p]) = Len(slots_[p]) + 1 /\ Len(slots_[p]) \in Nat /\ emission[p].end \in Nat
        BY <4>1, AppendProperties, LenProperties DEF Emission
      <4> QED BY <1>1, <4>1, <4>2 DEF OnTheWay
    <3>2. CASE Sig!Emit(p)
      <4>1. emission'[p].end = Len(slots_[p]) /\ slots_' = slots_ /\ Len(slots_[p]) \in Nat
        BY <3>2, LenProperties DEF Sig!Emit, Sig!Begun
      <4> QED BY <4>1
    <3> QED BY <1>2, <3>1, <3>2
  <2>3. Explained(p)' /\ OnTheWay(p)'
    BY <1>1, <2>1, <2>2 DEF Explained, OnTheWay, Inside, Unbound
  <2> QED BY <1>1, <2>1, <2>3, EndsFrame
<1>3. ASSUME Sig!Run(p) PROVE EndsInv'
  <2> DEFINE e == emission[p]
             r == slots_[p][e.next]
  <2>1. /\ pc[p] = "emit" /\ e.next <= e.end /\ e \in Emission
        /\ received' = [received EXCEPT ![p] = Append(@, <<e.next, e.arg>>)]
        /\ pc' = [pc EXCEPT ![p] = IF r = "throws" THEN "terminated" ELSE "emit"]
        /\ slots_' = slots_ \/ (slots_' = [slots_ EXCEPT ![p] = Append(@, "returns")] /\ r # "throws")
    BY <1>3 DEF Sig!Run, Sig!More, Sig!After, Sig!Goto
  <2>2. \E i : Sig!Advance(p, i)
    BY <1>3 DEF Sig!Run
  <2>3. Others(p) /\ emission'[p].end = e.end
    BY <1>1, <2>1, <2>2 DEF Others, Sig!Advance
  <2>4. /\ Len(Append(slots_[p], "returns")) = Len(slots_[p]) + 1
        /\ Len(slots_[p]) \in Nat /\ e.end \in Nat
    BY <2>1, AppendProperties, LenProperties, "returns" \in Sig!Slot DEF Sig!Slot, Emission
  <2>5. emission'[p].end <= Len(slots_'[p])
    BY <1>1, <2>1, <2>3, <2>4 DEF OnTheWay
  <2>6. /\ Len(received'[p]) = e.next /\ received'[p] # <<>>
    <3>1. Len(received[p]) = e.next - 1 /\ Len(received[p]) \in Nat /\ e.next \in Nat /\ <<e.next, e.arg>> \in Nat \X Arg
      BY <2>1, LenProperties DEF Looping, Emission
    <3>2. received'[p] = Append(received[p], <<e.next, e.arg>>)
      BY <2>1
    <3>3. received[p] \in Seq(Nat \X Arg)
      OBVIOUS
    <3>4. /\ Len(Append(received[p], <<e.next, e.arg>>)) = Len(received[p]) + 1
          /\ Append(received[p], <<e.next, e.arg>>) # <<>>
      BY ONLY <3>1, <3>3, AppendProperties
    <3>5. Len(received[p]) + 1 = e.next
      BY ONLY <3>1
    <3> QED BY ONLY <3>2, <3>4, <3>5
  <2>7. Explained(p)'
    <3>1. CASE r = "throws"
      BY <2>1, <2>6, <3>1 DEF Explained
    <3>2. CASE r # "throws"
      BY <2>1, <3>2 DEF Explained
    <3> QED BY <3>1, <3>2
  <2>8. OnTheWay(p)'
    BY <1>1, <2>1, <2>5 DEF OnTheWay, Inside, Unbound
  <2> QED BY <1>1, <2>3, <2>7, <2>8, EndsFrame
<1>4. ASSUME Sig!Dangle(p) \/ Sig!Done(p) PROVE EndsInv'
  <2>1. PICK l \in {"undefined", "emitted"} :
          pc' = [pc EXCEPT ![p] = l] /\ (l = "undefined" => emission[p].iterators = "dangling")
    BY <1>4 DEF Sig!Dangle, Sig!Done, Sig!Goto
  <2>2. UNCHANGED <<slots_, emission, received>> /\ pc[p] = "emit"
    BY <1>4 DEF Sig!Dangle, Sig!Done, Sig!signalVars
  <2>3. l \in DemoPC /\ l \notin Unbound \cup Inside
    BY DEF DemoPC, PC, Over, Inside, Unbound
  <2> QED BY <1>1, <2>1, <2>2, <2>3, EndsMove
<1> QED BY <1>2, <1>3, <1>4 DEF TestSigSlot, Sig!SignalStep

\* The last test.
LEMMA EndsPath == ASSUME AllInv, NEW p \in Process, TestGetPath(p) PROVE EndsInv'
<1> USE DEF AllInv, IInv, Typed, EmissionInv, EmissionTyped, EndsInv, EndsTyped
<1>1. PICK a \in Answer :
        /\ link' = [link EXCEPT ![p] = {a}]
        /\ Goto(p, IF ~Printable(a) THEN "undefined"
                   ELSE IF TailStart(a.directory) > a.directory THEN "terminated" ELSE "returned")
  BY DEF TestGetPath
<1>2. /\ UNCHANGED <<url, calls, slots_, emission, received>> /\ a.cnt \in Int /\ a.directory \in Nat
      /\ a.zero => a.cnt < PathMax - 1
  BY DemoBounds DEF TestGetPath, downloadVars, Answer
<1>3. /\ Others(p) /\ link'[p] = {a} /\ EndsTyped'
      /\ pc'[p] = IF ~Printable(a) THEN "undefined"
                  ELSE IF TailStart(a.directory) > a.directory THEN "terminated" ELSE "returned"
  BY <1>1, <1>2 DEF Others, Goto
<1>4. SuffixSize \in Int /\ (TailStart(a.directory) > a.directory <=> a.directory < SuffixSize)
  BY <1>2, TailWraps, SizesHoldSuffix
<1>5. Explained(p)'
  BY <1>2, <1>3, <1>4 DEF Explained, LinkRead, Printable
<1>6. OnTheWay(p)'
  BY <1>2, <1>3 DEF OnTheWay, Inside, Unbound
<1> QED BY <1>3, <1>5, <1>6, EndsFrame

\* Every step of main preserves the three invariants together.
LEMMA AllNext == AllInv /\ [DemoNext]_demoVars => AllInv'
<1> SUFFICES ASSUME AllInv, [DemoNext]_demoVars PROVE AllInv'
  OBVIOUS
<1>1. IInv' /\ EmissionInv'
  BY NextHolds, EmissionNext DEF AllInv
<1>2. CASE UNCHANGED demoVars
  <2>1. /\ pc' = pc /\ url' = url /\ calls' = calls /\ link' = link
        /\ slots_' = slots_ /\ emission' = emission /\ received' = received
    BY <1>2 DEF demoVars, vars, downloadVars
  <2>2. ASSUME NEW p \in Process PROVE Explained(p)' /\ OnTheWay(p)'
    <3>1. Explained(p) /\ OnTheWay(p)
      BY DEF AllInv, EndsInv
    <3> QED BY <2>1, <3>1 DEF Explained, OnTheWay, Target
  <2>3. EndsTyped'
    BY <2>1 DEF AllInv, EndsInv, EndsTyped
  <2>4. EndsInv'
    BY <2>2, <2>3 DEF EndsInv
  <2> QED BY <1>1, <2>4 DEF AllInv
<1>3. ASSUME NEW p \in Process, Network(p) \/ FileCall(p) PROVE EndsInv'
  <2>1. /\ pc[p] \in Inside /\ UNCHANGED <<slots_, emission, received, calls, link, url>>
        /\ calls[p] > 0 /\ slots_[p] = <<>> /\ pc[p] \in Unbound /\ url[p] \in Url /\ Target(p) \in Name
    BY <1>3 DEF Network, FileCall, Receive, Perform, Open, Close, Inside, Unbound, AllInv, IInv, Named, EndsInv, OnTheWay
  <2>2. PICK l \in {"open", "transfer", "close", "path", "failed", "undefined"} : pc' = [pc EXCEPT ![p] = l]
    <3>1. CASE Receive(p)
      <4>1. pc' = [pc EXCEPT ![p] = "transfer"]
        BY <3>1 DEF Receive, AllInv, IInv, Typed
      <4> QED BY <4>1
    <3>2. CASE ~Receive(p)
      BY <1>3, <3>2 DEF Network, FileCall, Perform, Open, Close, Goto
    <3> QED BY <3>1, <3>2
  <2>3. l \in DemoPC /\ l \notin {"returned", "terminated"} /\ pc[p] \notin {"returned", "terminated", "undefined"}
    BY <2>1 DEF DemoPC, PC, Inside, Over
  <2> QED BY <2>1, <2>2, <2>3, EndsMove
<1>4. ASSUME NEW p \in Process, (NextTest(p) /\ pc[p] \in {"path", "failed"}) \/ Leave(p) \/ Killed(p) PROVE EndsInv'
  <2>1. PICK l \in {"signal", "returned", "none"} :
          pc' = [pc EXCEPT ![p] = l] /\ (l = "returned" => p \notin Runs)
    BY <1>4 DEF NextTest, Leave, Return, Killed, Kill, Goto
  <2>2. /\ UNCHANGED <<slots_, emission, received, calls, link>> /\ \A q \in Process \ {p} : url'[q] = url[q]
        /\ pc[p] \notin {"returned", "terminated", "undefined"}
    BY <1>4 DEF NextTest, Leave, Return, Killed, Kill, downloadVars, Over, AllInv, IInv, Typed
  <2>3. l \in DemoPC /\ l \notin Inside \cup Unbound \cup {"undefined", "terminated", "failed"}
    BY DEF DemoPC, PC, Inside, Unbound, Over
  <2> QED BY <2>1, <2>2, <2>3, EndsMove
<1>5. ASSUME NEW p \in Process, NextTest(p), pc[p] = "emitted" PROVE EndsInv'
  <2> USE DEF AllInv, IInv, Typed, EmissionInv, EmissionTyped, EndsInv, EndsTyped
  <2>1. /\ pc' = [pc EXCEPT ![p] = "getPath"] /\ Sig!Forget(p)
        /\ url' = url /\ calls' = calls /\ link' = link
    BY <1>5 DEF NextTest, Goto, downloadVars
  <2>2. /\ Others(p) /\ slots_'[p] = <<>> /\ emission'[p] = Sig!NoEmission /\ EndsTyped'
        /\ pc'[p] = "getPath"
    BY <2>1 DEF Others, Sig!Forget
  <2>3. link[p] = {}
    BY <1>5 DEF OnTheWay
  <2>4. Explained(p)'
    BY <2>2 DEF Explained
  <2>5. OnTheWay(p)'
    BY <2>1, <2>2, <2>3, EmptySeq DEF OnTheWay, Inside, Unbound, Sig!NoEmission, Sig!Begun
  <2> QED BY <2>2, <2>4, <2>5, EndsFrame
<1>6. ASSUME NEW p \in Process, NextTest(p) PROVE pc[p] \in {"path", "failed", "emitted"}
  BY <1>6 DEF NextTest
<1>7. EndsInv'
  <2>1. ASSUME NEW p \in Process, NextTest(p) PROVE EndsInv'
    BY <2>1, <1>4, <1>5, <1>6
  <2>2. ASSUME NEW p \in Process, Leave(p) \/ Killed(p) PROVE EndsInv'
    BY <2>2, <1>4
  <2>3. CASE DemoNext
    BY <2>1, <2>2, <2>3, <1>3, EndsStart, EndsCall, EndsSignal, EndsPath DEF DemoNext, Local
  <2> QED BY <1>2, <2>3 DEF AllInv
<1> QED BY <1>1, <1>7 DEF AllInv

(* However main is run, killed and run again, with any sizes of the        *)
(* buffer, the directory's name and the vector of slots: it reaches its    *)
(* end, an exception or undefined behaviour only for the reasons that      *)
(* EndsExplained lists.                                                    *)
THEOREM EndsAreExplained == DemoSpec => []EndsExplained
<1>1. DemoInit => AllInv
  BY InitHolds, EmissionInit, EndsInit DEF DemoInit, AllInv
<1>2. AllInv => EndsExplained
  <2> SUFFICES ASSUME AllInv PROVE EndsExplained
    OBVIOUS
  <2>1. \A p \in Process : pc[p] \in Inside \cup {"path", "failed"} => Target(p) \in Name
    BY DEF AllInv, IInv, Named, EndsInv, OnTheWay
  <2>2. \A p \in Process : emission[p].end <= Len(slots_[p]) /\ calls[p] <= MaxDownloads
    <3> TAKE p \in Process
    <3>1. calls[p] \in 0..MaxDownloads /\ OnTheWay(p)
      BY DEF AllInv, EndsInv, EndsTyped
    <3> QED BY <3>1, DemoBounds DEF OnTheWay
  <2>3. TypeOK
    BY <2>1, <2>2 DEF AllInv, IInv, Typed, Sendable, TypeOK
  <2> QED BY <2>3 DEF EndsExplained, AllInv, EndsInv, Explained
<1> QED BY <1>1, <1>2, AllNext, PTL DEF DemoSpec
=============================================================================
