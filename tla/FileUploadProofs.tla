---------------------------- MODULE FileUploadProofs ----------------------------
(***************************************************************************)
(* Proofs about FileUpload for any number of files, workers, segments,     *)
(* attempts and failures.                                                  *)
(***************************************************************************)
EXTENDS FileUpload, TLAPS

Busy == [at : {"fetch", "row", "group", "link", "plan", "segments"},
         job : [file : Files, attempt : 0 .. Attempts - 1], next : 1 .. LastSegment + 1]

\* An attempt that is waited for or made is not beyond the last one.
WorkInv ==
  /\ fw \in [FileWorkers -> Busy \cup {Rest}]
  /\ inbox \in Seq([file : Files, attempt : 0 .. Attempts - 1])

\* Where the message of file f is: on the list (Waits) or with a worker.
Waits(f)    == \E i \in 1 .. Len(inbox) : inbox[i].file = f
Holds(w, f) == fw[w] # Rest /\ fw[w].job.file = f

\* A file has one message, from its upload until it has an outcome.
OnceInv ==
  \A f \in Files :
    /\ \A i, k \in 1 .. Len(inbox) : inbox[i].file = f /\ inbox[k].file = f => i = k
    /\ upload[f] # "answered" => outcome[f] = "open"
    /\ Waits(f) => upload[f] = "answered" /\ outcome[f] = "open"
    /\ \A w \in FileWorkers : Holds(w, f) =>
         /\ upload[f] = "answered" /\ outcome[f] = "open"
         /\ ~Waits(f)
         /\ \A u \in FileWorkers : Holds(u, f) => u = w

\* A file that no client deleted keeps its object, so that its row stays: a
\* worker that got past the row is the first one to push.
RowAt(f) ==
  /\ f \in files => f \in s3
  /\ f \notin files => pushed[f] = << >>
  /\ \A w \in FileWorkers : Holds(w, f) =>
       /\ fw[w].at # "fetch" => f \in s3
       /\ fw[w].at # "segments" => fw[w].next = 1
       /\ fw[w].at \in {"group", "link", "plan"} => f \in files /\ pushed[f] = << >>
       /\ fw[w].at = "segments" =>
            f \in files /\ fw[w].next <= size[f] + 1 /\ Len(pushed[f]) = fw[w].next - 1

RowInv == \A f \in Files \ removed : RowAt(f)

IInv == TypeOK /\ WorkInv /\ OnceInv /\ RowInv /\ SegmentsOnce

\* The constants are what FileUpload assumes of them.
LEMMA ConstantTypes ==
  ASSUME FileAssumption
  PROVE  /\ LastSegment \in Nat /\ StorageLimit \in Nat /\ PlanChunks \in Nat /\ Faults \in Nat
         /\ Attempts \in Nat /\ Attempts > 0
BY DEF FileAssumption

Waiting == [file : Files, attempt : 0 .. Attempts - 1]

--------------------------------------------------------------------------------
(* How a message moves.                                                     *)

\* What a worker that is not at rest holds.
LEMMA Working ==
  ASSUME WorkInv, NEW w \in FileWorkers, fw[w] # Rest
  PROVE  fw[w] \in Busy /\ fw[w].job \in Waiting /\ fw[w].job.file \in Files /\ Holds(w, fw[w].job.file)
<1>1. fw[w] \in Busy
  BY DEF WorkInv
<1>2. fw[w].job \in Waiting
  BY <1>1 DEF Busy, Waiting
<1> QED
  BY <1>1, <1>2 DEF Waiting, Holds

LEMMA AtWork ==
  ASSUME WorkInv, NEW w \in FileWorkers
  PROVE  /\ fw[w].at # "idle" => fw[w] # Rest
         /\ fw[w] # Rest => fw[w].at # "idle"
BY DEF WorkInv, Busy, Rest

\* A worker that goes on holds the same message, and no other worker moves.
Goes(w, at) ==
  /\ fw' \in [FileWorkers -> Busy \cup {Rest}]
  /\ \A u \in FileWorkers : u # w => fw'[u] = fw[u]
  /\ fw'[w] # Rest /\ fw'[w].job = fw[w].job /\ fw'[w].at = at
  /\ \A u \in FileWorkers, f \in Files : Holds(u, f)' <=> Holds(u, f)

LEMMA Advances ==
  ASSUME WorkInv, NEW w \in FileWorkers, fw[w] # Rest,
         NEW at \in {"fetch", "row", "group", "link", "plan", "segments"}, Advance(w, at)
  PROVE  Goes(w, at) /\ fw'[w].next = fw[w].next
<1> DEFINE k == [fw[w] EXCEPT !.at = at]
<1>1. fw[w] \in Busy
  BY Working
<1>2. k \in Busy /\ k.at = at /\ k.job = fw[w].job /\ k.next = fw[w].next
  BY <1>1 DEF Busy
<1>3. fw' = [fw EXCEPT ![w] = k]
  BY DEF Advance
<1>4. k # Rest
  BY <1>2, AtWork DEF Rest, Busy
<1> HIDE DEF k
<1>5. /\ fw' \in [FileWorkers -> Busy \cup {Rest}] /\ fw'[w] = k
      /\ \A u \in FileWorkers : u # w => fw'[u] = fw[u]
  BY <1>2, <1>3 DEF WorkInv
<1> QED
  BY <1>2, <1>4, <1>5 DEF Goes, Holds

LEMMA Rests ==
  ASSUME WorkInv, NEW w \in FileWorkers, fw' = [fw EXCEPT ![w] = Rest]
  PROVE  /\ fw' \in [FileWorkers -> Busy \cup {Rest}]
         /\ \A u \in FileWorkers : u # w => fw'[u] = fw[u]
         /\ \A u \in FileWorkers, f \in Files : Holds(u, f)' <=> u # w /\ Holds(u, f)
<1>1. /\ fw' \in [FileWorkers -> Busy \cup {Rest}] /\ fw'[w] = Rest
      /\ \A u \in FileWorkers : u # w => fw'[u] = fw[u]
  BY DEF WorkInv
<1> QED
  BY <1>1 DEF Holds

\* The list with one message more, or one less.
LEMMA Appended ==
  ASSUME WorkInv, NEW m \in Waiting, inbox' = Append(inbox, m)
  PROVE  /\ inbox' \in Seq(Waiting)
         /\ Len(inbox') = Len(inbox) + 1 /\ Len(inbox) \in Nat
         /\ \A i \in 1 .. Len(inbox) : inbox'[i] = inbox[i]
         /\ inbox'[Len(inbox')] = m
         /\ \A f \in Files : Waits(f)' <=> Waits(f) \/ f = m.file
<1>1. inbox \in Seq(Waiting)
  BY DEF WorkInv, Waiting
<1>2. /\ inbox' \in Seq(Waiting)
      /\ Len(inbox') = Len(inbox) + 1 /\ Len(inbox) \in Nat
      /\ \A i \in 1 .. Len(inbox) : inbox'[i] = inbox[i]
      /\ inbox'[Len(inbox')] = m
  BY <1>1
<1>3. \A i \in 1 .. Len(inbox') : i \in 1 .. Len(inbox) \/ i = Len(inbox')
  BY <1>2
<1> QED
  BY <1>2, <1>3 DEF Waits

LEMMA Taken ==
  ASSUME WorkInv, inbox # << >>, inbox' = Tail(inbox)
  PROVE  /\ inbox' \in Seq(Waiting)
         /\ Head(inbox) \in Waiting /\ 1 \in 1 .. Len(inbox) /\ Head(inbox) = inbox[1]
         /\ \A i \in 1 .. Len(inbox') : i + 1 \in 1 .. Len(inbox) /\ inbox'[i] = inbox[i + 1]
         /\ \A i \in 1 .. Len(inbox) : i # 1 => i - 1 \in 1 .. Len(inbox') /\ inbox[i] = inbox'[i - 1]
<1>1. inbox \in Seq(Waiting)
  BY DEF WorkInv, Waiting
<1> QED
  BY <1>1

\* A message that is given back waits again, or its file is given up.
LEMMA GivesBack ==
  ASSUME FileAssumption, WorkInv, TypeOK, NEW w \in FileWorkers, fw[w] # Rest, GiveBack(w)
  PROVE  LET f == fw[w].job.file IN
         /\ fw' = [fw EXCEPT ![w] = Rest]
         /\ \/ outcome' = [outcome EXCEPT ![f] = "dead"] /\ inbox' = inbox
            \/ /\ \E m \in Waiting : m.file = f /\ inbox' = Append(inbox, m)
               /\ outcome' = outcome
<1> DEFINE job == [fw[w].job EXCEPT !.attempt = @ + 1]
<1>1. fw[w].job \in Waiting
  BY Working
<1>2. job.file = fw[w].job.file
  BY <1>1 DEF Waiting
<1>3. CASE job.attempt = Attempts
  BY <1>2, <1>3 DEF GiveBack
<1>4. CASE job.attempt # Attempts
  <2>1. job \in Waiting
    BY <1>1, <1>4, ConstantTypes DEF Waiting
  <2>2. inbox' = Append(inbox, job) /\ outcome' = outcome /\ fw' = [fw EXCEPT ![w] = Rest]
    BY <1>4 DEF GiveBack
  <2> HIDE DEF job
  <2> QED
    BY <1>2, <2>1, <2>2
<1> QED
  BY <1>3, <1>4

--------------------------------------------------------------------------------
(* A file has one message.                                                  *)

\* File f has a message under way.
Open(f) == Waits(f) \/ \E w \in FileWorkers : Holds(w, f)

LEMMA OpenFile ==
  ASSUME OnceInv, NEW f \in Files, Open(f)
  PROVE  upload[f] = "answered" /\ outcome[f] = "open"
BY DEF OnceInv, Open

LEMMA OnceKept ==
  ASSUME OnceInv, inbox' = inbox,
         \A w \in FileWorkers, f \in Files : Holds(w, f)' => Holds(w, f),
         \A f \in Files : Open(f)' => UNCHANGED <<upload[f], outcome[f]>>,
         \A f \in Files : upload'[f] # "answered" => outcome'[f] = "open"
  PROVE  OnceInv'
<1>1. \A f \in Files : Waits(f)' <=> Waits(f)
  BY DEF Waits
<1>2. ASSUME NEW f \in Files, Open(f)' PROVE upload'[f] = "answered" /\ outcome'[f] = "open"
  <2>1. Open(f)
    BY <1>1, <1>2 DEF Open
  <2> QED
    BY <1>2, <2>1, OpenFile
<1> QED
  BY <1>1, <1>2 DEF OnceInv, Open


\* A message that is appended belongs to a file that had none.
LEMMA OnceAppended ==
  ASSUME WorkInv, OnceInv, NEW m \in Waiting, inbox' = Append(inbox, m),
         ~Waits(m.file),
         \A w \in FileWorkers : ~Holds(w, m.file)',
         \A w \in FileWorkers, f \in Files : Holds(w, f)' => Holds(w, f),
         upload'[m.file] = "answered" /\ outcome'[m.file] = "open",
         \A f \in Files : f # m.file => upload'[f] = upload[f],
         outcome' = outcome
  PROVE  OnceInv'
<1>1. /\ Len(inbox') = Len(inbox) + 1 /\ Len(inbox) \in Nat
      /\ \A i \in 1 .. Len(inbox) : inbox'[i] = inbox[i]
      /\ inbox'[Len(inbox')] = m
      /\ \A f \in Files : Waits(f)' <=> Waits(f) \/ f = m.file
  BY Appended
<1> SUFFICES ASSUME NEW f \in Files
    PROVE /\ \A i, k \in 1 .. Len(inbox') : inbox'[i].file = f /\ inbox'[k].file = f => i = k
          /\ upload'[f] # "answered" => outcome'[f] = "open"
          /\ Waits(f)' => upload'[f] = "answered" /\ outcome'[f] = "open"
          /\ \A w \in FileWorkers : Holds(w, f)' =>
               /\ upload'[f] = "answered" /\ outcome'[f] = "open"
               /\ ~Waits(f)'
               /\ \A u \in FileWorkers : Holds(u, f)' => u = w
  BY DEF OnceInv
<1>2. CASE f = m.file
  <2>1. \A i \in 1 .. Len(inbox) : inbox[i].file # f
    BY <1>2 DEF Waits
  <2>2. \A i \in 1 .. Len(inbox') : inbox'[i].file = f => i = Len(inbox')
    BY <1>1, <2>1
  <2> QED
    BY <1>2, <2>2
<1>3. CASE f # m.file
  <2>1. \A i \in 1 .. Len(inbox') : inbox'[i].file = f => i \in 1 .. Len(inbox) /\ inbox[i].file = f
    BY <1>1, <1>3
  <2>2. \A i, k \in 1 .. Len(inbox') : inbox'[i].file = f /\ inbox'[k].file = f => i = k
    BY <2>1 DEF OnceInv
  <2>3. upload'[f] = upload[f] /\ outcome'[f] = outcome[f] /\ (Waits(f)' <=> Waits(f))
    BY <1>1, <1>3
  <2> QED
    BY <2>2, <2>3 DEF OnceInv
<1> QED
  BY <1>2, <1>3

\* A worker that ends its attempt frees its file.
LEMMA OnceGivenBack ==
  ASSUME FileAssumption, WorkInv, TypeOK, OnceInv, NEW w \in FileWorkers, fw[w] # Rest, GiveBack(w),
         UNCHANGED upload
  PROVE  OnceInv'
<1>0. PICK f \in Files : f = fw[w].job.file
  BY Working
<1>1. Holds(w, f)
  BY <1>0, Working
<1>2. /\ upload[f] = "answered" /\ outcome[f] = "open" /\ ~Waits(f)
      /\ \A u \in FileWorkers : Holds(u, f) => u = w
  BY <1>1 DEF OnceInv
<1>3. /\ fw' = [fw EXCEPT ![w] = Rest]
      /\ \/ outcome' = [outcome EXCEPT ![f] = "dead"] /\ inbox' = inbox
         \/ /\ \E m \in Waiting : m.file = f /\ inbox' = Append(inbox, m)
            /\ outcome' = outcome
  BY <1>0, GivesBack
<1>4. \A u \in FileWorkers, g \in Files : Holds(u, g)' <=> u # w /\ Holds(u, g)
  BY <1>3, Rests
<1>5. \A u \in FileWorkers : ~Holds(u, f)'
  BY <1>1, <1>2, <1>4
<1>6. CASE outcome' = [outcome EXCEPT ![f] = "dead"] /\ inbox' = inbox
  <2>1. ~Waits(f)'
    BY <1>2, <1>6 DEF Waits
  <2>2. ~Open(f)'
    BY <1>5, <2>1 DEF Open
  <2>3. \A g \in Files : g # f => outcome'[g] = outcome[g]
    BY <1>6 DEF TypeOK
  <2>4. \A g \in Files : Open(g)' => UNCHANGED <<upload[g], outcome[g]>>
    BY <2>2, <2>3
  <2>5. \A g \in Files : upload'[g] # "answered" => outcome'[g] = "open"
    BY <1>2, <2>3 DEF OnceInv
  <2> QED
    BY <1>4, <1>6, <2>4, <2>5, OnceKept
<1>7. CASE (\E m \in Waiting : m.file = f /\ inbox' = Append(inbox, m)) /\ outcome' = outcome
  <2>1. PICK m \in Waiting : m.file = f /\ inbox' = Append(inbox, m)
    BY <1>7
  <2> QED
    BY <1>2, <1>4, <1>5, <1>7, <2>1, OnceAppended
<1> QED
  BY <1>3, <1>6, <1>7

LEMMA OnceTaken ==
  ASSUME FileAssumption, WorkInv, OnceInv, NEW w \in FileWorkers, TakeFile(w)
  PROVE  /\ OnceInv'
         /\ fw' \in [FileWorkers -> Busy \cup {Rest}] /\ inbox' \in Seq(Waiting)
         /\ \A u \in FileWorkers : u # w => fw'[u] = fw[u]
         /\ fw'[w].at = "fetch" /\ fw'[w].next = 1
<1>0. PICK m \in Waiting : m = Head(inbox)
  BY Taken DEF TakeFile
<1> DEFINE k == [at |-> "fetch", job |-> m, next |-> 1]
<1>1. /\ inbox' \in Seq(Waiting)
      /\ 1 \in 1 .. Len(inbox) /\ m = inbox[1]
      /\ \A i \in 1 .. Len(inbox') : i + 1 \in 1 .. Len(inbox) /\ inbox'[i] = inbox[i + 1]
  BY <1>0, Taken DEF TakeFile
<1>2. fw[w] = Rest
  BY AtWork DEF TakeFile
<1>3. fw' = [fw EXCEPT ![w] = k] /\ UNCHANGED <<upload, outcome>>
  BY <1>0 DEF TakeFile
<1>4. k \in Busy /\ k.at = "fetch" /\ k.next = 1 /\ k.job = m /\ m.file \in Files
  <2>1. 1 \in 1 .. LastSegment + 1
    BY ConstantTypes
  <2> QED
    BY <2>1 DEF Busy, Waiting
<1>5. k # Rest
  BY <1>4 DEF Rest
<1> HIDE DEF k
<1>6. /\ fw' \in [FileWorkers -> Busy \cup {Rest}] /\ fw'[w] = k
      /\ \A u \in FileWorkers : u # w => fw'[u] = fw[u]
  BY <1>3, <1>4 DEF WorkInv
<1>7. \A u \in FileWorkers, f \in Files : Holds(u, f)' <=> Holds(u, f) \/ (u = w /\ f = m.file)
  BY <1>2, <1>4, <1>5, <1>6 DEF Holds
<1>8. Waits(m.file)
  BY <1>1 DEF Waits
<1>9. /\ upload[m.file] = "answered" /\ outcome[m.file] = "open"
      /\ \A u \in FileWorkers : ~Holds(u, m.file)
  BY <1>4, <1>8 DEF OnceInv
<1>10. ASSUME NEW f \in Files, Waits(f)' PROVE Waits(f) /\ f # m.file
  <2>1. PICK i \in 1 .. Len(inbox') : inbox'[i].file = f
    BY <1>10 DEF Waits
  <2>2. i + 1 \in 1 .. Len(inbox) /\ inbox[i + 1].file = f /\ i + 1 # 1
    BY <1>1, <2>1
  <2> QED
    BY <1>1, <2>2 DEF OnceInv, Waits
<1>11. OnceInv'
  <2> SUFFICES ASSUME NEW f \in Files
      PROVE /\ \A i, j \in 1 .. Len(inbox') : inbox'[i].file = f /\ inbox'[j].file = f => i = j
            /\ upload'[f] # "answered" => outcome'[f] = "open"
            /\ Waits(f)' => upload'[f] = "answered" /\ outcome'[f] = "open"
            /\ \A v \in FileWorkers : Holds(v, f)' =>
                 /\ upload'[f] = "answered" /\ outcome'[f] = "open"
                 /\ ~Waits(f)'
                 /\ \A u \in FileWorkers : Holds(u, f)' => u = v
    BY DEF OnceInv
  <2>1. ASSUME NEW i \in 1 .. Len(inbox'), NEW j \in 1 .. Len(inbox'),
               inbox'[i].file = f, inbox'[j].file = f
        PROVE  i = j
    <3>1. /\ i + 1 \in 1 .. Len(inbox) /\ inbox[i + 1].file = f
          /\ j + 1 \in 1 .. Len(inbox) /\ inbox[j + 1].file = f
      BY <1>1, <2>1
    <3>2. i + 1 = j + 1
      BY <3>1 DEF OnceInv
    <3> QED
      BY <3>2
  <2>2. /\ upload'[f] # "answered" => outcome'[f] = "open"
        /\ Waits(f)' => upload'[f] = "answered" /\ outcome'[f] = "open"
    BY <1>3, <1>10 DEF OnceInv
  <2>3. ASSUME NEW v \in FileWorkers, Holds(v, f)'
        PROVE /\ upload'[f] = "answered" /\ outcome'[f] = "open"
              /\ ~Waits(f)'
              /\ \A u \in FileWorkers : Holds(u, f)' => u = v
    BY <1>3, <1>7, <1>9, <1>10, <2>3 DEF OnceInv
  <2> QED
    BY <2>1, <2>2, <2>3
<1> QED
  BY <1>0, <1>1, <1>4, <1>6, <1>7, <1>11

\* A worker that goes on, or ends with an outcome, leaves the list as it is.
LEMMA OnceGoes ==
  ASSUME OnceInv, NEW w \in FileWorkers, NEW at, Goes(w, at), UNCHANGED <<inbox, upload, outcome>>
  PROVE  OnceInv'
<1>1. \A f \in Files : upload'[f] = upload[f] /\ outcome'[f] = outcome[f]
  OBVIOUS
<1>2. \A f \in Files : upload'[f] # "answered" => outcome'[f] = "open"
  BY <1>1 DEF OnceInv
<1> QED
  BY <1>1, <1>2, OnceKept DEF Goes

LEMMA OnceEnded ==
  ASSUME WorkInv, TypeOK, OnceInv, NEW w \in FileWorkers, fw[w] # Rest, NEW how,
         End(w, fw[w].job.file, how), UNCHANGED <<inbox, upload>>
  PROVE  OnceInv'
<1>0. PICK f \in Files : f = fw[w].job.file
  BY Working
<1>1. Holds(w, f)
  BY <1>0, Working
<1>2. /\ upload[f] = "answered" /\ ~Waits(f)
      /\ \A u \in FileWorkers : Holds(u, f) => u = w
  BY <1>1 DEF OnceInv
<1>3. \A u \in FileWorkers, g \in Files : Holds(u, g)' <=> u # w /\ Holds(u, g)
  BY Rests DEF End
<1>4. ~Waits(f)'
  BY <1>2 DEF Waits
<1>5. ~Open(f)'
  BY <1>2, <1>3, <1>4 DEF Open
<1>6. \A g \in Files : g # f => outcome'[g] = outcome[g]
  BY <1>0 DEF End, TypeOK
<1>7. \A g \in Files : Open(g)' => UNCHANGED <<upload[g], outcome[g]>>
  <2> SUFFICES ASSUME NEW g \in Files, Open(g)' PROVE upload'[g] = upload[g] /\ outcome'[g] = outcome[g]
    OBVIOUS
  <2>1. g # f
    BY <1>5
  <2> QED
    BY <1>6, <2>1
<1>8. \A g \in Files : upload'[g] # "answered" => outcome'[g] = "open"
  BY <1>2, <1>6 DEF OnceInv
<1> QED
  BY <1>3, <1>7, <1>8, OnceKept

\* What each action of a worker makes of that worker.
WorkerAction(w) ==
  \/ TakeFile(w) \/ Fetch(w) \/ InsertFile(w) \/ MakeGroup(w) \/ LinkGroup(w) \/ CheckPlan(w)
  \/ PushSegment(w) \/ FinishFile(w) \/ StepFails(w) \/ WorkerDies(w)

\* A worker ends its attempt: the message goes back, or has its outcome.
Ends(w) ==
  \/ GiveBack(w)
  \/ inbox' = inbox /\ \E how \in {"done", "kept", "lost"} : End(w, fw[w].job.file, how)

Onward == {"row", "group", "link", "plan", "segments"}

LEMMA Continues ==
  ASSUME FileAssumption, WorkInv, TypeOK, NEW w \in FileWorkers, PushSegment(w)
  PROVE  Goes(w, "segments") /\ fw'[w].next = fw[w].next + 1 /\ fw[w].next \in 1 .. LastSegment
<1> DEFINE k == [fw[w] EXCEPT !.next = @ + 1]
<1>1. fw[w] # Rest /\ fw[w] \in Busy /\ fw[w].at = "segments"
  BY AtWork, Working DEF PushSegment
<1>2. fw[w].next \in 1 .. LastSegment
  <2>1. size[fw[w].job.file] \in 0 .. LastSegment
    BY <1>1, Working DEF TypeOK
  <2> QED
    BY <1>1, <2>1, ConstantTypes DEF PushSegment, Busy
<1>3. k \in Busy /\ k.at = "segments" /\ k.job = fw[w].job /\ k.next = fw[w].next + 1
  BY <1>1, <1>2, ConstantTypes DEF Busy
<1>4. fw' = [fw EXCEPT ![w] = k]
  BY DEF PushSegment
<1>5. k # Rest
  BY <1>3 DEF Rest
<1> HIDE DEF k
<1>6. /\ fw' \in [FileWorkers -> Busy \cup {Rest}] /\ fw'[w] = k
      /\ \A u \in FileWorkers : u # w => fw'[u] = fw[u]
  BY <1>3, <1>4 DEF WorkInv
<1> QED
  BY <1>1, <1>2, <1>3, <1>5, <1>6 DEF Goes, Holds

LEMMA WorkerMoves ==
  ASSUME FileAssumption, WorkInv, TypeOK, NEW w \in FileWorkers, WorkerAction(w)
  PROVE  /\ upload' = upload
         /\ \/ TakeFile(w)
            \/ fw[w] # Rest /\ Ends(w)
            \/ /\ fw[w] # Rest /\ UNCHANGED <<inbox, outcome>>
               /\ \E at \in Onward : Goes(w, at)
<1>1. ASSUME NEW at \in Onward, Advance(w, at), fw[w] # Rest PROVE Goes(w, at)
  BY <1>1, Advances DEF Onward
<1>2. ASSUME NEW at \in Onward, fw[w].at = at PROVE fw[w] # Rest
  BY <1>2, AtWork DEF Onward
<1>3. CASE TakeFile(w)
  BY <1>3 DEF TakeFile
<1>4. CASE Fetch(w)
  BY <1>1, <1>4, AtWork DEF Fetch, Ends, Onward
<1>5. CASE InsertFile(w)
  BY <1>1, <1>2, <1>5 DEF InsertFile, Ends, Onward
<1>6. CASE MakeGroup(w)
  BY <1>1, <1>2, <1>6 DEF MakeGroup, Onward
<1>7. CASE LinkGroup(w)
  BY <1>1, <1>2, <1>7 DEF LinkGroup, Ends, Onward
<1>8. CASE CheckPlan(w)
  BY <1>1, <1>2, <1>8 DEF CheckPlan, Ends, Onward
<1>9. CASE PushSegment(w)
  BY <1>2, <1>9, Continues DEF PushSegment, Onward
<1>10. CASE FinishFile(w)
  BY <1>2, <1>10 DEF FinishFile, Ends, Onward
<1>11. CASE StepFails(w) \/ WorkerDies(w)
  BY <1>11 DEF StepFails, WorkerDies, Ends
<1> QED
  BY <1>3, <1>4, <1>5, <1>6, <1>7, <1>8, <1>9, <1>10, <1>11 DEF WorkerAction

LEMMA StepOnce ==
  ASSUME FileAssumption, WorkInv, TypeOK, OnceInv, [Next]_vars
  PROVE  OnceInv' /\ WorkInv'
<1>1. ASSUME UNCHANGED <<inbox, fw>>, \A f \in Files : upload'[f] # "answered" => outcome'[f] = "open",
             \A f \in Files : Open(f) => UNCHANGED <<upload[f], outcome[f]>>
      PROVE  OnceInv' /\ WorkInv'
  <2>1. \A f \in Files : (Open(f)' => Open(f)) /\ \A w \in FileWorkers : Holds(w, f)' => Holds(w, f)
    BY <1>1 DEF Open, Holds, Waits
  <2>2. WorkInv'
    BY <1>1 DEF WorkInv
  <2> QED
    BY <1>1, <2>1, <2>2, OnceKept
<1>2. CASE \E f \in Files : AskUpload(f) \/ PutObject(f) \/ UploadFails(f)
  <2>1. PICK f \in Files : AskUpload(f) \/ PutObject(f) \/ UploadFails(f)
    BY <1>2
  <2>2. ~Open(f) /\ outcome[f] = "open"
    BY <2>1, OpenFile DEF AskUpload, PutObject, UploadFails, OnceInv
  <2>3. UNCHANGED <<inbox, fw, outcome>> /\ \A g \in Files : g # f => upload'[g] = upload[g]
    BY <2>1 DEF AskUpload, PutObject, UploadFails, TypeOK
  <2>4. \A g \in Files : Open(g) => UNCHANGED <<upload[g], outcome[g]>>
    BY <2>2, <2>3
  <2>5. \A g \in Files : upload'[g] # "answered" => outcome'[g] = "open"
    BY <2>2, <2>3 DEF OnceInv
  <2> QED
    BY <1>1, <2>3, <2>4, <2>5
<1>3. CASE \E f \in Files : PushFile(f)
  <2>1. PICK f \in Files : PushFile(f)
    BY <1>3
  <2>2. ~Open(f) /\ outcome[f] = "open"
    BY <2>1, OpenFile DEF PushFile, OnceInv
  <2> DEFINE m == [file |-> f, attempt |-> 0]
  <2>3. m \in Waiting /\ m.file = f
    BY ConstantTypes DEF Waiting
  <2>4. inbox' = Append(inbox, m) /\ UNCHANGED <<fw, outcome>> /\ upload' = [upload EXCEPT ![f] = "answered"]
    BY <2>1 DEF PushFile
  <2> HIDE DEF m
  <2>5. upload'[f] = "answered" /\ \A g \in Files : g # f => upload'[g] = upload[g]
    BY <2>4 DEF TypeOK
  <2>6. \A w \in FileWorkers, g \in Files : Holds(w, g)' <=> Holds(w, g)
    BY <2>4 DEF Holds
  <2>7. ~Waits(f) /\ \A w \in FileWorkers : ~Holds(w, f)'
    BY <2>2, <2>6 DEF Open
  <2>8. OnceInv'
    BY <2>2, <2>3, <2>4, <2>5, <2>6, <2>7, OnceAppended
  <2>9. WorkInv'
    BY <2>3, <2>4, Appended DEF WorkInv, Waiting
  <2> QED
    BY <2>8, <2>9
<1>4. CASE IngestSegment \/ UNCHANGED vars \/ \E f \in Files : DeleteObject(f) \/ DeleteFileRow(f)
  <2>1. UNCHANGED <<inbox, fw, upload, outcome>>
    BY <1>4 DEF IngestSegment, vars, DeleteObject, DeleteFileRow
  <2>2. \A f \in Files : upload'[f] # "answered" => outcome'[f] = "open"
    BY <2>1 DEF OnceInv
  <2> QED
    BY <1>1, <2>1, <2>2
<1>5. CASE \E w \in FileWorkers : WorkerAction(w)
  <2>1. PICK w \in FileWorkers : WorkerAction(w)
    BY <1>5
  <2>2. upload' = upload
    BY <2>1, WorkerMoves
  <2>3. CASE TakeFile(w)
    BY <2>3, OnceTaken DEF WorkInv, Waiting
  <2>4. CASE fw[w] # Rest /\ GiveBack(w)
    <3>1. WorkInv'
      <4>1. PICK f \in Files : f = fw[w].job.file
        BY <2>4, Working
      <4>2. fw' = [fw EXCEPT ![w] = Rest]
        BY <2>4, GivesBack
      <4>3. inbox' = inbox \/ \E m \in Waiting : inbox' = Append(inbox, m)
        BY <2>4, GivesBack
      <4>4. inbox' \in Seq(Waiting)
        BY <4>3, Appended DEF WorkInv, Waiting
      <4> QED
        BY <4>2, <4>4, Rests DEF WorkInv, Waiting
    <3> QED
      BY <2>2, <2>4, <3>1, OnceGivenBack
  <2>5. CASE fw[w] # Rest /\ inbox' = inbox /\ \E how \in {"done", "kept", "lost"} : End(w, fw[w].job.file, how)
    <3>1. WorkInv'
      BY <2>5, Rests DEF WorkInv, End
    <3> QED
      BY <2>2, <2>5, <3>1, OnceEnded
  <2>6. CASE UNCHANGED <<inbox, outcome>> /\ \E at \in Onward : Goes(w, at)
    <3>1. WorkInv'
      BY <2>6 DEF WorkInv, Goes
    <3> QED
      BY <2>2, <2>6, <3>1, OnceGoes
  <2> QED
    BY <2>1, <2>3, <2>4, <2>5, <2>6, WorkerMoves DEF Ends
<1> QED
  BY <1>2, <1>3, <1>4, <1>5 DEF Next, WorkerAction

--------------------------------------------------------------------------------
(* Types.                                                                   *)

LEMMA InitTypes == FileAssumption /\ Init => TypeOK /\ WorkInv /\ OnceInv
<1> SUFFICES ASSUME FileAssumption, Init PROVE TypeOK /\ WorkInv /\ OnceInv
  OBVIOUS
<1>1. inbox \in Seq(Job) /\ inbox \in Seq(Waiting) /\ Len(inbox) = 0
  BY DEF Init
<1>2. /\ upload \in [Files -> {"new", "put", "push", "answered", "refused"}]
      /\ {s3, files, linked, removed} \subseteq SUBSET Files
      /\ size \in [Files -> 0 .. LastSegment]
      /\ outcome \in [Files -> {"open", "done", "kept", "dead", "lost"}]
  BY DEF Init
<1>3. pushed \in [Files -> Seq(1 .. LastSegment)]
  BY DEF Init
<1>4. count \in Nat /\ faults \in 0 .. Faults
  BY ConstantTypes DEF Init
<1>5. \A w \in FileWorkers : fw[w] = Rest
  BY DEF Init
<1>6. TypeOK
  BY <1>1, <1>2, <1>3, <1>4, <1>5 DEF TypeOK
<1>7. WorkInv
  BY <1>1 DEF WorkInv, Init, Waiting
<1>8. \A f \in Files : ~Waits(f) /\ \A w \in FileWorkers : ~Holds(w, f)
  <2>1. \A i \in 1 .. Len(inbox) : FALSE
    BY <1>1
  <2> QED
    BY <1>5, <2>1 DEF Waits, Holds
<1>9. OnceInv
  <2>1. \A i \in 1 .. Len(inbox) : FALSE
    BY <1>1
  <2> QED
    BY <1>8, <2>1 DEF OnceInv, Init
<1> QED
  BY <1>6, <1>7, <1>9

LEMMA StepTypes ==
  ASSUME FileAssumption, WorkInv, TypeOK, WorkInv', [Next]_vars
  PROVE  TypeOK'
<1>1. inbox' \in Seq(Job)
  <2>1. Waiting \subseteq Job
    BY ConstantTypes DEF Waiting, Job
  <2>2. inbox' \in Seq(Waiting)
    BY DEF WorkInv, Waiting
  <2> QED
    BY <2>1, <2>2
<1>2. \A w \in FileWorkers :
        fw'[w] = Rest \/ fw'[w] \in [at : {"fetch", "row", "group", "link", "plan", "segments"},
                                     job : Job, next : 1 .. LastSegment + 1]
  <2> TAKE w \in FileWorkers
  <2>1. fw'[w] \in Busy \cup {Rest}
    BY DEF WorkInv
  <2> QED
    BY <2>1, ConstantTypes DEF Busy, Job
<1>3. size' = size
  BY DEF Next, vars, AskUpload, PutObject, PushFile, UploadFails, DeleteObject, DeleteFileRow, TakeFile,
         Fetch, InsertFile, MakeGroup, LinkGroup, CheckPlan, PushSegment, FinishFile, StepFails,
         WorkerDies, IngestSegment
<1>4. \A w \in FileWorkers : fw[w].at # "idle" => fw[w].job.file \in Files
  BY Working, AtWork
<1>5. upload' \in [Files -> {"new", "put", "push", "answered", "refused"}]
  <2>1. upload \in [Files -> {"new", "put", "push", "answered", "refused"}]
    BY DEF TypeOK
  <2>2. CASE \E f \in Files : AskUpload(f) \/ PutObject(f) \/ PushFile(f) \/ UploadFails(f)
    BY <2>1, <2>2 DEF AskUpload, PutObject, PushFile, UploadFails
  <2>3. CASE upload' = upload
    BY <2>1, <2>3
  <2>4. \/ upload' = upload
        \/ \E f \in Files : AskUpload(f) \/ PutObject(f) \/ PushFile(f) \/ UploadFails(f)
    BY DEF Next, vars, DeleteObject, DeleteFileRow, TakeFile, Fetch, InsertFile, MakeGroup, LinkGroup,
           CheckPlan, PushSegment, FinishFile, StepFails, WorkerDies, IngestSegment
  <2> QED
    BY <2>2, <2>3, <2>4
<1>6. {s3', files', linked', removed'} \subseteq SUBSET Files
  <2>1. s3 \in SUBSET Files /\ files \in SUBSET Files /\ linked \in SUBSET Files /\ removed \in SUBSET Files
    <3>1. \A x \in {s3, files, linked, removed} : x \in SUBSET Files
      BY Zenon DEF TypeOK
    <3> QED
      BY <3>1
  <2>2. CASE \E f \in Files : \/ AskUpload(f) \/ PutObject(f) \/ PushFile(f) \/ UploadFails(f)
                              \/ DeleteObject(f) \/ DeleteFileRow(f)
    BY <2>1, <2>2
       DEF AskUpload, PutObject, PushFile, UploadFails, DeleteObject, DeleteFileRow
  <2>3. CASE \E w \in FileWorkers : InsertFile(w) \/ LinkGroup(w)
    <3>1. PICK w \in FileWorkers : InsertFile(w) \/ LinkGroup(w)
      BY <2>3
    <3>2. PICK f \in Files : f = fw[w].job.file
      BY <1>4, <3>1 DEF InsertFile, LinkGroup
    <3>3. /\ files' = files \/ files' = files \cup {f}
          /\ linked' = linked \/ linked' = linked \cup {f}
          /\ UNCHANGED <<s3, removed>>
      BY <3>1, <3>2 DEF InsertFile, LinkGroup
    <3> QED
      BY <2>1, <3>3
  <2>4. CASE ~\E w \in FileWorkers : InsertFile(w) \/ LinkGroup(w)
    <3>1. ASSUME ~\E f \in Files : \/ AskUpload(f) \/ PutObject(f) \/ PushFile(f) \/ UploadFails(f)
                                   \/ DeleteObject(f) \/ DeleteFileRow(f)
          PROVE  UNCHANGED <<s3, files, linked, removed>>
      BY <2>4, <3>1 DEF Next, vars, TakeFile, Fetch, MakeGroup, CheckPlan, PushSegment, FinishFile,
                        StepFails, WorkerDies, IngestSegment
    <3> QED
      BY <2>1, <2>2, <3>1
  <2> QED
    BY <2>3, <2>4
<1>7. pushed' \in [Files -> Seq(1 .. LastSegment)]
  <2>1. CASE \E w \in FileWorkers : PushSegment(w)
    <3>1. PICK w \in FileWorkers : PushSegment(w)
      BY <2>1
    <3>2. PICK f \in Files : f = fw[w].job.file
      BY <1>4, <3>1 DEF PushSegment
    <3>3. fw[w].next \in 1 .. LastSegment
      <4>1. fw[w] # Rest
        BY <3>1, AtWork DEF PushSegment
      <4>2. fw[w].next \in 1 .. LastSegment + 1
        BY <4>1, Working DEF Busy
      <4>3. size[f] \in 0 .. LastSegment /\ fw[w].next <= size[f]
        BY <3>1, <3>2 DEF PushSegment, TypeOK
      <4> QED
        BY <4>2, <4>3, ConstantTypes
    <3>4. pushed' = [pushed EXCEPT ![f] = Append(pushed[f], fw[w].next)]
      BY <3>1, <3>2 DEF PushSegment
    <3>5. pushed[f] \in Seq(1 .. LastSegment)
      BY DEF TypeOK
    <3>6. Append(pushed[f], fw[w].next) \in Seq(1 .. LastSegment)
      BY <3>3, <3>5
    <3> QED
      BY <3>4, <3>6 DEF TypeOK
  <2>2. CASE ~\E w \in FileWorkers : PushSegment(w)
    <3>1. pushed' = pushed
      BY <2>2 DEF Next, vars, AskUpload, PutObject, PushFile, UploadFails, DeleteObject, DeleteFileRow,
                  TakeFile, Fetch, InsertFile, MakeGroup, LinkGroup, CheckPlan, FinishFile, StepFails,
                  WorkerDies, IngestSegment
    <3> QED
      BY <3>1 DEF TypeOK
  <2> QED
    BY <2>1, <2>2
<1>8. count' \in Nat
  <2>1. count' = count \/ count' = count + 1
    BY DEF Next, vars, AskUpload, PutObject, PushFile, UploadFails, DeleteObject, DeleteFileRow, TakeFile,
           Fetch, InsertFile, MakeGroup, LinkGroup, CheckPlan, PushSegment, FinishFile, StepFails,
           WorkerDies, IngestSegment
  <2> QED
    BY <2>1 DEF TypeOK
<1>9. faults' \in 0 .. Faults
  <2>1. faults' = faults \/ Fault
    BY DEF Next, vars, AskUpload, PutObject, PushFile, UploadFails, DeleteObject, DeleteFileRow, TakeFile,
           Fetch, InsertFile, MakeGroup, LinkGroup, CheckPlan, PushSegment, FinishFile, StepFails,
           WorkerDies, IngestSegment
  <2> QED
    BY <2>1, ConstantTypes DEF Fault, TypeOK
<1>10. outcome' \in [Files -> {"open", "done", "kept", "dead", "lost"}]
  <2>1. outcome \in [Files -> {"open", "done", "kept", "dead", "lost"}]
    BY DEF TypeOK
  <2>2. CASE \E w \in FileWorkers : WorkerAction(w)
    <3>1. PICK w \in FileWorkers : WorkerAction(w)
      BY <2>2
    <3>2. CASE TakeFile(w)
      BY <2>1, <3>2 DEF TakeFile
    <3>3. CASE fw[w] # Rest /\ Ends(w)
      BY <2>1, <3>3, GivesBack DEF Ends, End
    <3>4. CASE UNCHANGED outcome
      BY <2>1, <3>4
    <3> QED
      BY <3>1, <3>2, <3>3, <3>4, WorkerMoves
  <2>3. CASE ~\E w \in FileWorkers : WorkerAction(w)
    BY <2>1, <2>3
       DEF Next, vars, AskUpload, PutObject, PushFile, UploadFails, DeleteObject, DeleteFileRow,
           IngestSegment, WorkerAction
  <2> QED
    BY <2>2, <2>3
<1> QED
  BY <1>1, <1>2, <1>3, <1>5, <1>6, <1>7, <1>8, <1>9, <1>10 DEF TypeOK

--------------------------------------------------------------------------------
(* What a worker relies on, and what it pushes.                             *)

SegmentsAt(f) ==
  /\ pushed[f] = [i \in 1 .. Len(pushed[f]) |-> i]
  /\ outcome[f] = "done" => Len(pushed[f]) = size[f]

\* A step that leaves a file's row and segments alone, and moves no worker
\* that has its message.
LEMMA FileKept ==
  ASSUME NEW f \in Files, RowAt(f), SegmentsAt(f),
         UNCHANGED <<pushed[f], size[f]>>,
         outcome'[f] = "done" => outcome[f] = "done",
         f \in files' <=> f \in files,
         f \in s3 => f \in s3',
         \A u \in FileWorkers : Holds(u, f)' => Holds(u, f) /\ fw'[u] = fw[u]
  PROVE  RowAt(f)' /\ SegmentsAt(f)'
<1>1. SegmentsAt(f)'
  BY DEF SegmentsAt
<1>2. RowAt(f)'
  BY DEF RowAt
<1> QED
  BY <1>1, <1>2

\* Where a worker that goes on comes from.
LEMMA GoesFrom ==
  ASSUME FileAssumption, WorkInv, TypeOK, NEW w \in FileWorkers, WorkerAction(w),
         NEW f \in Files, Holds(w, f), Holds(w, f)'
  PROVE  /\ UNCHANGED <<s3, size, outcome, removed>>
         /\ \/ /\ fw[w].at = "fetch" /\ f \in s3 /\ fw'[w].at = "row"
               /\ fw'[w].next = fw[w].next /\ UNCHANGED <<files, pushed>>
            \/ /\ fw[w].at = "row" /\ f \notin files /\ files' = files \cup {f}
               /\ fw'[w].at = "group" /\ fw'[w].next = fw[w].next /\ UNCHANGED pushed
            \/ /\ fw[w].at = "group" /\ fw'[w].at = "link" /\ fw'[w].next = fw[w].next
               /\ UNCHANGED <<files, pushed>>
            \/ /\ fw[w].at = "link" /\ f \in files /\ fw'[w].at = "plan"
               /\ fw'[w].next = fw[w].next /\ UNCHANGED <<files, pushed>>
            \/ /\ fw[w].at = "plan" /\ fw'[w].at = "segments" /\ fw'[w].next = fw[w].next
               /\ UNCHANGED <<files, pushed>>
            \/ /\ fw[w].at = "segments" /\ fw'[w].at = "segments" /\ fw'[w].next = fw[w].next + 1
               /\ fw[w].next <= size[f] /\ fw[w].next \in 1 .. LastSegment + 1
               /\ pushed' = [pushed EXCEPT ![f] = Append(pushed[f], fw[w].next)]
               /\ UNCHANGED files
<1>0. fw[w] # Rest /\ fw[w].job.file = f /\ fw[w].at # "idle"
  BY AtWork DEF Holds
<1>1. ~TakeFile(w)
  BY <1>0 DEF TakeFile
<1>2. ASSUME Ends(w) PROVE FALSE
  <2>1. fw' = [fw EXCEPT ![w] = Rest]
    BY <1>2 DEF Ends, End, GiveBack
  <2> QED
    BY <2>1, Rests
<1>3. ~GiveBack(w)
  BY <1>2 DEF Ends
<1>4. CASE Fetch(w)
  BY <1>0, <1>3, <1>4, Advances DEF Fetch, Goes
<1>5. CASE InsertFile(w)
  <2>1. ~RowRefused(f) /\ files' = files \cup {f}
    BY <1>0, <1>3, <1>5 DEF InsertFile
  <2>2. size[f] # 0
    BY <1>0, <1>2, <1>3, <1>5 DEF InsertFile, Ends
  <2>3. Advance(w, "group") /\ UNCHANGED <<outcome, s3, size, removed, pushed>> /\ fw[w].at = "row"
    BY <1>0, <1>3, <1>5, <2>1, <2>2 DEF InsertFile
  <2> QED
    BY <1>0, <2>1, <2>3, Advances DEF RowRefused, Goes
<1>6. CASE MakeGroup(w)
  BY <1>0, <1>6, Advances DEF MakeGroup, Goes
<1>7. CASE LinkGroup(w)
  BY <1>0, <1>3, <1>7, Advances DEF LinkGroup, Goes
<1>8. CASE CheckPlan(w)
  BY <1>0, <1>3, <1>8, Advances DEF CheckPlan, Goes
<1>9. CASE PushSegment(w)
  <2>1. /\ fw'[w].at = "segments" /\ fw'[w].next = fw[w].next + 1
        /\ fw[w].next \in 1 .. LastSegment + 1
    BY <1>9, Continues, ConstantTypes DEF Goes
  <2> QED
    BY <1>0, <1>9, <2>1 DEF PushSegment
<1>10. CASE FinishFile(w) \/ WorkerDies(w)
  BY <1>0, <1>2, <1>10 DEF FinishFile, WorkerDies, Ends
<1>11. CASE StepFails(w)
  BY <1>3, <1>11 DEF StepFails
<1> QED
  BY <1>1, <1>4, <1>5, <1>6, <1>7, <1>8, <1>9, <1>10, <1>11 DEF WorkerAction

\* A worker's step leaves the files of other messages alone.
LEMMA OtherFiles ==
  ASSUME FileAssumption, WorkInv, TypeOK, NEW w \in FileWorkers, WorkerAction(w),
         NEW f \in Files, ~Holds(w, f)
  PROVE  /\ UNCHANGED <<s3, size, removed>>
         /\ pushed'[f] = pushed[f]
         /\ f \in files' <=> f \in files
         /\ outcome'[f] = outcome[f]
<1>1. CASE TakeFile(w)
  BY <1>1 DEF TakeFile
<1>2. CASE ~TakeFile(w)
  <2>1. fw[w] # Rest
    BY <1>2, WorkerMoves
  <2>2. PICK g \in Files : g = fw[w].job.file
    BY <2>1, Working
  <2>3. g # f
    BY <2>1, <2>2 DEF Holds
  <2>4. outcome'[f] = outcome[f]
    <3>1. CASE Ends(w)
      BY <2>1, <2>2, <2>3, <3>1, GivesBack DEF Ends, End, TypeOK
    <3>2. CASE UNCHANGED outcome
      BY <3>2
    <3> QED
      BY <1>2, <3>1, <3>2, WorkerMoves
  <2>5. UNCHANGED <<s3, size, removed>> /\ (files' = files \/ files' = files \cup {g})
    BY <1>2, <2>2
       DEF WorkerAction, Fetch, InsertFile, MakeGroup, LinkGroup, CheckPlan, PushSegment, FinishFile,
           StepFails, WorkerDies
  <2>6. pushed' = pushed \/ \E s : pushed' = [pushed EXCEPT ![g] = s]
    BY <1>2, <2>2
       DEF WorkerAction, Fetch, InsertFile, MakeGroup, LinkGroup, CheckPlan, PushSegment, FinishFile,
           StepFails, WorkerDies
  <2> QED
    BY <2>3, <2>4, <2>5, <2>6 DEF TypeOK
<1> QED
  BY <1>1, <1>2

\* A worker that ends its attempt may have inserted the row, and acknowledges
\* only a file whose segments it has all pushed.
LEMMA EndsFrom ==
  ASSUME FileAssumption, WorkInv, TypeOK, NEW w \in FileWorkers, WorkerAction(w),
         NEW f \in Files, Holds(w, f), ~Holds(w, f)'
  PROVE  /\ UNCHANGED <<s3, size, removed, pushed>>
         /\ \/ f \in files' <=> f \in files
            \/ fw[w].at = "row" /\ f \notin files /\ f \in files'
         /\ outcome'[f] = "done" => \/ outcome[f] = "done"
                                    \/ fw[w].at = "segments" /\ fw[w].next > size[f]
<1>0. fw[w] # Rest /\ fw[w].job.file = f /\ fw[w].at # "idle"
  BY AtWork DEF Holds
<1>1. ~TakeFile(w)
  BY <1>0 DEF TakeFile
<1>2. ASSUME NEW at, Goes(w, at) PROVE FALSE
  BY <1>2 DEF Goes
<1>3. ~MakeGroup(w)
  BY <1>0, <1>2, Advances DEF MakeGroup
<1>4. ~PushSegment(w)
  BY <1>2, Continues
<1>5. UNCHANGED <<s3, size, removed, pushed>>
  BY <1>1, <1>3, <1>4
     DEF WorkerAction, Fetch, InsertFile, LinkGroup, CheckPlan, FinishFile, StepFails, WorkerDies
<1>6. ASSUME GiveBack(w) PROVE outcome'[f] = "done" => outcome[f] = "done"
  BY <1>0, <1>6, GivesBack DEF TypeOK
<1>7. ASSUME NEW how, End(w, f, how) PROVE outcome'[f] = how
  BY <1>7 DEF End, TypeOK
<1>8. outcome'[f] = "done" => \/ outcome[f] = "done"
                              \/ fw[w].at = "segments" /\ fw[w].next > size[f]
  <2>1. CASE Fetch(w) \/ LinkGroup(w) \/ CheckPlan(w) \/ StepFails(w)
    BY <1>6, <2>1 DEF Fetch, LinkGroup, CheckPlan, StepFails
  <2>2. CASE InsertFile(w)
    BY <1>0, <1>6, <1>7, <2>2 DEF InsertFile
  <2>3. CASE FinishFile(w)
    BY <1>0, <2>3 DEF FinishFile
  <2>4. CASE WorkerDies(w)
    BY <1>0, <1>7, <2>4 DEF WorkerDies
  <2> QED
    BY <1>1, <1>3, <1>4, <2>1, <2>2, <2>3, <2>4 DEF WorkerAction
<1>9. \/ f \in files' <=> f \in files
      \/ fw[w].at = "row" /\ f \notin files /\ f \in files'
  <2>1. CASE InsertFile(w)
    BY <1>0, <2>1 DEF InsertFile, RowRefused
  <2>2. CASE ~InsertFile(w)
    BY <1>1, <1>3, <1>4, <2>2
       DEF WorkerAction, Fetch, LinkGroup, CheckPlan, FinishFile, StepFails, WorkerDies
  <2> QED
    BY <2>1, <2>2
<1> QED
  BY <1>5, <1>8, <1>9

LEMMA StepFile ==
  ASSUME FileAssumption, TypeOK, WorkInv, OnceInv, RowInv, SegmentsOnce, [Next]_vars,
         NEW f \in Files, f \notin removed'
  PROVE  RowAt(f)' /\ SegmentsAt(f)'
<1>1. ASSUME f \notin removed PROVE RowAt(f) /\ SegmentsAt(f)
  BY <1>1 DEF RowInv, SegmentsOnce, SegmentsAt
<1>2. CASE \E g \in Files : AskUpload(g) \/ PutObject(g) \/ PushFile(g) \/ UploadFails(g)
  <2>1. UNCHANGED <<files, pushed, size, outcome, removed, fw>> /\ s3 \subseteq s3'
    BY <1>2 DEF AskUpload, PutObject, PushFile, UploadFails
  <2>2. \A u \in FileWorkers : Holds(u, f)' => Holds(u, f) /\ fw'[u] = fw[u]
    BY <2>1 DEF Holds
  <2> QED
    BY <1>1, <2>1, <2>2, FileKept
<1>3. CASE \E g \in Files : DeleteObject(g) \/ DeleteFileRow(g)
  <2>1. PICK g \in Files : DeleteObject(g) \/ DeleteFileRow(g)
    BY <1>3
  <2>2. f \notin removed
    BY <2>1 DEF DeleteObject, DeleteFileRow
  <2>3. f # g
    BY <1>1, <2>1, <2>2 DEF DeleteObject, DeleteFileRow, RowAt
  <2>4. UNCHANGED <<pushed, size, outcome, fw>> /\ (f \in files' <=> f \in files) /\ (f \in s3' <=> f \in s3)
    BY <2>1, <2>3 DEF DeleteObject, DeleteFileRow
  <2>5. \A u \in FileWorkers : Holds(u, f)' => Holds(u, f) /\ fw'[u] = fw[u]
    BY <2>4 DEF Holds
  <2> QED
    BY <1>1, <2>2, <2>4, <2>5, FileKept
<1>4. CASE IngestSegment \/ UNCHANGED vars
  <2>1. UNCHANGED <<s3, files, pushed, size, outcome, removed, fw>>
    BY <1>4 DEF IngestSegment, vars
  <2>2. \A u \in FileWorkers : Holds(u, f)' => Holds(u, f) /\ fw'[u] = fw[u]
    BY <2>1 DEF Holds
  <2> QED
    BY <1>1, <2>1, <2>2, FileKept
<1>5. CASE \E w \in FileWorkers : WorkerAction(w)
  <2>1. PICK w \in FileWorkers : WorkerAction(w)
    BY <1>5
  <2>2. \A u \in FileWorkers : u # w => fw'[u] = fw[u]
    BY <2>1, WorkerMoves, OnceTaken, Rests, GivesBack DEF Ends, End, Goes
  <2>3. CASE ~Holds(w, f)
    <3>1. f \notin removed
      BY <2>1, <2>3, OtherFiles
    <3>2. CASE ~Holds(w, f)'
      <4>1. \A u \in FileWorkers : Holds(u, f)' => Holds(u, f) /\ fw'[u] = fw[u]
        BY <2>2, <3>2 DEF Holds
      <4> QED
        BY <1>1, <2>1, <2>3, <3>1, <4>1, OtherFiles, FileKept
    <3>3. CASE Holds(w, f)'
      <4>1. TakeFile(w)
        BY <2>1, <2>3, <3>3, WorkerMoves, Rests, GivesBack DEF Ends, End, Goes
      <4>2. fw'[w].at = "fetch" /\ fw'[w].next = 1
        BY <4>1, OnceTaken
      <4>3. UNCHANGED <<s3, size>> /\ pushed'[f] = pushed[f] /\ (f \in files' <=> f \in files)
            /\ outcome'[f] = outcome[f]
        BY <2>1, <2>3, OtherFiles
      <4>4. \A u \in FileWorkers : u # w => (Holds(u, f)' => Holds(u, f) /\ fw'[u] = fw[u])
        BY <2>2 DEF Holds
      <4>5. RowAt(f)'
        BY <1>1, <3>1, <4>2, <4>3, <4>4 DEF RowAt
      <4>6. SegmentsAt(f)'
        BY <1>1, <3>1, <4>3 DEF SegmentsAt
      <4> QED
        BY <4>5, <4>6
    <3> QED
      BY <3>2, <3>3
  <2>4. CASE Holds(w, f) /\ ~Holds(w, f)'
    <3>1. f \notin removed
      BY <2>1, <2>4, EndsFrom
    <3>2. UNCHANGED <<s3, size, pushed>>
      BY <2>1, <2>4, EndsFrom
    <3>3. \A u \in FileWorkers : ~Holds(u, f)'
      BY <2>2, <2>4 DEF OnceInv, Holds
    <3>4. f \in files' => f \in s3'
      BY <1>1, <2>1, <2>4, <3>1, <3>2, EndsFrom DEF RowAt
    <3>5. f \notin files' => pushed'[f] = << >>
      BY <1>1, <2>1, <2>4, <3>1, <3>2, EndsFrom DEF RowAt
    <3>6. outcome'[f] = "done" => Len(pushed'[f]) = size'[f]
      <4>1. CASE outcome[f] = "done"
        BY <2>4, <4>1 DEF OnceInv
      <4>2. CASE fw[w].at = "segments" /\ fw[w].next > size[f]
        <5>1. fw[w].next <= size[f] + 1 /\ Len(pushed[f]) = fw[w].next - 1
          BY <1>1, <2>4, <3>1, <4>2 DEF RowAt
        <5>2. fw[w].next \in Int /\ size[f] \in Int
          BY <2>4, Working DEF Holds, Busy, TypeOK
        <5> QED
          BY <3>2, <4>2, <5>1, <5>2
      <4> QED
        BY <2>1, <2>4, <4>1, <4>2, EndsFrom
    <3>7. pushed'[f] = [i \in 1 .. Len(pushed'[f]) |-> i]
      BY <1>1, <3>1, <3>2 DEF SegmentsAt
    <3> QED
      BY <3>3, <3>4, <3>5, <3>6, <3>7 DEF RowAt, SegmentsAt
  <2>5. CASE Holds(w, f) /\ Holds(w, f)'
    <3>1. UNCHANGED <<s3, size, outcome, removed>> /\ f \notin removed
      BY <2>1, <2>5, GoesFrom
    <3>2. RowAt(f) /\ SegmentsAt(f)
      BY <1>1, <3>1
    <3>3. \A u \in FileWorkers : Holds(u, f)' => u = w
      BY <2>2, <2>5 DEF OnceInv, Holds
    <3>4. outcome'[f] # "done"
      BY <2>5, <3>1 DEF OnceInv
    <3>5. CASE pushed' = pushed
      <4>1. SegmentsAt(f)'
        BY <3>1, <3>2, <3>5 DEF SegmentsAt
      <4>2. size[f] \in Nat
        BY DEF TypeOK
      <4>3. RowAt(f)'
        <5>1. CASE fw[w].at = "fetch" /\ fw'[w].at = "row"
          BY <2>1, <2>5, <3>1, <3>2, <3>3, <3>5, <5>1, GoesFrom DEF RowAt
        <5>2. CASE fw[w].at = "row"
          BY <2>1, <2>5, <3>1, <3>2, <3>3, <3>5, <5>2, GoesFrom DEF RowAt
        <5>3. CASE fw[w].at \in {"group", "link"}
          BY <2>1, <2>5, <3>1, <3>2, <3>3, <3>5, <5>3, GoesFrom DEF RowAt
        <5>4. CASE fw[w].at = "plan"
          BY <2>1, <2>5, <3>1, <3>2, <3>3, <3>5, <4>2, <5>4, GoesFrom DEF RowAt
        <5>5. CASE fw[w].at = "segments"
          <6>1. /\ fw'[w].next = fw[w].next + 1
                /\ pushed' = [pushed EXCEPT ![f] = Append(pushed[f], fw[w].next)]
            BY <2>1, <2>5, <5>5, GoesFrom
          <6>2. pushed[f] \in Seq(1 .. LastSegment)
            BY DEF TypeOK
          <6>3. pushed'[f] = Append(pushed[f], fw[w].next)
            BY <6>1 DEF TypeOK
          <6> QED
            BY <3>5, <6>2, <6>3
        <5> QED
          BY <2>1, <2>5, <5>1, <5>2, <5>3, <5>4, <5>5, GoesFrom
      <4> QED
        BY <4>1, <4>3
    <3>6. CASE /\ fw[w].at = "segments" /\ fw'[w].at = "segments" /\ fw'[w].next = fw[w].next + 1
               /\ fw[w].next <= size[f] /\ fw[w].next \in 1 .. LastSegment + 1
               /\ pushed' = [pushed EXCEPT ![f] = Append(pushed[f], fw[w].next)]
               /\ UNCHANGED files
      <4> DEFINE s == pushed[f]
                 n == fw[w].next
      <4>1. s \in Seq(1 .. LastSegment) /\ pushed'[f] = Append(s, n)
        BY <3>6 DEF TypeOK
      <4>2. Len(s) = n - 1 /\ f \in files /\ f \in s3 /\ s = [i \in 1 .. Len(s) |-> i]
        BY <2>5, <3>2, <3>6 DEF RowAt, SegmentsAt
      <4>3. n \in Nat /\ size[f] \in Nat /\ n \in 1 .. LastSegment
        <5>1. size[f] \in 0 .. LastSegment
          BY DEF TypeOK
        <5> QED
          BY <3>6, <5>1, ConstantTypes
      <4>4. Len(Append(s, n)) = n
        BY <4>1, <4>2, <4>3
      <4>5. Append(s, n) = [i \in 1 .. n |-> i]
        <5>1. \A i \in 1 .. n : Append(s, n)[i] = i
          BY <4>1, <4>2, <4>3
        <5>2. Append(s, n) \in Seq(1 .. LastSegment)
          BY <4>1, <4>3
        <5> QED
          BY <4>4, <5>1, <5>2
      <4> HIDE DEF s, n
      <4>6. SegmentsAt(f)'
        BY <3>4, <4>1, <4>4, <4>5 DEF SegmentsAt
      <4>7. n + 1 <= size[f] + 1 /\ Len(pushed'[f]) = (n + 1) - 1
        BY <3>6, <4>1, <4>3, <4>4 DEF n
      <4>8. RowAt(f)'
        BY <3>1, <3>3, <3>6, <4>2, <4>7 DEF RowAt, n
      <4> QED
        BY <4>6, <4>8
    <3> QED
      BY <2>1, <2>5, <3>5, <3>6, GoesFrom
  <2> QED
    BY <2>3, <2>4, <2>5
<1> QED
  BY <1>2, <1>3, <1>4, <1>5 DEF Next, WorkerAction

--------------------------------------------------------------------------------
(* Theorems.                                                                *)

LEMMA InitInvariant == FileAssumption /\ Init => IInv
<1> SUFFICES ASSUME FileAssumption, Init PROVE IInv
  OBVIOUS
<1>1. TypeOK /\ WorkInv /\ OnceInv
  BY InitTypes
<1>2. ASSUME NEW f \in Files PROVE RowAt(f) /\ SegmentsAt(f)
  <2>1. pushed[f] = << >> /\ outcome[f] = "open" /\ f \notin files
    BY DEF Init
  <2>2. \A w \in FileWorkers : ~Holds(w, f)
    BY DEF Init, Holds
  <2>3. << >> = [i \in 1 .. Len(<< >>) |-> i]
    OBVIOUS
  <2> QED
    BY <2>1, <2>2, <2>3 DEF RowAt, SegmentsAt
<1> QED
  BY <1>1, <1>2 DEF IInv, RowInv, SegmentsOnce, SegmentsAt

LEMMA StepInvariant == FileAssumption /\ IInv /\ [Next]_vars => IInv'
<1> SUFFICES ASSUME FileAssumption, IInv, [Next]_vars PROVE IInv'
  OBVIOUS
<1>1. OnceInv' /\ WorkInv'
  BY StepOnce DEF IInv
<1>2. TypeOK'
  BY <1>1, StepTypes DEF IInv
<1>3. \A f \in Files \ removed' : RowAt(f)' /\ SegmentsAt(f)'
  BY StepFile DEF IInv
<1>4. RowInv' /\ SegmentsOnce'
  BY <1>3 DEF RowInv, SegmentsOnce, SegmentsAt
<1> QED
  BY <1>1, <1>2, <1>4 DEF IInv

\* The inductive invariant: a file has one message, and a file that no client
\* deleted keeps its object and its row.
THEOREM InductiveInvariant == FileAssumption /\ Spec => []IInv
<1> SUFFICES ASSUME FileAssumption PROVE Spec => []IInv
  OBVIOUS
<1>1. Init => IInv
  BY InitInvariant
<1>2. IInv /\ [Next]_vars => IInv'
  BY StepInvariant
<1> QED
  BY <1>1, <1>2, PTL DEF Spec

\* Every variable keeps its type: no message is attempted more than Attempts
\* times, and no segment is pushed that the file does not have.
THEOREM TypeCorrect == FileAssumption /\ Spec => []TypeOK
<1> SUFFICES ASSUME FileAssumption PROVE Spec => []TypeOK
  OBVIOUS
<1>1. IInv => TypeOK
  BY DEF IInv
<1>2. Spec => []IInv
  BY InductiveInvariant
<1> QED
  BY <1>1, <1>2, PTL

\* The segments of a file that no client deletes are pushed in order, none of
\* them twice however often its message is tried again, and all of them once
\* the message is acknowledged.
THEOREM SegmentsPushedOnce == FileAssumption /\ Spec => []SegmentsOnce
<1> SUFFICES ASSUME FileAssumption PROVE Spec => []SegmentsOnce
  OBVIOUS
<1>1. IInv => SegmentsOnce
  BY DEF IInv
<1>2. Spec => []IInv
  BY InductiveInvariant
<1> QED
  BY <1>1, <1>2, PTL
================================================================================
