-------------------------- MODULE ProcessorProofs ---------------------------
(***************************************************************************)
(* Proofs about what the processor does: about Interrupts, for every set   *)
(* of lines and every number of programs, and about ContextSwitch, for     *)
(* every number of threads and every set of register values.               *)
(***************************************************************************)
EXTENDS Interrupts, ContextSwitch, TLAPS, SequenceTheorems

-----------------------------------------------------------------------------
(* Interrupts.                                                             *)

\* Where each kind of code can be: only boot and system calls read the disk,
\* the boot code and programs are never at the end of a handler, and only the
\* handler of the clock starts a thread.
PlacesIn(code) ==
    {at \in Places :
        \/ at = "run" /\ code # "debug"
        \/ at = "reading" /\ code \in {"boot", "call"}
        \/ at \in {"eoi", "iret"} /\ code \in {"call", "wait", "irq", "debug"}
        \/ at \in {"start", "resume"} /\ code = "irq"}

Handlers == {"irq", "debug", "fault"}

\* The boot code or a program at the bottom and nowhere else, then what came
\* on top; handlers are never below anything, nor is a read.
WellStacked(s) ==
    /\ s \in Seq(Activations) /\ s # <<>>
    /\ s[1].code \in {"boot", "user"}
    /\ \A k \in 2..Len(s) : s[k].code \notin {"boot", "user"}
    /\ \A k \in 1..Len(s) : s[k].at \in PlacesIn(s[k].code)
    /\ \A k \in 1..(Len(s) - 1) : s[k].code \notin Handlers /\ s[k].at # "reading"
    /\ s[1].code = "boot" => \A k \in 2..Len(s) : s[k].code \in {"irq", "debug"}

\* What is kept of a thread is a program, perhaps in a system call.
ThreadsAreKept ==
    \A t \in 1..NThreads :
        /\ WellStacked(saved[t])
        /\ saved[t][1].code = "user"
        /\ saved[t][Len(saved[t])].code \notin Handlers
        /\ saved[t][Len(saved[t])].at # "reading"

\* The handler of the clock between the choice of a thread and its start.
Starting == Runs("irq") /\ Top.at \in {"start", "resume"}

\* KernelInit goes on until the first thread is started.
BootUntilStart ==
    /\ cpu[1].code = "user" => current # 0
    /\ current # 0 => cpu[1].code = "user" \/ Starting
    /\ Starting => current # 0
    /\ current # 0 => boot = PlaceOf("loop")

\* What KernelInit has loaded, by where it is.
LoadedByPlace ==
    /\ boot < Load => threads = 0
    /\ boot = Load => threads < NThreads

\* The sections of KernelInit before and between its sti, in which nothing but
\* a stop of the debugger can come on top, and that comes back as it went.
Masked == 1..PlaceOf("sti") \cup PlaceOf("reload")..(PlaceOf("reloaded") + 1)
Loading == Load..(PlaceOf("loaded") + 1)

MaskedSections ==
    /\ boot \in Masked => ~flag /\ Runs("boot") /\ At("run")
    /\ boot \in Loading => /\ ~flag
                           /\ ~Runs("irq")
                           /\ Runs("boot") => At("run")
                           /\ Runs("debug") => ~Top.iflag

\* Reads and handlers run with the interrupts masked.
MaskedCode ==
    /\ Top.code \in Handlers => ~flag
    /\ At("reading") => ~flag

\* Vectors are the controller's own once it was set up, a line is in service
\* while its handler runs, and the debugger comes when its table is there.
Vectors ==
    /\ base = IF boot > PlaceOf("pic") THEN 32 ELSE 8
    /\ Runs("irq") => Top.vector - base \in Irqs
    /\ inService = IF Runs("irq") /\ Top.at \in {"run", "eoi", "start"} THEN {Top.vector - base}
                   ELSE {}
    /\ Runs("debug") => boot > PlaceOf("reloaded")

IInv ==
    /\ TypeOK
    /\ WellStacked(cpu)
    /\ ThreadsAreKept
    /\ BootUntilStart
    /\ LoadedByPlace
    /\ MaskedSections
    /\ MaskedCode
    /\ Vectors

-----------------------------------------------------------------------------
(* The steps of KernelInit by their places.                                *)

LEMMA BootIsNumbered ==
    /\ DOMAIN Boot = 1..26 /\ Len(Boot) = 26
    /\ \A k \in 1..26 :
          /\ Boot[k] = "cli" <=> k \in {12, 22}
          /\ Boot[k] = "sti" <=> k \in {10, 15, 25}
          /\ Boot[k] = "pic" <=> k = 3
          /\ Boot[k] = "reloaded" <=> k = 14
          /\ Boot[k] = "breakpoint" <=> k = 17
          /\ Boot[k] = "open" <=> k = 21
          /\ Boot[k] = "load" <=> k = 23
          /\ Boot[k] = "loaded" <=> k = 24
          /\ Boot[k] = "loop" <=> k = 26
  BY DEF Boot

LEMMA PlacesAreNumbered ==
    /\ PlaceOf("gdt") = 1 /\ PlaceOf("pic") = 3 /\ PlaceOf("idt") = 4
    /\ PlaceOf("vmm") = 8 /\ PlaceOf("pm") = 9 /\ PlaceOf("sti") = 10
    /\ PlaceOf("gates") = 11 /\ PlaceOf("reload") = 13 /\ PlaceOf("reloaded") = 14
    /\ Ata = 18 /\ PlaceOf("fs") = 19 /\ Open = 21 /\ Load = 23
    /\ PlaceOf("loaded") = 24 /\ PlaceOf("loop") = 26
  <1>1. ASSUME NEW n \in 1..26, \A j \in 1..(n - 1) : Boot[j] # Boot[n]
        PROVE  PlaceOf(Boot[n]) = n
    BY <1>1, BootIsNumbered DEF PlaceOf
  <1>2. /\ Boot[1] = "gdt" /\ Boot[3] = "pic" /\ Boot[4] = "idt" /\ Boot[8] = "vmm"
        /\ Boot[9] = "pm" /\ Boot[10] = "sti" /\ Boot[11] = "gates" /\ Boot[13] = "reload"
        /\ Boot[14] = "reloaded" /\ Boot[18] = "ata" /\ Boot[19] = "fs" /\ Boot[21] = "open"
        /\ Boot[23] = "load" /\ Boot[24] = "loaded" /\ Boot[26] = "loop"
    BY DEF Boot
  <1>3. \A n \in {1, 3, 4, 8, 9, 10, 11, 13, 14, 18, 19, 21, 23, 24, 26} :
            \A j \in 1..(n - 1) : Boot[j] # Boot[n]
    BY DEF Boot
  <1>4. \A n \in {1, 3, 4, 8, 9, 10, 11, 13, 14, 18, 19, 21, 23, 24, 26} :
            n \in 1..26 /\ PlaceOf(Boot[n]) = n
    BY <1>1, <1>3
  <1> QED
    BY <1>2, <1>4 DEF Ata, Open, Load

LEMMA SectionsAreNumbered ==
    Masked = 1..10 \cup 13..15 /\ Loading = 23..25
  BY PlacesAreNumbered DEF Masked, Loading

-----------------------------------------------------------------------------
(* Stacks of activations.                                                  *)

LEMMA SeqIsNotEmpty ==
    ASSUME NEW S, NEW s \in Seq(S), Len(s) # 0
    PROVE  s # <<>>
  <1>1. Len(<<>>) = 0
    BY EmptySeq
  <1> QED
    BY <1>1

LEMMA FrontHolds ==
    ASSUME NEW S, NEW s \in Seq(S), 1 < Len(s)
    PROVE  /\ Front(s) \in Seq(S) /\ Front(s) # <<>>
           /\ Len(Front(s)) = Len(s) - 1
           /\ \A k \in 1..(Len(s) - 1) : Front(s)[k] = s[k]
  <1>1. Len(s) \in Nat /\ \A i \in 1..(Len(s) - 1) : s[i] \in S
    OBVIOUS
  <1>2. SubSeq(s, 1, Len(s) - 1) \in Seq(S)
    BY <1>1, SubSeqProperties
  <1>3. Len(SubSeq(s, 1, Len(s) - 1)) = Len(s) - 1
    BY <1>1, SubSeqProperties
  <1>4. \A k \in 1..(Len(s) - 1) : SubSeq(s, 1, Len(s) - 1)[k] = s[k]
    <2>1. \A i \in 1..((Len(s) - 1) - 1 + 1) : SubSeq(s, 1, Len(s) - 1)[i] = s[1 + i - 1]
      BY <1>1, SubSeqProperties
    <2>2. \A k \in 1..(Len(s) - 1) : 1 + k - 1 = k /\ k \in 1..((Len(s) - 1) - 1 + 1)
      BY <1>1
    <2> QED
      BY <2>1, <2>2
  <1> DEFINE r == SubSeq(s, 1, Len(s) - 1)
  <1>5. r \in Seq(S) /\ Len(r) = Len(s) - 1
    BY <1>2, <1>3
  <1> HIDE DEF r
  <1>6. r # <<>>
    BY <1>1, <1>5, SeqIsNotEmpty
  <1> QED
    BY <1>4, <1>5, <1>6 DEF Front, r

LEMMA ExceptHolds ==
    ASSUME NEW S, NEW s \in Seq(S), s # <<>>, NEW a \in S
    PROVE  LET r == [s EXCEPT ![Len(s)] = a]
           IN  /\ r \in Seq(S) /\ r # <<>>
               /\ Len(r) = Len(s)
               /\ r[Len(s)] = a
               /\ \A k \in 1..(Len(s) - 1) : r[k] = s[k]
  <1> DEFINE r == [s EXCEPT ![Len(s)] = a]
  <1>1. Len(s) \in Nat /\ Len(s) # 0 /\ Len(s) \in 1..Len(s)
    BY EmptySeq
  <1>2. /\ r \in Seq(S) /\ Len(r) = Len(s)
        /\ \A k \in 1..Len(s) : r[k] = IF k = Len(s) THEN a ELSE s[k]
    BY <1>1, ExceptSeq
  <1> HIDE DEF r
  <1>3. r # <<>>
    BY <1>1, <1>2, SeqIsNotEmpty
  <1>4. r[Len(s)] = a
    BY <1>1, <1>2
  <1>5. ASSUME NEW k \in 1..(Len(s) - 1)
        PROVE  r[k] = s[k]
    <2>1. k \in 1..Len(s) /\ k # Len(s)
      BY <1>1
    <2> QED
      BY <1>2, <2>1
  <1> QED
    BY <1>2, <1>3, <1>4, <1>5 DEF r
LEMMA PlacesAreTyped ==
    ASSUME NEW code
    PROVE  PlacesIn(code) \subseteq Places
  BY DEF PlacesIn

\* The activations of a stack, by code: what runs the boot code or a program
\* is alone on it, and what is on top of them is not the first.
LEMMA StackHolds ==
    ASSUME NEW s, WellStacked(s)
    PROVE  /\ Len(s) \in Nat /\ 1 <= Len(s) /\ DOMAIN s = 1..Len(s)
           /\ \A k \in 1..Len(s) : /\ s[k] \in Activations
                                   /\ s[k].code \in Codes /\ s[k].at \in Places
                                   /\ s[k].iflag \in BOOLEAN /\ s[k].vector \in 0..255
           /\ s[Len(s)].at \in PlacesIn(s[Len(s)].code)
           /\ Len(s) = 1 <=> s[Len(s)].code \in {"boot", "user"}
           /\ 1 < Len(s) <=> s[Len(s)].code \notin {"boot", "user"}
           /\ Len(s) > 1 /\ s[1].code = "boot" => s[Len(s)].code \in {"irq", "debug"}
  <1>1. Len(s) \in Nat /\ 1 <= Len(s) /\ DOMAIN s = 1..Len(s)
    BY DEF WellStacked
  <1>2. \A k \in 1..Len(s) : s[k] \in Activations
    BY DEF WellStacked
  <1>3. \A k \in 1..Len(s) : /\ s[k].code \in Codes /\ s[k].at \in Places
                             /\ s[k].iflag \in BOOLEAN /\ s[k].vector \in 0..255
    BY <1>2 DEF Activations
  <1> QED
    BY <1>1, <1>2, <1>3 DEF WellStacked

\* What does not mask the interrupts can be interrupted.
LEMMA PushKeeps ==
    ASSUME NEW s, WellStacked(s), s[Len(s)].code \notin Handlers, s[Len(s)].at # "reading",
           NEW a \in Activations, a.code \notin {"boot", "user"}, a.at \in PlacesIn(a.code),
           s[1].code = "boot" => a.code \in {"irq", "debug"}
    PROVE  /\ WellStacked(Append(s, a))
           /\ Len(Append(s, a)) = Len(s) + 1
           /\ Append(s, a)[1] = s[1]
           /\ Append(s, a)[Len(s) + 1] = a
  <1>1. Len(s) \in Nat /\ 1 <= Len(s) /\ s \in Seq(Activations)
    BY DEF WellStacked
  <1>2. /\ Append(s, a) \in Seq(Activations) /\ Append(s, a) # <<>>
        /\ Len(Append(s, a)) = Len(s) + 1
        /\ \A k \in 1..Len(s) : Append(s, a)[k] = s[k]
        /\ Append(s, a)[Len(s) + 1] = a
    BY <1>1, AppendProperties
  <1> QED
    BY <1>1, <1>2 DEF WellStacked

\* What was interrupted goes on.
LEMMA FrontKeeps ==
    ASSUME NEW s, WellStacked(s), 1 < Len(s)
    PROVE  /\ WellStacked(Front(s))
           /\ Len(Front(s)) = Len(s) - 1
           /\ Front(s)[1] = s[1]
           /\ Front(s)[Len(s) - 1].code \notin Handlers
           /\ Front(s)[Len(s) - 1].at # "reading"
  <1>1. Len(s) \in Nat /\ s \in Seq(Activations)
    BY DEF WellStacked
  <1>2. /\ Front(s) \in Seq(Activations) /\ Front(s) # <<>>
        /\ Len(Front(s)) = Len(s) - 1
        /\ \A k \in 1..(Len(s) - 1) : Front(s)[k] = s[k]
    BY <1>1, FrontHolds
  <1>3. /\ Front(s)[1] = s[1]
        /\ Front(s)[Len(s) - 1] = s[Len(s) - 1]
        /\ s[Len(s) - 1].code \notin Handlers
        /\ s[Len(s) - 1].at # "reading"
    BY <1>1, <1>2 DEF WellStacked
  <1>4. WellStacked(Front(s))
    BY <1>1, <1>2 DEF WellStacked
  <1> QED
    BY <1>2, <1>3, <1>4

\* The same code at another place.
LEMMA MoveKeeps ==
    ASSUME NEW s, WellStacked(s), NEW r \in Seq(Activations), r # <<>>, Len(r) = Len(s),
           \A k \in 1..(Len(s) - 1) : r[k] = s[k],
           r[Len(s)].code = s[Len(s)].code, r[Len(s)].at \in PlacesIn(s[Len(s)].code)
    PROVE  WellStacked(r) /\ r[1].code = s[1].code
  <1>1. Len(s) \in Nat /\ 1 <= Len(s) /\ s \in Seq(Activations)
    BY DEF WellStacked
  <1>2. \A k \in 1..Len(s) : r[k].code = s[k].code
    BY <1>1
  <1>3. \A k \in 1..Len(s) : r[k].at \in PlacesIn(r[k].code)
    <2>1. TAKE k \in 1..Len(s)
    <2>2. CASE k = Len(s)
      BY <2>2
    <2>3. CASE k # Len(s)
      BY <1>1, <2>3 DEF WellStacked
    <2> QED
      BY <2>2, <2>3
  <1>4. WellStacked(r)
    BY <1>1, <1>2, <1>3 DEF WellStacked
  <1> QED
    BY <1>1, <1>2, <1>4

LEMMA GoToKeeps ==
    ASSUME WellStacked(cpu), NEW at \in PlacesIn(Top.code), GoTo(at)
    PROVE  /\ WellStacked(cpu')
           /\ Len(cpu') = Len(cpu)
           /\ cpu'[1].code = cpu[1].code
           /\ Top'.code = Top.code
           /\ Top'.at = at
           /\ Top'.iflag = Top.iflag
           /\ Top'.vector = Top.vector
  <1> DEFINE a == Activation(Top.code, at, Top.iflag, Top.vector)
  <1>1. Len(cpu) \in Nat /\ Len(cpu) \in 1..Len(cpu) /\ cpu \in Seq(Activations) /\ cpu # <<>>
    BY DEF WellStacked
  <1>2. Top.code \in Codes /\ Top.iflag \in BOOLEAN /\ Top.vector \in 0..255
    BY <1>1, StackHolds DEF Top
  <1>3. at \in Places
    BY <1>2, PlacesAreTyped
  <1>4. /\ a \in Activations /\ a.code = Top.code /\ a.at = at
        /\ a.iflag = Top.iflag /\ a.vector = Top.vector
    BY <1>2, <1>3 DEF Activation, Activations
  <1> HIDE DEF a
  <1>5. cpu' = [cpu EXCEPT ![Len(cpu)] = a]
    BY DEF a, GoTo
  <1>6. /\ cpu' \in Seq(Activations) /\ cpu' # <<>>
        /\ Len(cpu') = Len(cpu)
        /\ cpu'[Len(cpu)] = a
        /\ \A k \in 1..(Len(cpu) - 1) : cpu'[k] = cpu[k]
    BY <1>1, <1>4, <1>5, ExceptHolds
  <1>7. WellStacked(cpu') /\ cpu'[1].code = cpu[1].code
    BY <1>4, <1>6, MoveKeeps DEF Top
  <1> QED
    BY <1>1, <1>4, <1>6, <1>7 DEF Top

LEMMA PushHolds ==
    ASSUME WellStacked(cpu), Top.code \notin Handlers, Top.at # "reading",
           NEW a \in Activations, a.code \in {"call", "wait", "irq", "debug", "fault"},
           a.at \in PlacesIn(a.code),
           cpu[1].code = "boot" => a.code \in {"irq", "debug"},
           Push(a)
    PROVE  WellStacked(cpu') /\ cpu'[1].code = cpu[1].code /\ Top' = a
  <1>1. cpu' = Append(cpu, a)
    BY DEF Push
  <1>2. /\ WellStacked(Append(cpu, a))
        /\ Len(Append(cpu, a)) = Len(cpu) + 1
        /\ Append(cpu, a)[1] = cpu[1]
        /\ Append(cpu, a)[Len(cpu) + 1] = a
    BY PushKeeps DEF Top
  <1> QED
    BY <1>1, <1>2 DEF Top

LEMMA ReturnHolds ==
    ASSUME WellStacked(cpu), Top.code \notin {"boot", "user"}, cpu' = Front(cpu)
    PROVE  /\ WellStacked(cpu')
           /\ cpu'[1].code = cpu[1].code
           /\ Top'.code \notin Handlers
           /\ Top'.at # "reading"
  <1>1. 1 < Len(cpu)
    BY StackHolds DEF Top
  <1>2. Len(cpu') = Len(cpu) - 1
    BY <1>1, FrontKeeps
  <1> QED
    BY <1>1, <1>2, FrontKeeps DEF Top

\* What the invariant says of the activation that runs.
LEMMA TopHolds ==
    ASSUME IInv
    PROVE  /\ Top.code \in Codes /\ Top.at \in PlacesIn(Top.code)
           /\ Top.iflag \in BOOLEAN /\ Top.vector \in 0..255
           /\ Top.code \in {"boot", "user"} => cpu[1].code = Top.code
           /\ cpu[1].code \in {"boot", "user"}
           /\ cpu[1].code = "boot" => Top.code \in {"boot", "irq", "debug"}
           /\ boot \in 1..26
  <1>1. WellStacked(cpu) /\ boot \in 1..26
    BY BootIsNumbered DEF IInv, TypeOK
  <1> QED
    <2>1. Top.code \in {"boot", "user"} => Len(cpu) = 1
      BY <1>1, StackHolds DEF Top
    <2>2. Top.code \in {"boot", "user"} => cpu[1].code = Top.code
      BY <2>1 DEF Top
    <2>3. cpu[1].code \in {"boot", "user"}
      BY <1>1 DEF WellStacked
    <2>4. Top.code \notin {"boot", "user"} /\ cpu[1].code = "boot" => Top.code \in {"irq", "debug"}
      BY <1>1, StackHolds DEF Top
    <2>5. Top.code \in Codes /\ Top.at \in PlacesIn(Top.code)
      BY <1>1, StackHolds DEF Top
    <2>6. Top.iflag \in BOOLEAN /\ Top.vector \in 0..255
      BY <1>1, StackHolds DEF Top
    <2> QED
      BY <1>1, <2>2, <2>3, <2>4, <2>5, <2>6

LEMMA RaiseKeeps ==
    ASSUME IInv, NEW i \in Irqs, Raise(i)
    PROVE  IInv'
  BY DEF IInv, Raise, TypeOK, WellStacked, ThreadsAreKept, BootUntilStart, LoadedByPlace,
     MaskedSections, MaskedCode, Vectors, Starting, Runs, At, Top

\* The conjuncts that the steps of handlers and system calls do not touch.
LEMMA FrameKeeps ==
    ASSUME IInv, UNCHANGED <<base, debug, boot, threads, current, saved>>,
           flag' \in BOOLEAN, irr' \subseteq Irqs, inService' \subseteq Irqs, WellStacked(cpu')
    PROVE  TypeOK' /\ ThreadsAreKept' /\ LoadedByPlace'
  <1>1. cpu' # <<>> /\ cpu' \in Seq(Activations)
    BY DEF WellStacked
  <1>2. TypeOK'
    BY <1>1 DEF IInv, TypeOK
  <1>3. ThreadsAreKept'
    BY DEF IInv, ThreadsAreKept
  <1>4. LoadedByPlace'
    BY DEF IInv, LoadedByPlace
  <1> QED
    BY <1>2, <1>3, <1>4

LEMMA EoiKeeps ==
    ASSUME IInv, Eoi
    PROVE  IInv'
  <1>1. Top.code \in {"call", "wait", "irq", "debug"}
    BY TopHolds DEF Eoi, At, PlacesIn
  <1>2. "iret" \in PlacesIn(Top.code)
    BY <1>1 DEF PlacesIn, Places
  <1>3. /\ WellStacked(cpu') /\ cpu'[1].code = cpu[1].code
        /\ Top'.code = Top.code /\ Top'.at = "iret"
        /\ Top'.iflag = Top.iflag /\ Top'.vector = Top.vector
    BY <1>2, GoToKeeps DEF Eoi, IInv
  <1>4. inService' = {}
    BY DEF IInv, Vectors, Eoi, Ended, Highest, Runs, At
  <1>5. TypeOK' /\ ThreadsAreKept' /\ LoadedByPlace'
    <2>1. flag' \in BOOLEAN /\ irr' \subseteq Irqs
      BY DEF Eoi, IInv, TypeOK
    <2> QED
      BY <1>3, <1>4, <2>1, FrameKeeps DEF Eoi
  <1>6. BootUntilStart'
    BY <1>3 DEF IInv, BootUntilStart, Eoi, Starting, Runs, At
  <1>7. MaskedSections'
    BY <1>1, <1>3, TopHolds DEF IInv, MaskedSections, Eoi, Runs, At
  <1>8. MaskedCode'
    BY <1>3 DEF IInv, MaskedCode, Eoi, At
  <1>9. Vectors'
    BY <1>3, <1>4 DEF IInv, Vectors, Eoi, Runs, At
  <1> QED
    BY <1>3, <1>5, <1>6, <1>7, <1>8, <1>9 DEF IInv

LEMMA HighestIsThere ==
    ASSUME NEW S \in SUBSET (0..7), S # {}
    PROVE  Highest(S) \in S
  <1>1. \E i \in S : \A j \in S : i <= j
    <2> SUFFICES ASSUME \A i \in S : \E j \in S : ~(i <= j)
                 PROVE  FALSE
      OBVIOUS
    <2>1. \A n \in 0..7 : (\A j \in 0..(n - 1) : j \notin S) => n \notin S
      OBVIOUS
    <2>2. 0 \notin S /\ 1 \notin S /\ 2 \notin S /\ 3 \notin S
      BY <2>1
    <2>3. 4 \notin S /\ 5 \notin S /\ 6 \notin S /\ 7 \notin S
      BY <2>1, <2>2
    <2>4. PICK i \in S : i \in 0..7
      OBVIOUS
    <2> QED
      BY <2>2, <2>3, <2>4
  <1> QED
    BY <1>1 DEF Highest

LEMMA DeliverKeeps ==
    ASSUME IInv, Deliver
    PROVE  IInv'
  <1> DEFINE i == Highest(irr)
  <1>1. i \in Irqs /\ i \in 0..7 /\ flag = TRUE
    <2>1. irr \in SUBSET (0..7) /\ irr # {} /\ irr \subseteq Irqs /\ Irqs \subseteq 0..7
      BY IrqsAssumption DEF Deliver, Pending, IInv, TypeOK
    <2>2. flag = TRUE
      BY DEF Deliver, Pending, IInv, TypeOK
    <2> QED
      BY <2>1, <2>2, HighestIsThere
  <1>2. /\ inService' = inService \cup {i} /\ irr' = irr \ {i} /\ flag' = FALSE
        /\ Push(Activation("irq", "run", flag, base + i))
        /\ UNCHANGED <<base, debug, boot, threads, current, saved>>
    BY DEF Deliver, FlagInHandler
  <1> HIDE DEF i
  <1>3. /\ Top.code \notin Handlers /\ Top.at # "reading" /\ ~Runs("irq")
        /\ boot \notin Masked /\ boot \notin Loading
    BY <1>1 DEF IInv, MaskedCode, MaskedSections, At, Handlers, Runs
  <1>4. inService = {} /\ base = 32
    <2>1. boot > 10
      BY <1>3, TopHolds, SectionsAreNumbered
    <2> QED
      BY <1>3, <2>1, PlacesAreNumbered, TopHolds DEF IInv, Vectors
  <1>5. /\ WellStacked(cpu') /\ cpu'[1].code = cpu[1].code
        /\ Top'.code = "irq" /\ Top'.at = "run"
        /\ Top'.iflag = flag /\ Top'.vector = base + i
    <2> DEFINE a == Activation("irq", "run", flag, base + i)
    <2>1. "run" \in PlacesIn("irq") /\ flag \in BOOLEAN /\ base + i \in 0..255
      BY <1>1, <1>4 DEF PlacesIn, Places
    <2>2. /\ a \in Activations /\ a.code = "irq" /\ a.at = "run"
          /\ a.iflag = flag /\ a.vector = base + i
      BY <2>1 DEF Activation, Activations, Codes, Places
    <2>3. Push(a)
      BY <1>2
    <2> HIDE DEF a
    <2>4. WellStacked(cpu') /\ cpu'[1].code = cpu[1].code /\ Top' = a
      BY <1>3, <2>1, <2>2, <2>3, PushHolds DEF IInv
    <2> QED
      BY <2>2, <2>4
  <1>6. TypeOK' /\ ThreadsAreKept' /\ LoadedByPlace'
    <2>1. flag' \in BOOLEAN /\ irr' \subseteq Irqs /\ inService' \subseteq Irqs
      BY <1>1, <1>2, <1>4 DEF IInv, TypeOK
    <2> QED
      BY <1>2, <1>5, <2>1, FrameKeeps
  <1>7. BootUntilStart'
    BY <1>2, <1>3, <1>5 DEF IInv, BootUntilStart, Starting, Runs, At
  <1>8. MaskedSections'
    BY <1>2, <1>3 DEF MaskedSections
  <1>9. MaskedCode' /\ Vectors'
    <2>1. (Top.vector - base)' = i
      BY <1>1, <1>2, <1>4, <1>5
    <2> QED
      BY <1>1, <1>2, <1>4, <1>5, <2>1 DEF IInv, MaskedCode, Vectors, Runs, At
  <1> QED
    BY <1>5, <1>6, <1>7, <1>8, <1>9 DEF IInv

LEMMA IretKeeps ==
    ASSUME IInv, Iret
    PROVE  IInv'
  <1>1. /\ flag' = Top.iflag /\ cpu' = Front(cpu)
        /\ UNCHANGED <<irr, inService, base, debug, boot, threads, current, saved>>
    BY DEF Iret, pic
  <1>2. Top.code \in {"call", "wait", "irq", "debug"} /\ Top.at = "iret"
    BY TopHolds DEF Iret, At, PlacesIn, Codes
  <1>3. Top.code \notin {"boot", "user"}
    BY <1>2
  <1>4. /\ WellStacked(cpu') /\ cpu'[1].code = cpu[1].code
        /\ Top'.code \notin Handlers /\ Top'.at # "reading"
    BY <1>1, <1>3, ReturnHolds DEF IInv
  <1>5. TypeOK' /\ ThreadsAreKept' /\ LoadedByPlace'
    <2>1. flag' \in BOOLEAN /\ irr' \subseteq Irqs /\ inService' \subseteq Irqs
      BY <1>1, TopHolds DEF IInv, TypeOK
    <2> QED
      BY <1>1, <1>4, <2>1, FrameKeeps
  <1>6. BootUntilStart'
    BY <1>1, <1>2, <1>4 DEF IInv, BootUntilStart, Starting, Runs, At, Handlers
  <1>7. MaskedSections'
    <2>1. boot \notin Masked
      BY <1>3 DEF IInv, MaskedSections, Runs
    <2>2. CASE boot \in Loading
      <3>1. Top.code = "debug" /\ ~Top.iflag
        <4>1. cpu[1].code = "boot"
          BY <2>2, TopHolds, PlacesAreNumbered DEF IInv, BootUntilStart, Loading
        <4> QED
          BY <1>2, <2>2, <4>1, TopHolds DEF IInv, MaskedSections, Runs
      <3>2. ~flag' /\ ~Runs("irq")' /\ ~Runs("debug")'
        BY <1>1, <1>4, <3>1 DEF Runs, Handlers
      <3>3. Runs("boot")' => At("run")'
        <4>1. Top'.at \in PlacesIn(Top'.code)
          BY <1>4, StackHolds DEF Top
        <4> QED
          BY <1>4, <4>1 DEF Runs, At, PlacesIn
      <3> QED
        BY <1>1, <2>1, <3>2, <3>3 DEF MaskedSections
    <2>3. CASE boot \notin Loading
      BY <1>1, <2>1, <2>3 DEF MaskedSections
    <2> QED
      BY <2>2, <2>3
  <1>8. MaskedCode' /\ Vectors'
    BY <1>1, <1>2, <1>4 DEF IInv, MaskedCode, Vectors, Runs, At, Handlers
  <1> QED
    BY <1>4, <1>5, <1>6, <1>7, <1>8 DEF IInv

LEMMA HandlerReturnsKeeps ==
    ASSUME IInv, HandlerReturns
    PROVE  IInv'
  <1>1. /\ Top.code = "irq" /\ Top.at = "run" /\ GoTo("eoi")
        /\ UNCHANGED <<flag, irr, inService, base, debug, boot, threads, current, saved>>
    BY DEF HandlerReturns, pic, Runs, At
  <1>2. "eoi" \in PlacesIn(Top.code)
    BY <1>1 DEF PlacesIn, Places
  <1>3. /\ WellStacked(cpu') /\ cpu'[1].code = cpu[1].code
        /\ Top'.code = Top.code /\ Top'.at = "eoi"
        /\ Top'.iflag = Top.iflag /\ Top'.vector = Top.vector
    BY <1>1, <1>2, GoToKeeps DEF IInv
  <1>4. TypeOK' /\ ThreadsAreKept' /\ LoadedByPlace'
    <2>1. flag' \in BOOLEAN /\ irr' \subseteq Irqs /\ inService' \subseteq Irqs
      BY <1>1 DEF IInv, TypeOK
    <2> QED
      BY <1>1, <1>3, <2>1, FrameKeeps
  <1>5. BootUntilStart'
    BY <1>1, <1>3 DEF IInv, BootUntilStart, Starting, Runs, At
  <1>6. MaskedSections'
    BY <1>1, <1>3, TopHolds DEF IInv, MaskedSections, Runs, At
  <1>7. MaskedCode' /\ Vectors'
    BY <1>1, <1>3 DEF IInv, MaskedCode, Vectors, Runs, At
  <1> QED
    BY <1>3, <1>4, <1>5, <1>6, <1>7 DEF IInv

LEMMA SchedulesKeeps ==
    ASSUME IInv, Schedules
    PROVE  IInv'
  <1>1. /\ Top.code = "irq" /\ Top.at = "run" /\ threads > 0 /\ GoTo("start")
        /\ saved' = IF current = 0 THEN saved ELSE [saved EXCEPT ![current] = Front(cpu)]
        /\ current' = GetNextThreadTid
        /\ UNCHANGED <<flag, irr, inService, base, debug, boot, threads>>
    BY DEF Schedules, Switches, pic, Runs, At
  <1>2. "start" \in PlacesIn(Top.code)
    BY <1>1 DEF PlacesIn, Places
  <1>3. /\ WellStacked(cpu') /\ cpu'[1].code = cpu[1].code
        /\ Top'.code = "irq" /\ Top'.at = "start"
        /\ Top'.iflag = Top.iflag /\ Top'.vector = Top.vector
    BY <1>1, <1>2, GoToKeeps DEF IInv
  <1>4. boot \in 1..26 /\ boot \notin Masked /\ boot \notin Loading
    BY <1>1, TopHolds DEF IInv, MaskedSections, Runs
  <1>5. boot = 26
    <2>1. threads # 0
      BY <1>1 DEF IInv, TypeOK
    <2>2. ~(boot < 23)
      BY <2>1, PlacesAreNumbered DEF IInv, LoadedByPlace
    <2> QED
      BY <1>4, <2>2, SectionsAreNumbered
  <1>6. current' \in 1..threads /\ threads \in 0..NThreads
    BY <1>1, NThreadsAssumption DEF IInv, TypeOK, GetNextThreadTid
  <1>7. ThreadsAreKept'
    <2>1. CASE current = 0
      BY <1>1, <2>1 DEF IInv, ThreadsAreKept
    <2>2. CASE current # 0
      <3> DEFINE s == Front(cpu)
      <3>1. cpu[1].code = "user"
        BY <1>1, <2>2 DEF IInv, BootUntilStart, Starting, Runs, At
      <3>2. 1 < Len(cpu)
        BY <1>1, StackHolds DEF IInv, Top
      <3>3. /\ WellStacked(s) /\ s[1].code = "user"
            /\ s[Len(s)].code \notin Handlers /\ s[Len(s)].at # "reading"
        BY <3>1, <3>2, FrontKeeps DEF IInv
      <3>4. saved' = [saved EXCEPT ![current] = s]
        BY <1>1, <2>2
      <3> HIDE DEF s
      <3>5. ASSUME NEW t \in 1..NThreads
            PROVE  saved'[t] = s \/ saved'[t] = saved[t]
        BY <3>4
      <3> QED
        BY <3>3, <3>5 DEF IInv, ThreadsAreKept
    <2> QED
      BY <2>1, <2>2
  <1>8. TypeOK'
    <2>1. \A t \in 1..NThreads : saved'[t] # <<>> /\ saved'[t] \in Seq(Activations)
      BY <1>7 DEF ThreadsAreKept, WellStacked
    <2>2. cpu' # <<>> /\ cpu' \in Seq(Activations)
      BY <1>3 DEF WellStacked
    <2>3. current' \in 0..threads'
      BY <1>1, <1>6
    <2> QED
      BY <1>1, <2>1, <2>2, <2>3 DEF IInv, TypeOK
  <1>9. BootUntilStart'
    <2>1. current' # 0 /\ boot' = PlaceOf("loop")
      BY <1>1, <1>5, <1>6, PlacesAreNumbered
    <2> QED
      BY <1>3, <2>1 DEF BootUntilStart, Starting, Runs, At
  <1>10. LoadedByPlace' /\ MaskedSections'
    BY <1>1, <1>4 DEF IInv, LoadedByPlace, MaskedSections
  <1>11. MaskedCode' /\ Vectors'
    BY <1>1, <1>3 DEF IInv, MaskedCode, Vectors, Runs, At
  <1> QED
    BY <1>3, <1>7, <1>8, <1>9, <1>10, <1>11 DEF IInv

LEMMA StartProcessKeeps ==
    ASSUME IInv, StartProcess
    PROVE  IInv'
  <1>1. /\ Top.at = "start" /\ GoTo("resume")
        /\ inService' = Ended(inService)
        /\ UNCHANGED <<flag, irr, base, debug, boot, threads, current, saved>>
    BY DEF StartProcess, AfterStart, At
  <1>2. Top.code = "irq" /\ "resume" \in PlacesIn(Top.code)
    BY <1>1, TopHolds DEF PlacesIn, Places
  <1>3. /\ WellStacked(cpu') /\ cpu'[1].code = cpu[1].code
        /\ Top'.code = "irq" /\ Top'.at = "resume"
        /\ Top'.iflag = Top.iflag /\ Top'.vector = Top.vector
    BY <1>1, <1>2, GoToKeeps DEF IInv
  <1>4. inService' = {}
    BY <1>1, <1>2 DEF IInv, Vectors, Ended, Highest, Runs, At
  <1>5. TypeOK' /\ ThreadsAreKept' /\ LoadedByPlace'
    <2>1. flag' \in BOOLEAN /\ irr' \subseteq Irqs /\ inService' \subseteq Irqs
      BY <1>1, <1>4 DEF IInv, TypeOK
    <2> QED
      BY <1>1, <1>3, <2>1, FrameKeeps
  <1>6. BootUntilStart'
    BY <1>1, <1>2, <1>3 DEF IInv, BootUntilStart, Starting, Runs, At
  <1>7. MaskedSections'
    BY <1>1, <1>2 DEF IInv, MaskedSections, Runs
  <1>8. MaskedCode' /\ Vectors'
    BY <1>1, <1>2, <1>3, <1>4 DEF IInv, MaskedCode, Vectors, Runs, At
  <1> QED
    BY <1>3, <1>5, <1>6, <1>7, <1>8 DEF IInv

LEMMA ResumeKeeps ==
    ASSUME IInv, Resume
    PROVE  IInv'
  <1>1. /\ Top.at = "resume" /\ cpu' = saved[current] /\ flag' = TRUE
        /\ UNCHANGED <<irr, inService, base, debug, boot, threads, current, saved>>
    BY DEF Resume, pic, At
  <1>2. Top.code = "irq" /\ inService = {}
    <2>1. Top.code = "irq"
      BY <1>1, TopHolds DEF PlacesIn
    <2> QED
      BY <1>1, <2>1 DEF IInv, Vectors
  <1>3. current # 0 /\ current \in 1..NThreads /\ boot = 26
    <2>1. current # 0 /\ boot = 26
      BY <1>1, <1>2, PlacesAreNumbered DEF IInv, BootUntilStart, Starting, Runs, At
    <2>2. current \in 0..threads /\ threads \in 0..NThreads
      BY DEF IInv, TypeOK
    <2> QED
      BY <2>1, <2>2, NThreadsAssumption
  <1>4. /\ WellStacked(cpu') /\ cpu'[1].code = "user"
        /\ Top'.code \notin Handlers /\ Top'.at # "reading"
    BY <1>1, <1>3 DEF IInv, ThreadsAreKept, Top
  <1>5. TypeOK' /\ ThreadsAreKept' /\ LoadedByPlace'
    <2>1. flag' \in BOOLEAN /\ irr' \subseteq Irqs /\ inService' \subseteq Irqs
      BY <1>1 DEF IInv, TypeOK
    <2> QED
      BY <1>1, <1>4, <2>1, FrameKeeps
  <1>6. BootUntilStart'
    BY <1>1, <1>3, <1>4, PlacesAreNumbered DEF BootUntilStart, Starting, Runs, Handlers
  <1>7. MaskedSections'
    BY <1>1, <1>3, SectionsAreNumbered DEF MaskedSections
  <1>8. MaskedCode' /\ Vectors'
    BY <1>1, <1>2, <1>4 DEF IInv, MaskedCode, Vectors, Runs, At, Handlers
  <1> QED
    BY <1>4, <1>5, <1>6, <1>7, <1>8 DEF IInv

LEMMA SystemCallKeeps ==
    ASSUME IInv, NEW code \in {"call", "wait"}, SystemCall(code)
    PROVE  IInv'
  <1> DEFINE a == Activation(code, "run", flag, 48)
  <1>1. /\ Top.code = "user" /\ Top.at = "run" /\ Push(a)
        /\ UNCHANGED <<flag, irr, inService, base, debug, boot, threads, current, saved>>
    BY TopHolds DEF SystemCall, pic, Runs, PlacesIn
  <1>2. a \in Activations /\ a.code = code /\ a.at = "run"
    BY DEF IInv, TypeOK, Activation, Activations, Codes, Places
  <1> HIDE DEF a
  <1>3. cpu[1].code = "user" /\ boot = 26 /\ current # 0
    BY <1>1, TopHolds, PlacesAreNumbered DEF IInv, BootUntilStart
  <1>4. WellStacked(cpu') /\ cpu'[1].code = "user" /\ Top' = a
    <2>1. a.at \in PlacesIn(a.code)
      BY <1>2 DEF PlacesIn, Places
    <2> QED
      BY <1>1, <1>2, <1>3, <2>1, PushHolds DEF IInv, Handlers
  <1>5. TypeOK' /\ ThreadsAreKept' /\ LoadedByPlace'
    <2>1. flag' \in BOOLEAN /\ irr' \subseteq Irqs /\ inService' \subseteq Irqs
      BY <1>1 DEF IInv, TypeOK
    <2> QED
      BY <1>1, <1>4, <2>1, FrameKeeps
  <1>6. BootUntilStart'
    BY <1>1, <1>2, <1>3, <1>4, PlacesAreNumbered DEF BootUntilStart, Starting, Runs
  <1>7. MaskedSections'
    BY <1>1, <1>3, SectionsAreNumbered DEF MaskedSections
  <1>8. MaskedCode' /\ Vectors'
    BY <1>1, <1>2, <1>4 DEF IInv, MaskedCode, Vectors, Runs, At, Handlers
  <1> QED
    BY <1>4, <1>5, <1>6, <1>7, <1>8 DEF IInv

LEMMA CallReturnsKeeps ==
    ASSUME IInv, NEW code \in {"call", "wait"}, CallReturns(code)
    PROVE  IInv'
  <1>1. /\ Top.code = code /\ Top.at = "run" /\ GoTo("eoi")
        /\ UNCHANGED <<flag, irr, inService, base, debug, boot, threads, current, saved>>
    BY DEF CallReturns, pic, Runs, At
  <1>2. "eoi" \in PlacesIn(Top.code)
    BY <1>1 DEF PlacesIn, Places
  <1>3. /\ WellStacked(cpu') /\ cpu'[1].code = cpu[1].code
        /\ Top'.code = Top.code /\ Top'.at = "eoi"
    BY <1>1, <1>2, GoToKeeps DEF IInv
  <1>4. TypeOK' /\ ThreadsAreKept' /\ LoadedByPlace'
    <2>1. flag' \in BOOLEAN /\ irr' \subseteq Irqs /\ inService' \subseteq Irqs
      BY <1>1 DEF IInv, TypeOK
    <2> QED
      BY <1>1, <1>3, <2>1, FrameKeeps
  <1>5. BootUntilStart' /\ MaskedSections' /\ MaskedCode' /\ Vectors'
    BY <1>1, <1>3 DEF IInv, BootUntilStart, MaskedSections, MaskedCode, Vectors,
       Starting, Runs, At, Handlers
  <1> QED
    BY <1>3, <1>4, <1>5 DEF IInv

LEMMA FaultKeeps ==
    ASSUME IInv, Fault
    PROVE  IInv'
  <1> DEFINE a == Activation("fault", "run", flag, 14)
  <1>1. /\ Top.code \in {"user", "call", "wait"} /\ Top.at = "run" /\ Push(a) /\ flag' = FALSE
        /\ UNCHANGED <<irr, inService, base, debug, boot, threads, current, saved>>
    BY DEF Fault, pic, At
  <1>2. a \in Activations /\ a.code = "fault" /\ a.at = "run"
    BY DEF IInv, TypeOK, Activation, Activations, Codes, Places
  <1> HIDE DEF a
  <1>3. cpu[1].code = "user" /\ boot = 26 /\ current # 0
    BY <1>1, TopHolds, PlacesAreNumbered DEF IInv, BootUntilStart
  <1>4. WellStacked(cpu') /\ cpu'[1].code = "user" /\ Top' = a
    <2>1. a.at \in PlacesIn(a.code)
      BY <1>2 DEF PlacesIn, Places
    <2> QED
      BY <1>1, <1>2, <1>3, <2>1, PushHolds DEF IInv, Handlers
  <1>5. TypeOK' /\ ThreadsAreKept' /\ LoadedByPlace'
    <2>1. flag' \in BOOLEAN /\ irr' \subseteq Irqs /\ inService' \subseteq Irqs
      BY <1>1 DEF IInv, TypeOK
    <2> QED
      BY <1>1, <1>4, <2>1, FrameKeeps
  <1>6. BootUntilStart'
    BY <1>1, <1>2, <1>3, <1>4, PlacesAreNumbered DEF BootUntilStart, Starting, Runs
  <1>7. MaskedSections'
    BY <1>1, <1>3, SectionsAreNumbered DEF MaskedSections
  <1>8. MaskedCode' /\ Vectors'
    BY <1>1, <1>2, <1>4 DEF IInv, MaskedCode, Vectors, Runs, At, Handlers
  <1> QED
    BY <1>4, <1>5, <1>6, <1>7, <1>8 DEF IInv

-----------------------------------------------------------------------------
(* AtaRead.                                                                *)

\* Who reads is the boot code outside its masked sections, or a system call.
LEMMA ReaderHolds ==
    ASSUME IInv, Reader \/ At("reading")
    PROVE  /\ Top.code \in {"boot", "call"}
           /\ boot \notin Masked \cup Loading
  <1>1. Top.code \in {"boot", "call"}
    BY TopHolds DEF Reader, At, Runs, PlacesIn
  <1>2. CASE Top.code = "call"
    <2>1. cpu[1].code = "user"
      BY <1>2, TopHolds
    <2>2. boot = 26
      BY <1>2, <2>1, PlacesAreNumbered DEF IInv, BootUntilStart, Starting, Runs
    <2> QED
      BY <1>1, <2>2, SectionsAreNumbered
  <1>3. CASE Top.code = "boot"
    <2>1. CASE Reader
      <3>1. boot \in {19, 21}
        BY <1>3, <2>1, PlacesAreNumbered DEF Reader, Runs
      <3> QED
        BY <1>1, <3>1, SectionsAreNumbered
    <2>2. CASE At("reading")
      BY <1>1, <1>3, <2>2 DEF IInv, MaskedSections, At, Runs
    <2> QED
      BY <2>1, <2>2
  <1> QED
    BY <1>1, <1>2, <1>3

LEMMA ReadKeeps ==
    ASSUME IInv, ReadBegins \/ ReadEnds \/ ReadFails
    PROVE  IInv'
  <1>1. /\ Top.code \in {"boot", "call"} /\ boot \notin Masked /\ boot \notin Loading
        /\ UNCHANGED <<irr, inService, base, debug, boot, threads, current, saved>>
        /\ flag' \in BOOLEAN
    BY ReaderHolds DEF ReadBegins, ReadEnds, ReadFails, At, pic, IInv, TypeOK
  <1>2. PICK at \in {"run", "reading"} : GoTo(at) /\ (at = "reading" => flag' = FALSE)
    BY DEF ReadBegins, ReadEnds, ReadFails
  <1>3. at \in PlacesIn(Top.code)
    BY <1>1 DEF PlacesIn, Places
  <1>4. /\ WellStacked(cpu') /\ cpu'[1].code = cpu[1].code
        /\ Top'.code = Top.code /\ Top'.at = at
    BY <1>3, <1>2, GoToKeeps DEF IInv
  <1>5. TypeOK' /\ ThreadsAreKept' /\ LoadedByPlace'
    <2>1. irr' \subseteq Irqs /\ inService' \subseteq Irqs
      BY <1>1 DEF IInv, TypeOK
    <2> QED
      BY <1>1, <1>4, <2>1, FrameKeeps
  <1>6. BootUntilStart'
    BY <1>1, <1>4 DEF IInv, BootUntilStart, Starting, Runs
  <1>7. MaskedSections'
    BY <1>1 DEF MaskedSections
  <1>8. MaskedCode'
    BY <1>1, <1>2, <1>4 DEF MaskedCode, At, Handlers
  <1>9. Vectors'
    BY <1>1, <1>4 DEF IInv, Vectors, Runs
  <1> QED
    BY <1>4, <1>5, <1>6, <1>7, <1>8, <1>9 DEF IInv

-----------------------------------------------------------------------------
(* KernelInit.                                                             *)

LEMMA NextPlaceHolds ==
    ASSUME boot \in 1..25, debug \in BOOLEAN
    PROVE  NextPlace = IF boot = 10 /\ ~debug THEN 18 ELSE boot + 1
  BY PlacesAreNumbered DEF NextPlace

\* While KernelInit goes on nothing else is there.
LEMMA BootingHolds ==
    ASSUME IInv, Booting
    PROVE  /\ Top.code = "boot" /\ Top.at = "run" /\ cpu[1].code = "boot"
           /\ current = 0 /\ inService = {}
           /\ boot \in 1..26 /\ debug \in BOOLEAN
           /\ boot \in 1..10 \cup 13..15 \cup 23..25 => ~flag
           /\ base = IF boot > 3 THEN 32 ELSE 8
           /\ boot < 23 => threads = 0
           /\ boot = 23 => threads < NThreads
  <1>1. Top.code = "boot" /\ Top.at = "run" /\ cpu[1].code = "boot"
    BY TopHolds DEF Booting, Runs, At
  <1>2. current = 0
    BY <1>1 DEF IInv, BootUntilStart, Starting, Runs
  <1>3. inService = {} /\ base = IF boot > 3 THEN 32 ELSE 8
    BY <1>1, PlacesAreNumbered DEF IInv, Vectors, Runs
  <1>4. boot \in 1..10 \cup 13..15 \cup 23..25 => ~flag
    BY SectionsAreNumbered DEF IInv, MaskedSections
  <1>5. (boot < 23 => threads = 0) /\ (boot = 23 => threads < NThreads)
    BY PlacesAreNumbered DEF IInv, LoadedByPlace
  <1> QED
    BY <1>1, <1>2, <1>3, <1>4, <1>5, TopHolds DEF IInv, TypeOK

\* A step of KernelInit, whose parts are then places, flag and threads.
LEMMA BootKeeps ==
    ASSUME IInv, Booting, UNCHANGED <<debug, cpu, current, saved>>,
           boot' \in 1..26, flag' \in BOOLEAN, irr' \subseteq Irqs, inService' = {},
           boot' \in 1..10 \cup 13..15 \cup 23..25 => ~flag',
           base' = IF boot' > 3 THEN 32 ELSE 8,
           threads' \in 0..NThreads,
           boot' < 23 => threads' = 0,
           boot' = 23 => threads' < NThreads
    PROVE  IInv'
  <1>1. Top.code = "boot" /\ Top.at = "run" /\ cpu[1].code = "boot" /\ current = 0
    BY BootingHolds
  <1>2. Top' = Top
    BY DEF Top
  <1>3. TypeOK'
    BY <1>1, BootIsNumbered, NThreadsAssumption DEF IInv, TypeOK
  <1>4. WellStacked(cpu') /\ ThreadsAreKept'
    BY DEF IInv, ThreadsAreKept
  <1>5. BootUntilStart'
    BY <1>1, <1>2 DEF BootUntilStart, Starting, Runs
  <1>6. LoadedByPlace'
    BY PlacesAreNumbered DEF LoadedByPlace
  <1>7. MaskedSections'
    BY <1>1, <1>2, SectionsAreNumbered DEF MaskedSections, Runs, At
  <1>8. MaskedCode' /\ Vectors'
    BY <1>1, <1>2, PlacesAreNumbered DEF MaskedCode, Vectors, Runs, At, Handlers
  <1> QED
    BY <1>3, <1>4, <1>5, <1>6, <1>7, <1>8 DEF IInv

LEMMA InitialisesKeeps ==
    ASSUME IInv, Initialises
    PROVE  IInv'
  <1>1. Booting /\ boot \in 1..26 \ {3, 10, 12, 15, 17, 22, 23, 24, 25, 26}
    BY TopHolds, BootIsNumbered DEF Initialises, Step
  <1>2. boot' = boot + 1 /\ boot' \in 1..26
    BY <1>1, BootingHolds, NextPlaceHolds DEF Initialises
  <1>3. UNCHANGED <<flag, irr, inService, base, debug, cpu, threads, current, saved>>
    BY DEF Initialises, pic
  <1>4. flag \in BOOLEAN /\ irr \subseteq Irqs /\ threads \in 0..NThreads
    BY DEF IInv, TypeOK
  <1>5. /\ boot' \in 1..10 \cup 13..15 \cup 23..25 => ~flag'
        /\ base' = IF boot' > 3 THEN 32 ELSE 8
        /\ boot' < 23 => threads' = 0
        /\ boot' # 23
        /\ inService' = {}
    BY <1>1, <1>2, <1>3, BootingHolds
  <1> QED
    BY <1>1, <1>2, <1>3, <1>4, <1>5, BootKeeps

LEMMA PicInitKeeps ==
    ASSUME IInv, PicInit
    PROVE  IInv'
  <1>1. Booting /\ boot = 3
    BY TopHolds, BootIsNumbered DEF PicInit, Step
  <1>2. boot' = 4
    BY <1>1, BootingHolds, NextPlaceHolds DEF PicInit
  <1>3. /\ UNCHANGED <<flag, debug, cpu, threads, current, saved>>
        /\ irr' = {} /\ inService' = {} /\ base' = 32
    BY DEF PicInit
  <1>4. flag \in BOOLEAN /\ ~flag /\ threads = 0
    BY <1>1, BootingHolds DEF IInv, TypeOK
  <1> QED
    BY <1>1, <1>2, <1>3, <1>4, BootKeeps, NThreadsAssumption

LEMMA MasksKeeps ==
    ASSUME IInv, Masks
    PROVE  IInv'
  <1>1. /\ Booting /\ boot \in 1..26 /\ Boot[boot] \in {"cli", "sti"}
        /\ boot' = NextPlace /\ flag' = (Boot[boot] = "sti")
        /\ UNCHANGED <<irr, inService, base, debug, cpu, threads, current, saved>>
    BY TopHolds DEF Masks, Step, pic
  <1>2. boot \in {10, 12, 15, 22, 25}
    BY <1>1, BootIsNumbered
  <1>3. boot' = IF boot = 10 /\ ~debug THEN 18 ELSE boot + 1
    BY <1>1, <1>2, BootingHolds, NextPlaceHolds
  <1>4. /\ boot' \in {11, 13, 16, 18, 23, 26}
        /\ boot' \in {13, 23} => boot \in {12, 22}
        /\ boot' = 26 => boot = 25
    BY <1>2, <1>3
  <1>5. boot \in {12, 22} => ~flag'
    BY <1>1, BootIsNumbered
  <1>6. irr \subseteq Irqs /\ threads \in 0..NThreads /\ flag' \in BOOLEAN
    BY <1>1 DEF IInv, TypeOK
  <1>7. /\ base' = 32 /\ inService' = {}
        /\ boot' < 26 => threads = 0
    BY <1>1, <1>2, <1>3, BootingHolds
  <1> QED
    BY <1>1, <1>4, <1>5, <1>6, <1>7, BootKeeps, NThreadsAssumption

LEMMA NoProgramKeeps ==
    ASSUME IInv, NoProgram
    PROVE  IInv'
  <1>1. /\ Booting
        /\ (boot = 21 /\ boot' = 26) \/ (boot = 23 /\ boot' = 25)
        /\ UNCHANGED <<flag, irr, inService, base, debug, cpu, threads, current, saved>>
    <2>1. boot \in 1..26 /\ Len(Boot) = 26
      BY TopHolds, BootIsNumbered
    <2>2. (Boot[boot] = "open" => boot = 21) /\ (Boot[boot] = "load" => boot = 23)
      BY <2>1, BootIsNumbered
    <2> QED
      BY <2>1, <2>2 DEF NoProgram, Step, pic
  <1>2. irr \subseteq Irqs /\ threads \in 0..NThreads /\ flag \in BOOLEAN
    BY DEF IInv, TypeOK
  <1>3. base' = 32 /\ inService' = {} /\ (boot' = 25 => ~flag)
    BY <1>1, BootingHolds
  <1> QED
    BY <1>1, <1>2, <1>3, BootKeeps

LEMMA LoadKeeps ==
    ASSUME IInv, LoadBegins \/ LoadEnds
    PROVE  IInv'
  <1>1. Booting /\ UNCHANGED <<flag, irr, inService, base, debug, cpu, current, saved>>
    BY DEF LoadBegins, LoadEnds, pic
  <1>2. boot \in {23, 24} /\ threads \in 0..NThreads /\ threads' \in 0..NThreads
        /\ boot' \in {23, 24, 25} /\ (boot' = 23 => threads' < NThreads)
    <2>1. CASE LoadBegins
      <3>1. boot = 23 /\ threads' = threads + 1
        BY <2>1, TopHolds, BootIsNumbered DEF LoadBegins, Step
      <3>2. boot' = 24
        BY <2>1, <3>1, BootingHolds, NextPlaceHolds DEF LoadBegins
      <3> QED
        BY <1>1, <3>1, <3>2, BootingHolds, NThreadsAssumption DEF IInv, TypeOK
    <2>2. CASE LoadEnds
      <3>1. boot = 24 /\ threads' = threads
        BY <2>2, TopHolds, BootIsNumbered DEF LoadEnds, Step
      <3>2. boot' = IF threads < NThreads THEN 23 ELSE 25
        BY <2>2, <3>1, BootingHolds, NextPlaceHolds, PlacesAreNumbered DEF LoadEnds
      <3> QED
        BY <3>1, <3>2 DEF IInv, TypeOK
    <2> QED
      BY <2>1, <2>2
  <1>3. ~flag /\ flag \in BOOLEAN /\ irr \subseteq Irqs /\ base = 32 /\ inService = {}
    BY <1>1, <1>2, BootingHolds DEF IInv, TypeOK
  <1> QED
    BY <1>1, <1>2, <1>3, BootKeeps

LEMMA BreakpointKeeps ==
    ASSUME IInv, Breakpoint
    PROVE  IInv'
  <1> DEFINE v == IF Step = "breakpoint" THEN 3 ELSE 1
             a == Activation("debug", "eoi", flag, v)
  <1>1. /\ Booting /\ Push(a) /\ flag' = FALSE
        /\ boot = 17 \/ boot >= 18
        /\ boot' = IF boot = 17 THEN NextPlace ELSE boot
        /\ UNCHANGED <<irr, inService, base, debug, threads, current, saved>>
    BY TopHolds, BootIsNumbered, PlacesAreNumbered DEF Breakpoint, Step, pic
  <1>2. /\ a \in Activations /\ a.code = "debug" /\ a.at = "eoi" /\ a.iflag = flag
    BY DEF IInv, TypeOK, Activation, Activations, Codes, Places
  <1> HIDE DEF v, a
  <1>3. /\ boot \in 17..26 /\ boot' \in 18..26
        /\ boot' = boot \/ (boot = 17 /\ boot' = 18)
    <2>1. boot \in 17..26 /\ debug \in BOOLEAN
      BY <1>1, BootingHolds
    <2>2. boot = 17 => NextPlace = 18
      BY <2>1, NextPlaceHolds
    <2> QED
      BY <1>1, <2>1, <2>2
  <1>4. WellStacked(cpu') /\ cpu'[1].code = "boot" /\ Top' = a
    <2>1. a.at \in PlacesIn(a.code)
      BY <1>2 DEF PlacesIn, Places
    <2> QED
      BY <1>1, <1>2, <2>1, BootingHolds, PushHolds DEF IInv, Handlers
  <1>5. ThreadsAreKept'
    BY <1>1 DEF IInv, ThreadsAreKept
  <1>6. TypeOK'
    <2>1. cpu' # <<>> /\ cpu' \in Seq(Activations) /\ boot' \in DOMAIN Boot
      BY <1>3, <1>4, BootIsNumbered DEF WellStacked
    <2> QED
      BY <1>1, <2>1 DEF IInv, TypeOK
  <1>7. BootUntilStart'
    BY <1>1, <1>2, <1>4, BootingHolds DEF BootUntilStart, Starting, Runs
  <1>8. LoadedByPlace'
    BY <1>1, <1>3, PlacesAreNumbered DEF IInv, LoadedByPlace
  <1>9. MaskedSections'
    <2>1. boot' \notin Masked
      BY <1>3, SectionsAreNumbered
    <2>2. boot' \in Loading => ~flag
      BY <1>1, <1>3, SectionsAreNumbered, BootingHolds
    <2> QED
      BY <1>1, <1>2, <1>4, <2>1, <2>2 DEF MaskedSections, Runs
  <1>10. MaskedCode'
    BY <1>1, <1>2, <1>4 DEF MaskedCode, At
  <1>11. Vectors'
    BY <1>1, <1>2, <1>3, <1>4, BootingHolds, PlacesAreNumbered DEF Vectors, Runs
  <1> QED
    BY <1>4, <1>5, <1>6, <1>7, <1>8, <1>9, <1>10, <1>11 DEF IInv

-----------------------------------------------------------------------------
(* The invariant.                                                          *)

\* kmain starts with the interrupts masked and nothing initialised.
LEMMA InitIInv == Init => IInv
  <1> SUFFICES ASSUME Init PROVE IInv
    OBVIOUS
  <1> DEFINE a == Activation("boot", "run", FALSE, 0)
             u == Activation("user", "run", TRUE, 0)
  <1>1. a \in Activations /\ a.code = "boot" /\ a.at = "run"
    BY DEF Activation, Activations, Codes, Places
  <1>2. u \in Activations /\ u.code = "user" /\ u.at = "run"
    BY DEF Activation, Activations, Codes, Places
  <1>3. cpu = <<a>> /\ \A t \in 1..NThreads : saved[t] = <<u>>
    BY DEF Init, NewThread
  <1> HIDE DEF a, u
  <1>4. ASSUME NEW b \in Activations, b.code \in {"boot", "user"}, b.at = "run"
        PROVE  WellStacked(<<b>>)
    BY <1>4 DEF WellStacked, PlacesIn, Places, Handlers
  <1>5. WellStacked(cpu) /\ \A t \in 1..NThreads : WellStacked(saved[t])
    BY <1>1, <1>2, <1>3, <1>4
  <1>6. Top = a /\ cpu[1] = a
    BY <1>3 DEF Top
  <1>7. ThreadsAreKept
    <2>1. \A t \in 1..NThreads : saved[t][1] = u /\ saved[t][Len(saved[t])] = u
      BY <1>3
    <2> QED
      BY <1>2, <1>5, <2>1 DEF ThreadsAreKept, Handlers
  <1>8. TypeOK
    <2>1. cpu # <<>> /\ cpu \in Seq(Activations)
      BY <1>5 DEF WellStacked
    <2>2. \A t \in 1..NThreads : saved[t] # <<>> /\ saved[t] \in Seq(Activations)
      BY <1>5 DEF WellStacked
    <2>3. boot \in DOMAIN Boot
      BY BootIsNumbered DEF Init, FirstStep
    <2>4. threads \in 0..NThreads /\ current \in 0..threads
      BY NThreadsAssumption DEF Init
    <2> QED
      BY <2>1, <2>2, <2>3, <2>4 DEF Init, TypeOK
  <1>9. BootUntilStart /\ LoadedByPlace
    <2>1. boot = 1 /\ threads = 0 /\ current = 0
      BY DEF Init, FirstStep
    <2>2. LoadedByPlace
      BY <2>1, PlacesAreNumbered DEF LoadedByPlace
    <2>3. BootUntilStart
      BY <1>1, <1>6, <2>1 DEF BootUntilStart, Starting, Runs
    <2> QED
      BY <2>2, <2>3
  <1>10. MaskedSections /\ MaskedCode /\ Vectors
    BY <1>1, <1>6, PlacesAreNumbered, SectionsAreNumbered
    DEF Init, FirstStep, MaskedSections, MaskedCode, Vectors, Runs, At, Handlers
  <1> QED
    BY <1>5, <1>7, <1>8, <1>9, <1>10 DEF IInv

LEMMA StepKeeps == IInv /\ [Next]_vars => IInv'
  <1> SUFFICES ASSUME IInv, [Next]_vars PROVE IInv'
    OBVIOUS
  <1>1. CASE UNCHANGED vars
    BY <1>1 DEF vars, pic, IInv, TypeOK, ThreadsAreKept, BootUntilStart, LoadedByPlace,
       MaskedSections, MaskedCode, Vectors, Starting, Runs, At, Top
  <1>2. CASE \E i \in Irqs : Raise(i)
    BY <1>2, RaiseKeeps
  <1>3. CASE Kernel
    <2>1. CASE Deliver \/ Eoi \/ Iret
      BY <2>1, DeliverKeeps, EoiKeeps, IretKeeps
    <2>2. CASE HandlerReturns \/ Schedules \/ StartProcess \/ Resume
      BY <2>2, HandlerReturnsKeeps, SchedulesKeeps, StartProcessKeeps, ResumeKeeps
    <2>3. CASE CallReturns("call") \/ ReadEnds \/ ReadFails
      BY <2>3, CallReturnsKeeps, ReadKeeps
    <2>4. CASE BootGoesOn
      BY <2>4, InitialisesKeeps, PicInitKeeps, MasksKeeps, LoadKeeps DEF BootGoesOn
    <2> QED
      BY <1>3, <2>1, <2>2, <2>3, <2>4 DEF Kernel
  <1>4. CASE (\E code \in {"call", "wait"} : SystemCall(code)) \/ CallReturns("wait") \/ Fault
    BY <1>4, SystemCallKeeps, CallReturnsKeeps, FaultKeeps
  <1>5. CASE ReadBegins \/ Breakpoint \/ NoProgram
    BY <1>5, ReadKeeps, BreakpointKeeps, NoProgramKeeps
  <1> QED
    BY <1>1, <1>2, <1>3, <1>4, <1>5 DEF Next

LEMMA Invariance == Spec => []IInv
  BY InitIInv, StepKeeps, PTL DEF Spec

\* Every variable has a value of its type.
THEOREM TypeCorrect == Spec => []TypeOK
  <1>1. IInv => TypeOK
    BY DEF IInv
  <1> QED
    BY <1>1, Invariance, PTL

\* One handler of a hardware interrupt at a time, each acknowledged by its own
\* end or by the start of a thread, and nothing else is taken for it
\* (int.asm:121-144, process_starter.asm:83-87).
THEOREM OneHandlerAtATime == Spec => []HandlersDoNotNest
  <1>1. IInv => HandlersDoNotNest
    <2> SUFFICES ASSUME IInv PROVE HandlersDoNotNest
      OBVIOUS
    <2>1. \A k \in 1..(Len(cpu) - 1) : cpu[k].code \notin Handlers
      BY DEF IInv, WellStacked
    <2>2. ASSUME NEW t \in 1..threads, NEW k \in DOMAIN saved[t]
          PROVE  saved[t][k].code \in {"user", "call", "wait"}
      <3>1. t \in 1..NThreads
        BY NThreadsAssumption DEF IInv, TypeOK
      <3> DEFINE s == saved[t]
      <3>2. /\ WellStacked(s) /\ s[1].code = "user"
            /\ s[Len(s)].code \notin Handlers
        BY <3>1 DEF IInv, ThreadsAreKept
      <3> HIDE DEF s
      <3>3. Len(s) \in Nat /\ DOMAIN s = 1..Len(s) /\ \A j \in 1..Len(s) : s[j].code \in Codes
        BY <3>2, StackHolds
      <3>4. \A j \in 1..Len(s) : s[j].code \notin Handlers \cup {"boot"}
        BY <3>2, <3>3 DEF WellStacked, Handlers
      <3>5. \A j \in DOMAIN s : s[j].code \in {"user", "call", "wait"}
        BY <3>3, <3>4 DEF Codes, Handlers
      <3> QED
        BY <3>5 DEF s
    <2> QED
      BY <2>1, <2>2 DEF IInv, HandlersDoNotNest, Vectors, MaskedCode, Handlers
  <1> QED
    BY <1>1, Invariance, PTL

\* Whatever interrupts KernelInit finds the vectors, tables and lists that its
\* handler uses (kernel.c:69-92, ltdbg.c:59-61).
THEOREM TablesAreThere == Spec => []HandlersFindTheirTables
  <1>1. IInv => HandlersFindTheirTables
    <2> SUFFICES ASSUME IInv PROVE HandlersFindTheirTables
      OBVIOUS
    <2>1. ASSUME Len(cpu) > 1
          PROVE  /\ \A step \in {"gdt", "pic", "idt", "vmm", "pm"} : boot > PlaceOf(step)
                 /\ Step # "reloaded"
      <3>1. Top.code \notin {"boot", "user"}
        BY <2>1, StackHolds DEF IInv, Top
      <3>2. boot \in 1..26 /\ boot \notin 1..10 \cup 13..15
        BY <3>1, TopHolds, SectionsAreNumbered DEF IInv, MaskedSections, Runs
      <3>3. Boot[boot] # "reloaded"
        BY <3>2, BootIsNumbered
      <3> QED
        BY <3>2, <3>3, PlacesAreNumbered DEF Step
    <2>2. ASSUME Runs("irq")
          PROVE  Top.vector \in 32..39
      <3>1. boot \in 1..26 /\ boot \notin 1..10 \cup 13..15
        BY <2>2, TopHolds, SectionsAreNumbered DEF IInv, MaskedSections, Runs
      <3>2. base = 32 /\ Top.vector - base \in Irqs /\ Top.vector \in 0..255
        BY <2>2, <3>1, TopHolds, PlacesAreNumbered DEF IInv, Vectors
      <3> QED
        BY <3>2, IrqsAssumption
    <2> QED
      BY <2>1, <2>2 DEF IInv, HandlersFindTheirTables, Vectors
  <1> QED
    BY <1>1, Invariance, PTL

\* Nothing comes between the first and the last step of LoadElf but a stop of
\* the debugger, which leaves the interrupts masked (kernel.c:142-158).
THEOREM LoadIsAtomic == Spec => []LoadingIsAtomic
  <1>1. IInv => LoadingIsAtomic
    <2> SUFFICES ASSUME IInv, Step = "loaded"
                 PROVE  (Runs("boot") \/ Runs("debug")) /\ ~flag
      BY DEF LoadingIsAtomic
    <2>1. boot = 24
      BY TopHolds, BootIsNumbered DEF Step
    <2>2. ~flag /\ ~Runs("irq")
      BY <2>1, SectionsAreNumbered DEF IInv, MaskedSections
    <2>3. cpu[1].code = "boot"
      BY <2>1, TopHolds, PlacesAreNumbered DEF IInv, BootUntilStart
    <2> QED
      BY <2>2, <2>3, TopHolds DEF Runs
  <1> QED
    BY <1>1, Invariance, PTL

-----------------------------------------------------------------------------
(* The context switch.                                                     *)

\* What a thread's saved context can be: that of a thread interrupted in its
\* program, with the user's data segment and, unless it has gone astray, on its user
\* stack, or that of a thread interrupted in the kernel.
SavedIn(t, context) ==
    context.cs = "user" => /\ context.ds = "user"
                           /\ t \notin astray => context.esp = UserStack(t)
SavedContexts == \A t \in Threads : SavedIn(t, regs[t])

\* While a thread is in its program, its data segment is the user's.
UserSegments == gCurrentThread # NULL /\ registers.cs = "user" => registers.ds = "user"

\* A thread in the kernel has its frame at the top of its kernel stack.
InKernel(t) == IF t = gCurrentThread THEN registers.cs = "kernel" ELSE regs[t].cs = "kernel"
FramesAreOwn ==
    \A t \in Threads \ astray : InKernel(t) => frame[KernelStack(t)] = UserStack(t)

\* Only who was switched away in the kernel is not on the stack that it entered on.
OnOwnStack ==
    /\ (/\ gCurrentThread # NULL /\ gCurrentThread \notin displaced \cup astray
        /\ registers.cs = "kernel") => registers.esp = gTss
    /\ \A t \in Threads : (t # gCurrentThread /\ regs[t].cs = "kernel") =>
                            t \in displaced \cup astray

\* Schedules forgets nothing: what it saved is what was interrupted.
RegsAreInterrupted == regs = interrupted

\* A context just loaded is the saved one but for ax and, in kernel mode, for
\* the stack and the data segment.
LoadedContext ==
    resumed => /\ gCurrentThread # NULL
               /\ registers.cs = regs[gCurrentThread].cs
               /\ registers.rest = regs[gCurrentThread].rest
               /\ registers.ax = EoiValue
               /\ registers.cs = "user" => registers = [regs[gCurrentThread] EXCEPT !.ax = EoiValue]

\* The inductive invariant.
SwitchIInv ==
    /\ SwitchTypeOK
    /\ TssFollowsThread
    /\ Cr3FollowsThread
    /\ SavedContexts
    /\ UserSegments
    /\ UserStackIsOwn
    /\ FramesAreOwn
    /\ OnOwnStack
    /\ RegsAreInterrupted
    /\ LoadedContext

-----------------------------------------------------------------------------
LEMMA NextThread ==
    ASSUME NEW t \in Threads
    PROVE  (t % NThreads) + 1 \in Threads
  BY NThreadsAssumption DEF Threads

LEMMA StacksType ==
    /\ KernelStack(0) \in KernelStacks
    /\ KernelStacks \subseteq Stacks
    /\ \A t \in Threads : UserStack(t) \in Stacks /\ KernelStack(t) \in KernelStacks
    /\ \A t, u \in Threads : KernelStack(t) = KernelStack(u) => t = u
  BY NThreadsAssumption DEF Stacks, KernelStacks, Modes, UserStack, KernelStack, Threads

LEMMA FirstContextType ==
    ASSUME NEW t \in Threads
    PROVE  FirstContext(t) \in Contexts
  BY ValuesAssumption, StacksType DEF FirstContext, Contexts, Modes

\* The invariant holds when KernelInit unmasks the interrupts.
LEMMA SwitchInitIInv == SwitchInit => SwitchIInv
  <1> SUFFICES ASSUME SwitchInit PROVE SwitchIInv
    OBVIOUS
  <1> USE DEF SwitchInit
  <1>1. SwitchTypeOK
    <2>1. registers \in Contexts /\ registers.esp \in KernelStacks
      BY ValuesAssumption, StacksType DEF Contexts, Modes
    <2>2. regs \in [Threads -> Contexts] /\ interrupted \in [Threads -> Contexts]
      BY FirstContextType
    <2>3. cr3 \in 0..NThreads /\ gTss \in KernelStacks /\ kstack \in [Threads -> KernelStacks]
      BY StacksType, NThreadsAssumption DEF PageDirectory
    <2>4. frame \in [KernelStacks -> Stacks] /\ displaced \subseteq Threads
          /\ astray \subseteq Threads
      BY StacksType
    <2>5. gCurrentThread \in Threads \cup {NULL} /\ resumed \in BOOLEAN
      OBVIOUS
    <2> QED
      BY <2>1, <2>2, <2>3, <2>4, <2>5 DEF SwitchTypeOK
  <1>2. TssFollowsThread /\ Cr3FollowsThread /\ UserSegments /\ UserStackIsOwn
    BY DEF TssFollowsThread, Cr3FollowsThread, UserSegments, UserStackIsOwn
  <1>3. SavedContexts
    BY DEF SavedContexts, SavedIn, FirstContext
  <1>4. RegsAreInterrupted /\ LoadedContext
    BY DEF RegsAreInterrupted, LoadedContext
  <1>5. \A t \in Threads : ~InKernel(t) /\ regs[t].cs = "user"
    BY NThreadsAssumption DEF InKernel, FirstContext, Threads, NULL
  <1>6. FramesAreOwn /\ OnOwnStack
    BY <1>5 DEF FramesAreOwn, OnOwnStack
  <1> QED
    BY <1>1, <1>2, <1>3, <1>4, <1>6 DEF SwitchIInv

\* What _start_process loads is a context.
LEMMA LoadedType ==
    ASSUME NEW context \in Contexts, NEW stack \in KernelStacks
    PROVE  /\ Loaded(context, stack) \in Contexts
           /\ context.cs = "kernel" => Loaded(context, stack).esp = stack
           /\ Loaded(context, stack).cs = context.cs
  BY ValuesAssumption, StacksType DEF Loaded, Contexts, Modes

\* PmStartThread, given registers and frames that satisfy the invariant.
LEMMA StartThread ==
    ASSUME SwitchIInv, NEW t \in Threads, NEW kept \in [Threads -> Contexts],
           PmStartThread(t, kept),
           regs' = kept, kstack' = kstack, interrupted' = kept, astray' = astray,
           displaced' \subseteq Threads, frame' \in [KernelStacks -> Stacks],
           \A u \in Threads : SavedIn(u, kept[u]),
           \A u \in Threads : kept[u].cs = "kernel" =>
                /\ u \in displaced' \cup astray
                /\ u \notin astray => frame'[KernelStack(u)] = UserStack(u)
    PROVE  SwitchIInv'
  <1> USE DEF SwitchIInv, PmStartThread
  <1> t # NULL
    BY NThreadsAssumption DEF Threads, NULL
  <1>0. registers' = Loaded(kept[t], InterruptStack) /\ InterruptStack \in KernelStacks
    <2>1. registers.cs \in Modes
      BY DEF SwitchTypeOK, Contexts
    <2> QED
      BY <2>1 DEF InterruptStack, SwitchTypeOK, Modes
  <1>1. SwitchTypeOK'
    <2>1. registers' \in Contexts /\ (registers'.cs = "kernel" => registers'.esp \in KernelStacks)
      BY <1>0, LoadedType
    <2>2. gTss' \in KernelStacks /\ cr3' \in 0..NThreads
      BY DEF TssAfterSwitch, Cr3AfterSwitch, PageDirectory, SwitchTypeOK, Threads
    <2> QED
      BY <2>1, <2>2 DEF SwitchTypeOK
  <1>2. TssFollowsThread'
    BY DEF TssFollowsThread, TssAfterSwitch
  <1>3. Cr3FollowsThread'
    BY DEF Cr3FollowsThread, Cr3AfterSwitch
  <1>4. SavedContexts' /\ RegsAreInterrupted'
    BY DEF SavedContexts, SavedIn, RegsAreInterrupted
  <1>5. registers'.cs = kept[t].cs /\ registers'.ds = "user" /\ registers'.ax = EoiValue
        /\ registers'.rest = kept[t].rest
        /\ (kept[t].cs = "user" => registers'.esp = kept[t].esp)
    BY <1>0 DEF Loaded, Contexts, Modes
  <1>6. UserSegments' /\ UserStackIsOwn'
    BY <1>5 DEF UserSegments, UserStackIsOwn, SavedIn
  <1>7. LoadedContext'
    <2>1. ASSUME kept[t].cs = "user"
          PROVE  registers' = [kept[t] EXCEPT !.ax = EoiValue]
      BY <1>0, <2>1 DEF Loaded, Contexts, SavedIn
    <2> QED
      BY <1>5, <2>1 DEF LoadedContext
  <1>8. \A u \in Threads : InKernel(u)' => kept[u].cs = "kernel"
    BY <1>5 DEF InKernel
  <1>9. FramesAreOwn' /\ OnOwnStack'
    BY <1>5, <1>8 DEF FramesAreOwn, OnOwnStack
  <1> QED
    BY <1>1, <1>2, <1>3, <1>4, <1>6, <1>7, <1>9

\* The end of a system call by the thread's own frame, from wherever it is.
LEMMA LeaveHome ==
    ASSUME SwitchIInv, NEW ax \in Values, NEW stack \in KernelStacks, Leave(stack, ax),
           displaced' \subseteq Threads,
           displaced \ {gCurrentThread} \subseteq displaced',
           gCurrentThread \notin astray => stack = KernelStack(gCurrentThread)
    PROVE  SwitchIInv'
  <1> USE DEF SwitchIInv, Leave
  <1>1. gCurrentThread \in Threads
    BY DEF SwitchTypeOK
  <1>2. /\ registers' \in Contexts /\ registers'.ds = "user" /\ registers'.cs = "user"
        /\ registers'.esp = frame[stack]
    BY DEF SwitchTypeOK, Contexts, Modes
  <1>3. gCurrentThread \notin astray => registers'.esp = UserStack(gCurrentThread)
    BY <1>1, <1>2 DEF FramesAreOwn, InKernel
  <1>4. SwitchTypeOK'
    BY <1>2 DEF SwitchTypeOK, memory
  <1>5. SavedContexts' /\ UserSegments' /\ UserStackIsOwn'
    BY <1>2, <1>3 DEF SavedContexts, SavedIn, UserSegments, UserStackIsOwn, memory
  <1>6. FramesAreOwn' /\ OnOwnStack'
    BY <1>2 DEF FramesAreOwn, InKernel, OnOwnStack, memory
  <1> QED
    BY <1>4, <1>5, <1>6 DEF TssFollowsThread, Cr3FollowsThread, RegsAreInterrupted, LoadedContext,
       memory

\* Every step of a thread and of the clock preserves the invariant.
LEMMA SwitchNextIInv == SwitchIInv /\ [SwitchNext]_switchVars => SwitchIInv'
  <1> SUFFICES ASSUME SwitchIInv, [SwitchNext]_switchVars PROVE SwitchIInv'
    OBVIOUS
  <1>0. /\ gCurrentThread # NULL => gCurrentThread \in Threads
        /\ gCurrentThread # NULL => gTss = KernelStack(gCurrentThread)
        /\ registers \in Contexts /\ registers.cs \in Modes /\ gTss \in KernelStacks
        /\ registers.cs = "kernel" => registers.esp \in KernelStacks
    BY DEF SwitchIInv, SwitchTypeOK, TssFollowsThread, Contexts
  <1>1. ASSUME NEW ax \in Values, NEW rest \in Values, Compute(ax, rest)
        PROVE  SwitchIInv'
    <2>1. /\ registers' \in Contexts /\ registers'.cs = registers.cs
          /\ registers'.ds = registers.ds /\ registers'.esp = registers.esp
      BY <1>1 DEF SwitchIInv, SwitchTypeOK, Compute, Contexts
    <2>2. SwitchTypeOK' /\ TssFollowsThread' /\ Cr3FollowsThread' /\ LoadedContext'
      BY <1>1, <2>1 DEF SwitchIInv, SwitchTypeOK, Compute, TssFollowsThread, Cr3FollowsThread,
         LoadedContext, memory
    <2>3. SavedContexts' /\ UserSegments' /\ UserStackIsOwn' /\ RegsAreInterrupted'
      BY <1>1, <2>1 DEF SwitchIInv, Compute, SavedContexts, SavedIn, UserSegments, UserStackIsOwn,
         RegsAreInterrupted, memory
    <2>4. FramesAreOwn' /\ OnOwnStack'
      BY <1>1, <2>1 DEF SwitchIInv, Compute, FramesAreOwn, InKernel, OnOwnStack, memory
    <2> QED
      BY <2>2, <2>3, <2>4 DEF SwitchIInv
  <1>2. CASE EnterSyscall
    <2>1. /\ registers' \in Contexts /\ registers'.cs = "kernel" /\ registers'.esp = gTss
          /\ registers.esp \in Stacks
      BY <1>0, <1>2, StacksType DEF EnterSyscall, Contexts, Modes
    <2>2. frame' = Pushed /\ gCurrentThread # NULL /\ registers.cs = "user"
          /\ UNCHANGED <<memory, displaced, astray>> /\ resumed' = FALSE
      BY <1>2 DEF EnterSyscall
    <2>3. /\ frame' \in [KernelStacks -> Stacks] /\ frame'[gTss] = registers.esp
          /\ \A s \in KernelStacks \ {gTss} : frame'[s] = frame[s]
      BY <1>0, <2>1, <2>2 DEF Pushed, SwitchIInv, SwitchTypeOK
    <2>4. SwitchTypeOK' /\ TssFollowsThread' /\ Cr3FollowsThread' /\ LoadedContext'
      BY <1>0, <2>1, <2>2, <2>3 DEF SwitchIInv, SwitchTypeOK, TssFollowsThread, Cr3FollowsThread,
         LoadedContext, memory
    <2>5. SavedContexts' /\ UserSegments' /\ UserStackIsOwn' /\ RegsAreInterrupted' /\ OnOwnStack'
      BY <2>1, <2>2 DEF SwitchIInv, SavedContexts, SavedIn, UserSegments, UserStackIsOwn,
         RegsAreInterrupted, OnOwnStack, memory
    <2>6. FramesAreOwn'
      <3> SUFFICES ASSUME NEW t \in Threads \ astray, InKernel(t)'
                   PROVE  frame'[KernelStack(t)] = UserStack(t)
        BY <2>2 DEF FramesAreOwn
      <3>1. CASE t = gCurrentThread
        BY <1>0, <2>2, <2>3, <3>1 DEF SwitchIInv, UserStackIsOwn
      <3>2. CASE t # gCurrentThread
        <4>1. KernelStack(t) \in KernelStacks \ {gTss}
          BY <1>0, <2>2, <3>2, StacksType
        <4>2. InKernel(t)
          BY <2>2, <3>2 DEF InKernel, memory
        <4> QED
          BY <2>3, <4>1, <4>2 DEF SwitchIInv, FramesAreOwn
      <3> QED
        BY <3>1, <3>2
    <2> QED
      BY <2>4, <2>5, <2>6 DEF SwitchIInv
  <1>3. ASSUME NEW ax \in Values, LeaveSyscall(ax)
        PROVE  SwitchIInv'
    <2>1. /\ Leave(registers.esp, ax) /\ gCurrentThread \notin displaced /\ displaced' = displaced
          /\ gCurrentThread # NULL /\ registers.cs = "kernel"
      BY <1>3 DEF LeaveSyscall, Leave
    <2>2. gCurrentThread \notin astray => registers.esp = KernelStack(gCurrentThread)
      BY <1>0, <2>1 DEF SwitchIInv, OnOwnStack
    <2>3. displaced' \subseteq Threads /\ displaced \ {gCurrentThread} \subseteq displaced'
      BY <2>1 DEF SwitchIInv, SwitchTypeOK
    <2> QED
      BY <1>0, <2>1, <2>2, <2>3, LeaveHome
  <1>4. ASSUME NEW ax \in Values, LeaveDisplaced(ax)
        PROVE  SwitchIInv'
    <2>1. Leave(gTss, ax) /\ displaced' = displaced \ {gCurrentThread} /\ gCurrentThread # NULL
      BY <1>4 DEF LeaveDisplaced, Leave
    <2>2. displaced' \subseteq Threads
      BY <2>1 DEF SwitchIInv, SwitchTypeOK
    <2> QED
      BY <1>0, <2>1, <2>2, LeaveHome
  <1>5. ASSUME NEW stack \in KernelStacks, GoAstray(stack)
        PROVE  SwitchIInv'
    <2>1. /\ gCurrentThread \in displaced \cup astray /\ displaced' = displaced \ {gCurrentThread}
          /\ astray' = astray \cup {gCurrentThread} /\ registers.cs = "kernel"
          /\ resumed' = FALSE /\ UNCHANGED <<memory, frame>>
      BY <1>5 DEF GoAstray
    <2>2. gCurrentThread \in Threads
      BY <2>1 DEF SwitchIInv, SwitchTypeOK
    <2>3. /\ registers' \in Contexts
          /\ registers'.cs = "user" => registers'.ds = "user"
          /\ registers'.cs = "kernel" => registers' = registers
      <3>1. frame[stack] \in Stacks
        BY DEF SwitchIInv, SwitchTypeOK
      <3> QED
        BY <1>0, <1>5, <2>1, <3>1 DEF GoAstray, Contexts, Modes
    <2>4. SwitchTypeOK' /\ TssFollowsThread' /\ Cr3FollowsThread' /\ LoadedContext'
      BY <1>0, <2>1, <2>2, <2>3 DEF SwitchIInv, SwitchTypeOK, TssFollowsThread, Cr3FollowsThread,
         LoadedContext, memory
    <2>5. SavedContexts' /\ UserSegments' /\ UserStackIsOwn' /\ RegsAreInterrupted' /\ OnOwnStack'
      BY <2>1, <2>3 DEF SwitchIInv, SavedContexts, SavedIn, UserSegments, UserStackIsOwn,
         RegsAreInterrupted, OnOwnStack, memory
    <2>6. FramesAreOwn'
      BY <2>1 DEF SwitchIInv, FramesAreOwn, InKernel, memory
    <2> QED
      BY <2>4, <2>5, <2>6 DEF SwitchIInv
  <1>6. CASE StartFirst
    <2>1. 1 \in Threads
      BY NThreadsAssumption DEF Threads
    <2>2. regs \in [Threads -> Contexts] /\ interrupted = regs
      BY DEF SwitchIInv, SwitchTypeOK, RegsAreInterrupted
    <2>3. PmStartThread(1, regs) /\ regs' = regs /\ kstack' = kstack /\ interrupted' = regs
          /\ gCurrentThread = NULL /\ UNCHANGED <<frame, displaced, astray>>
      BY <1>6, <2>2 DEF StartFirst
    <2>4. \A u \in Threads : SavedIn(u, regs[u])
      BY DEF SwitchIInv, SavedContexts
    <2>5. displaced' \subseteq Threads /\ frame' \in [KernelStacks -> Stacks]
      BY <2>3 DEF SwitchIInv, SwitchTypeOK
    <2>6. \A u \in Threads : regs[u].cs = "kernel" =>
            /\ u \in displaced' \cup astray
            /\ u \notin astray => frame'[KernelStack(u)] = UserStack(u)
      <3>1. \A u \in Threads : u # gCurrentThread
        BY <2>3, NThreadsAssumption DEF Threads, NULL
      <3> QED
        BY <2>3, <3>1 DEF SwitchIInv, OnOwnStack, FramesAreOwn, InKernel
    <2> QED
      BY <2>1, <2>2, <2>3, <2>4, <2>5, <2>6, StartThread
  <1>7. CASE Switch
    <2> DEFINE t == gCurrentThread
               kept == [regs EXCEPT ![t] = registers]
    <2>1. t \in Threads /\ (t % NThreads) + 1 \in Threads /\ t # NULL
      BY <1>7, NextThread DEF Switch, SwitchIInv, SwitchTypeOK
    <2>2. kept \in [Threads -> Contexts] /\ regs' = kept /\ interrupted' = kept
      BY <1>7, <2>1 DEF Switch, Saved, SwitchIInv, SwitchTypeOK, RegsAreInterrupted
    <2>3. kstack' = kstack /\ astray' = astray
      BY <1>7, <2>1 DEF Switch, SwitchIInv, SwitchTypeOK, TssFollowsThread
    <2>4. PmStartThread((t % NThreads) + 1, kept)
      BY <1>7, <2>2 DEF Switch
    <2>5. \A u \in Threads : kept[u] = IF u = t THEN registers ELSE regs[u]
      BY <2>1 DEF SwitchIInv, SwitchTypeOK
    <2>6. /\ frame' = IF registers.cs = "user" THEN Pushed ELSE frame
          /\ displaced' = IF registers.cs = "kernel" THEN displaced \cup {t} ELSE displaced
      BY <1>7 DEF Switch
    <2> HIDE DEF kept
    <2>7. \A u \in Threads : SavedIn(u, kept[u])
      BY <2>1, <2>5 DEF SwitchIInv, SavedContexts, SavedIn, UserSegments, UserStackIsOwn
    <2>8. displaced' \subseteq Threads
      BY <2>1, <2>6 DEF SwitchIInv, SwitchTypeOK
    <2>9. /\ frame' \in [KernelStacks -> Stacks]
          /\ \A s \in KernelStacks \ {gTss} : frame'[s] = frame[s]
          /\ registers.cs = "kernel" => frame' = frame
      <3>1. registers.esp \in Stacks
        BY <1>0 DEF Contexts
      <3> QED
        BY <1>0, <2>6, <3>1 DEF Pushed, SwitchIInv, SwitchTypeOK
    <2>10. ASSUME NEW u \in Threads, kept[u].cs = "kernel"
           PROVE  /\ u \in displaced' \cup astray
                  /\ u \notin astray => frame'[KernelStack(u)] = UserStack(u)
      <3>1. InKernel(u)
        BY <2>5, <2>10 DEF InKernel
      <3>2. u \notin astray => frame[KernelStack(u)] = UserStack(u)
        BY <3>1 DEF SwitchIInv, FramesAreOwn
      <3>3. CASE u = t
        BY <2>5, <2>6, <2>9, <2>10, <3>2, <3>3
      <3>4. CASE u # t
        <4>1. KernelStack(u) \in KernelStacks \ {gTss}
          BY <1>0, <2>1, <3>4, StacksType
        <4>2. u \in displaced \cup astray
          BY <2>5, <2>10, <3>4 DEF SwitchIInv, OnOwnStack
        <4> QED
          BY <2>6, <2>9, <3>2, <4>1, <4>2
      <3> QED
        BY <3>3, <3>4
    <2> QED
      BY <2>1, <2>2, <2>3, <2>4, <2>7, <2>8, <2>9, <2>10, StartThread
  <1>8. CASE UNCHANGED switchVars
    BY <1>8 DEF switchVars, SwitchIInv, SwitchTypeOK, TssFollowsThread, Cr3FollowsThread,
       SavedContexts, SavedIn, UserSegments, UserStackIsOwn, FramesAreOwn, InKernel, OnOwnStack,
       RegsAreInterrupted, LoadedContext
  <1> QED
    BY <1>1, <1>2, <1>3, <1>4, <1>5, <1>6, <1>7, <1>8 DEF SwitchNext
LEMMA SwitchInvariance == SwitchSpec => []SwitchIInv
  BY SwitchInitIInv, SwitchNextIInv, PTL DEF SwitchSpec

\* Type correctness of the context switch.
THEOREM SwitchTypeCorrect == SwitchSpec => []SwitchTypeOK
  <1>1. SwitchIInv => SwitchTypeOK
    BY DEF SwitchIInv
  <1> QED
    BY SwitchInvariance, <1>1, PTL

\* The stack for interrupts and the page directory are always those of the
\* thread that runs.
THEOREM TssAndCr3 == SwitchSpec => []ProcessorFollowsThread
  <1>1. SwitchIInv => ProcessorFollowsThread
    BY DEF SwitchIInv, ProcessorFollowsThread
  <1> QED
    BY SwitchInvariance, <1>1, PTL

\* A thread interrupted in its program gets its whole context back, but for
\* the low half of eax; a thread interrupted in a system call, its registers.
THEOREM ContextKept == SwitchSpec => []InterruptedContextKept
  <1>1. SwitchIInv => InterruptedContextKept
    BY DEF SwitchIInv, RegsAreInterrupted, LoadedContext, InterruptedContextKept, UserContextKept,
       KernelRegistersKept
  <1> QED
    BY SwitchInvariance, <1>1, PTL

\* A program runs on its own stack, not on another thread's nor on a kernel stack,
\* also after system calls that others have run in the middle of, unless the thread
\* has gone astray (process_starter.asm:34).
THEOREM OwnUserStack == SwitchSpec => []UserStackIsOwn
  <1>1. SwitchIInv => UserStackIsOwn
    BY DEF SwitchIInv
  <1> QED
    BY SwitchInvariance, <1>1, PTL
=============================================================================
