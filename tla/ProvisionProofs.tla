--------------------------- MODULE ProvisionProofs ---------------------------
(* Proofs about Provision: its types, and that what is taken for installed   *)
(* belongs together.                                                         *)
EXTENDS Provision, TLAPS

\* None, Torn, origins and the names of entries are all different
LEMMA Distinct ==
  /\ None \notin Origin /\ Torn \notin Origin /\ None # Torn
  /\ "rpc" \notin Lib /\ "llama" \notin Entry /\ None \notin Call
BY EntryAssumption, ReleaseAssumption DEF Origin, Source, Entry, Call

\* what is copied: the servers and every library
LEMMA CopiedFacts ==
  /\ Copied \in Seq(Entry \cup {"llama"})
  /\ \A i \in 1..Len(Copied) : Copied[i] \in Entry \cup {"llama"}
  /\ \A e \in Entry : \E i \in 1..Len(Copied) : Copied[i] = e
<1> DEFINE servers == <<"rpc", "llama">>
<1>1. LibOrder \in Seq(Entry \cup {"llama"})
  BY LibOrderAssumption DEF Entry
<1>2. servers \in Seq(Entry \cup {"llama"}) /\ Len(servers) = 2 /\ servers[1] = "rpc"
  BY DEF Entry
<1>3. /\ Copied \in Seq(Entry \cup {"llama"})
      /\ Len(Copied) = 2 + Len(LibOrder)
      /\ Copied[1] = "rpc"
      /\ \A i \in 1..Len(LibOrder) : Copied[2 + i] = LibOrder[i]
  BY <1>1, <1>2 DEF Copied
<1>4. Len(LibOrder) \in Nat BY <1>1
<1>5. ASSUME NEW e \in Entry PROVE \E i \in 1..Len(Copied) : Copied[i] = e
  <2>1. CASE e = "rpc"
    <3>1. 1 \in 1..Len(Copied) BY <1>3, <1>4
    <3> QED BY <2>1, <3>1, <1>3
  <2>2. CASE e \in Lib
    <3>1. PICK i \in 1..Len(LibOrder) : LibOrder[i] = e BY <2>2, LibOrderAssumption
    <3>2. 2 + i \in 1..Len(Copied) BY <1>3, <1>4
    <3> QED BY <3>1, <3>2, <1>3
  <2> QED BY <2>1, <2>2 DEF Entry
<1> QED BY <1>3, <1>5

LEMMA ArchiveFacts ==
  /\ Len(Archive) \in Nat
  /\ \A i \in 1..Len(Archive) : Archive[i] \in Entry \cup {"llama"}
  /\ \A e \in Entry : \E i \in 1..Len(Archive) : Archive[i] = e
BY ArchiveAssumption DEF Entry

LEMMA CopiedLen == Len(Copied) \in Nat
BY CopiedFacts

\* a file is put where it belongs: the types are kept, and the pc is one of three
LEMMA PutTypes ==
  ASSUME TypeOK, NEW file \in Entry \cup {"llama"}, NEW content \in Origin,
         NEW next, NEW failed \in BOOLEAN,
         Put(file, content, next, failed)
  PROVE  /\ data' \in [Entry -> Origin \cup {None, Torn}] /\ llama' \in BOOLEAN
         /\ \/ at' = at + 1 /\ Goto(next)
            \/ at' = at /\ failed
            \/ at' = at /\ Return(None)
BY DEF Put, TypeOK

LEMMA InitTypes == Init => TypeOK
<1> SUFFICES ASSUME Init PROVE TypeOK
  OBVIOUS
<1>1. data \in [Entry -> Origin \cup {None, Torn}] BY DEF Init
<1>2. at \in Nat /\ pc = "idle" BY DEF Init
<1> QED BY <1>1, <1>2 DEF Init, TypeOK, Steps

\* every step keeps the types
LEMMA TypeStep == TypeOK /\ [Next]_vars => TypeOK'
<1> SUFFICES ASSUME TypeOK, [Next]_vars PROVE TypeOK'
  OBVIOUS
<1> USE DEF files, progress, env
<1>1. ASSUME NEW c \in Call, Begin(c) PROVE TypeOK'
  BY <1>1 DEF Begin, TypeOK, Steps
<1>2. CASE Check BY <1>2 DEF Check, Goto, Return, TypeOK, Steps
<1>3. CASE RemoveOld
  <2>1. data' \in [Entry -> Origin \cup {None, Torn}] BY <1>3 DEF RemoveOld, Without, TypeOK
  <2> QED BY <1>3, <2>1 DEF RemoveOld, Goto, Return, TypeOK, Steps
<1>4. CASE InstallTools
  BY <1>4 DEF InstallTools, VulkanPanics, Goto, Return, TypeOK, Steps
<1>5. CASE Clone BY <1>5 DEF Clone, Goto, Return, TypeOK, Steps
<1>6. CASE Checkout BY <1>6 DEF Checkout, Goto, TypeOK, Steps
<1>7. CASE Compile
  <2>1. 1 \in 1..Len(Copied) + 1 BY CopiedLen
  <2> QED BY <1>7, <2>1 DEF Compile, Goto, TypeOK, Steps, Origin
<1>8. CASE Copy
  <2>1. written' \in {"partial", "whole", "recorded"} BY <1>8 DEF Copy, Mark, TypeOK
  <2>2. at \in 1..Len(Copied) + 1 /\ got = Source BY <1>8 DEF Copy, TypeOK
  <2>3. CASE at <= Len(Copied) /\ Put(Copied[at], Source, "copy", Goto("failed"))
    <3>1. Copied[at] \in Entry \cup {"llama"} /\ Source \in Origin
      BY <2>2, <2>3, CopiedFacts, CopiedLen DEF Origin
    <3>2. Goto("failed") \in BOOLEAN BY DEF Goto
    <3>3. /\ data' \in [Entry -> Origin \cup {None, Torn}] /\ llama' \in BOOLEAN
          /\ \/ at' = at + 1 /\ Goto("copy")
             \/ at' = at /\ Goto("failed")
             \/ at' = at /\ Return(None)
      BY <2>3, <3>1, <3>2, PutTypes
    <3>4. at + 1 \in 1..Len(Copied) + 1 BY <2>2, <2>3, CopiedLen
    <3> QED BY <1>8, <2>1, <2>2, <3>3, <3>4 DEF Copy, Goto, Return, TypeOK, Steps
  <2>4. CASE at <= Len(Copied) /\ at' = at + 1 /\ Goto("copy") /\ UNCHANGED <<data, llama>>
    <3>1. at + 1 \in 1..Len(Copied) + 1 BY <2>2, <2>4, CopiedLen
    <3> QED BY <1>8, <2>1, <2>2, <2>4, <3>1 DEF Copy, Goto, TypeOK, Steps
  <2>5. CASE at > Len(Copied) /\ Goto("record") /\ UNCHANGED <<data, llama, at>>
    BY <1>8, <2>1, <2>2, <2>5, Distinct DEF Copy, Goto, TypeOK, Steps, Origin
  <2> QED BY <1>8, <2>3, <2>4, <2>5 DEF Copy
<1>9. CASE Record BY <1>9 DEF Record, Goto, Return, TypeOK, Steps
<1>10. CASE BoxBuild
  <2>1. SomeCopied => data' \in [Entry -> Origin \cup {None, Torn}] /\ llama' \in BOOLEAN
    BY DEF SomeCopied, TypeOK, Origin
  <2>2. written' \in {"partial", "whole", "recorded"} BY <1>10 DEF BoxBuild, Mark, TypeOK
  <2>3. data' \in [Entry -> Origin \cup {None, Torn}] /\ llama' \in BOOLEAN
    BY <1>10, <2>1 DEF BoxBuild, TypeOK
  <2> QED BY <1>10, <2>2, <2>3 DEF BoxBuild, VulkanPanics, Goto, Return, TypeOK, Steps
<1>11. CASE BoxCopy
  <2>1. SomeCopied => data' \in [Entry -> Origin \cup {None, Torn}] /\ llama' \in BOOLEAN
    BY DEF SomeCopied, TypeOK, Origin
  <2>2. data' \in [Entry -> Origin \cup {None, Torn}] /\ llama' \in BOOLEAN
    BY <1>11, <2>1 DEF BoxCopy, TypeOK
  <2>3. got' \in Origin \cup {None} /\ (pc' = "record" => got' # None)
    BY <1>11, Distinct DEF BoxCopy, Goto, Return, TypeOK, Origin
  <2>4. written' \in {"partial", "whole", "recorded"} BY <1>11 DEF BoxCopy, TypeOK
  <2>5. /\ pc' \in {"failed", "idle", "record"} /\ call' = call
        /\ result' \in {"ok", "err", None}
    BY <1>11 DEF BoxCopy, Goto, Return, TypeOK
  <2> QED BY <1>11, <2>2, <2>3, <2>4, <2>5 DEF BoxCopy, TypeOK, Steps
<1>12. CASE Built
  <2>1. llama' \in BOOLEAN /\ pc' \in {"idle", "fetch"} /\ call' = call
        /\ result' \in {"ok", "err", None}
    BY <1>12 DEF Built, Goto, Return, TypeOK
  <2> QED BY <1>12, <2>1 DEF Built, TypeOK, Steps
<1>13. CASE BuildFailed
  <2>1. pc' \in {"idle", "fetch"} /\ call' = call /\ result' \in {"ok", "err", None}
    BY <1>13 DEF BuildFailed, Goto, Return, TypeOK
  <2> QED BY <1>13, <2>1 DEF BuildFailed, TypeOK, Steps
<1>14. CASE Fetch
  <2>1. 1 \in 1..Len(Archive) + 1 BY ArchiveFacts
  <2>2. lacks' \in BOOLEAN BY <1>14 DEF Fetch, TypeOK
  <2>3. \/ pc' = "unpack" /\ at' = 1 /\ got' \in Release /\ UNCHANGED result
        \/ pc' = "idle" /\ result' = "err" /\ UNCHANGED <<at, got>>
    BY <1>14 DEF Fetch, Goto, Return, TypeOK
  <2>4. UNCHANGED <<files, env, written, call>> BY <1>14 DEF Fetch, Goto, Return
  <2> QED BY <2>1, <2>2, <2>3, <2>4 DEF TypeOK, Steps, Origin
<1>15. CASE Unpack
  <2>1. written' \in {"partial", "whole", "recorded"} BY <1>15 DEF Unpack, Mark, TypeOK
  <2>2. at \in 1..Len(Archive) + 1 /\ got \in Release /\ at <= Len(Archive)
    BY <1>15 DEF Unpack, TypeOK
  <2>3. at + 1 \in 1..Len(Archive) + 1 BY <2>2, ArchiveFacts
  <2>4. CASE /\ Wanted(Archive[at]) /\ (Archive[at] \in Links => data[Archive[at]] # None)
             /\ Put(Archive[at], got, "unpack", Return("err"))
    <3>1. Archive[at] \in Entry \cup {"llama"} /\ got \in Origin
      BY <2>2, ArchiveFacts DEF Origin
    <3>2. Return("err") \in BOOLEAN BY DEF Return
    <3>3. /\ data' \in [Entry -> Origin \cup {None, Torn}] /\ llama' \in BOOLEAN
          /\ \/ at' = at + 1 /\ Goto("unpack")
             \/ at' = at /\ Return("err")
             \/ at' = at /\ Return(None)
      BY <2>4, <3>1, <3>2, PutTypes
    <3> QED BY <1>15, <2>1, <2>2, <2>3, <3>3 DEF Unpack, Goto, Return, TypeOK, Steps
  <2>5. CASE /\ UNCHANGED <<data, llama>>
             /\ (at' = at + 1 /\ Goto("unpack")) \/ (at' = at /\ Return("err"))
    BY <1>15, <2>1, <2>2, <2>3, <2>5 DEF Unpack, Goto, Return, TypeOK, Steps
  <2> QED BY <1>15, <2>4, <2>5 DEF Unpack
<1>16. CASE Found
  <2>1. data' \in [Entry -> Origin \cup {None, Torn}]
    BY <1>16, Distinct DEF Found, Without, TypeOK, Origin
  <2>2. written' \in {"partial", "whole", "recorded"} BY <1>16 DEF Found, Mark, TypeOK
  <2>3. /\ pc' \in {"idle", "record"} /\ call' = call /\ result' \in {"ok", "err", None}
        /\ UNCHANGED <<llama, src, version, progress, env>> /\ pc = "unpack"
    BY <1>16 DEF Found, Goto, Return, TypeOK
  <2>4. got \in Release /\ got # None BY <2>3, Distinct DEF TypeOK, Origin
  <2> QED BY <2>1, <2>2, <2>3, <2>4 DEF TypeOK, Steps, Origin
<1>17. CASE Killed BY <1>17 DEF Killed, Return, TypeOK, Steps
<1>18. CASE Forget
  <2>1. data' \in [Entry -> Origin \cup {None, Torn}] BY <1>18 DEF Forget, Without, TypeOK
  <2>2. llama' \in BOOLEAN /\ src' \in {"none", "partial", "whole"} /\ version' = None
    BY <1>18 DEF Forget, TypeOK
  <2>3. UNCHANGED <<progress, env, pc, call, result, written>> /\ pc = "idle"
    BY <1>18 DEF Forget
  <2> QED BY <2>1, <2>2, <2>3 DEF TypeOK, Steps
<1>19. CASE Calms BY <1>19 DEF Calms, TypeOK
<1>20. CASE UNCHANGED vars BY <1>20 DEF vars, TypeOK
<1> QED BY <1>1, <1>2, <1>3, <1>4, <1>5, <1>6, <1>7, <1>8, <1>9, <1>10, <1>11, <1>12, <1>13,
           <1>14, <1>15, <1>16, <1>17, <1>18, <1>19, <1>20 DEF Next, Step

\* The state of a call and of the directory has the declared types: what is copied or
\* unpacked next is always one of the entries, however the call got there.
THEOREM TypeCorrect == Spec => []TypeOK
<1>1. Spec => []TypeOK
  BY InitTypes, TypeStep, PTL DEF Spec
<1> QED BY <1>1
----------------------------------------------------------------------------
LEMMA InitWrite == Init => WriteInv
BY DEF Init, WriteInv, Settled, OfOrigin, SoFar, Recordable, Origin

\* what is written in part is marked, and what is removed leaves the rest as it was
LEMMA SettledStep ==
  ASSUME TypeOK, WriteInv, [Next]_vars
  PROVE  Settled'
<1> USE DEF files, progress, env
<1>1. ASSUME UNCHANGED written,
             \A e \in Entry : data'[e] \in {None, data[e]},
             version' \in {None, version}
      PROVE  Settled'
  <2> SUFFICES ASSUME written # "partial" PROVE \E o \in Origin : OfOrigin(o)'
    BY <1>1 DEF Settled
  <2>1. PICK o \in Origin : OfOrigin(o) BY DEF WriteInv, Settled
  <2>2. OfOrigin(o)' BY <1>1, <2>1 DEF OfOrigin
  <2> QED BY <2>2
<1>2. ASSUME Mark, UNCHANGED version PROVE Settled'
  <2>1. CASE data' = data BY <1>1, <1>2, <2>1 DEF Mark
  <2>2. CASE data' # data BY <1>2, <2>2 DEF Mark, Settled
  <2> QED BY <2>1, <2>2
<1>3. ASSUME NEW o \in Origin, written' = "whole", \A e \in Entry : data'[e] = o
      PROVE  Settled'
  BY <1>3 DEF Settled, OfOrigin
<1>4. CASE RemoveOld
  <2>1. \A e \in Entry : data'[e] \in {None, data[e]} BY <1>4 DEF RemoveOld, Without
  <2> QED BY <1>1, <1>4, <2>1 DEF RemoveOld
<1>5. CASE Copy
  <2>1. CASE at > Len(Copied)
    <3>1. written' = "whole" /\ data' = data /\ pc = "copy"
      BY <1>5, <2>1, CopiedLen DEF Copy, TypeOK
    <3>2. ASSUME NEW e \in Entry PROVE data'[e] = Source
      <4>1. PICK i \in 1..Len(Copied) : Copied[i] = e BY CopiedFacts
      <4>2. i < at BY <2>1, <3>1, CopiedLen DEF TypeOK
      <4> QED BY <3>1, <4>1, <4>2 DEF WriteInv, SoFar
    <3> QED BY <1>3, <3>1, <3>2 DEF Origin
  <2>2. CASE ~(at > Len(Copied)) BY <1>2, <1>5, <2>2 DEF Copy
  <2> QED BY <2>1, <2>2
<1>6. CASE Record
  <2>1. UNCHANGED data /\ pc = "record" BY <1>6 DEF Record
  <2>2. CASE version' = got /\ written' = IF written = "partial" THEN "partial" ELSE "recorded"
    <3>1. CASE written = "partial" BY <2>2, <3>1 DEF Settled
    <3>2. CASE written # "partial"
      <4>1. \A e \in Entry : data[e] \in {None, got} BY <2>1, <3>2 DEF WriteInv, Recordable
      <4>2. got \in Origin BY <2>1 DEF TypeOK
      <4> QED BY <2>1, <2>2, <4>1, <4>2 DEF Settled, OfOrigin
    <3> QED BY <3>1, <3>2
  <2>3. CASE UNCHANGED written /\ version' \in {None, version} BY <1>1, <2>1, <2>3
  <2> QED BY <1>6, <2>2, <2>3 DEF Record
<1>7. CASE BoxBuild BY <1>2, <1>7 DEF BoxBuild
<1>8. CASE BoxCopy
  <2>1. CASE UNCHANGED <<data, written>> BY <1>1, <1>8, <2>1 DEF BoxCopy
  <2>2. CASE written' = "partial" BY <2>2 DEF Settled
  <2> QED BY <1>8, <2>1, <2>2 DEF BoxCopy
<1>9. CASE Unpack BY <1>2, <1>9 DEF Unpack
<1>10. CASE Found
  <2>1. PICK gone \in SUBSET Links, made \in SUBSET Links :
          /\ data' = [e \in Entry |-> IF e \in made THEN got ELSE Without(gone)[e]]
          /\ IF made = Links /\ ~lacks /\ call = "rpc" THEN written' = "whole" ELSE Mark
    BY <1>10 DEF Found
  <2>2. CASE made = Links /\ ~lacks /\ call = "rpc"
    <3>1. pc = "unpack" /\ at > Len(Archive) BY <1>10 DEF Found
    <3>2. got \in Origin BY <3>1 DEF TypeOK, Origin
    <3>3. ASSUME NEW e \in Entry, e \notin Links PROVE data[e] = got /\ data[e] # None
      <4>1. PICK i \in 1..Len(Archive) : Archive[i] = e BY ArchiveFacts
      <4>2. i < at BY <3>1, ArchiveFacts DEF TypeOK
      <4>3. Wanted(e) BY <2>2 DEF Wanted, Entry
      <4> QED BY <3>1, <3>2, <3>3, <4>1, <4>2, <4>3, Distinct DEF WriteInv, SoFar
    <3>4. ASSUME NEW e \in Entry PROVE data'[e] = got
      BY <2>1, <2>2, <3>3 DEF Without
    <3> QED BY <1>3, <2>1, <2>2, <3>2, <3>4
  <2>3. CASE ~(made = Links /\ ~lacks /\ call = "rpc") BY <1>2, <1>10, <2>1, <2>3 DEF Found
  <2> QED BY <2>2, <2>3
<1>11. CASE Forget
  <2>1. \A e \in Entry : data'[e] \in {None, data[e]} BY <1>11 DEF Forget, Without
  <2> QED BY <1>1, <1>11, <2>1 DEF Forget
<1>12. CASE \/ \E c \in Call : Begin(c)
            \/ Check \/ InstallTools \/ Clone \/ Checkout \/ Compile \/ Built \/ BuildFailed
            \/ Fetch \/ Killed \/ Calms \/ UNCHANGED vars
  <2>1. UNCHANGED <<data, version, written>>
    BY <1>12 DEF Begin, Check, InstallTools, Clone, Checkout, Compile, Built, BuildFailed, Fetch,
                 Killed, Calms, vars
  <2> QED BY <1>1, <2>1
<1> QED BY <1>4, <1>5, <1>6, <1>7, <1>8, <1>9, <1>10, <1>11, <1>12 DEF Next, Step

\* only a copy goes on copying, only an unpacking goes on unpacking
LEMMA SoFarStep ==
  ASSUME TypeOK, WriteInv, [Next]_vars
  PROVE  SoFar'
<1> USE DEF files, progress, env
<1>1. pc' \notin {"copy", "unpack"} => SoFar' BY DEF SoFar
<1>2. CASE Compile
  <2>1. pc' = "copy" => at' = 1 BY <1>2 DEF Compile, Goto
  <2>2. pc' # "unpack" BY <1>2 DEF Compile, Goto
  <2> QED BY <2>1, <2>2 DEF SoFar
<1>3. CASE Fetch
  <2>1. pc' = "unpack" => at' = 1 BY <1>3 DEF Fetch, Goto, Return
  <2>2. pc' # "copy" BY <1>3 DEF Fetch, Goto, Return
  <2> QED BY <2>1, <2>2 DEF SoFar
<1>4. CASE Copy
  <2> SUFFICES ASSUME pc' = "copy",
                      NEW i \in 1..Len(Copied), i < at', Copied[i] \in Entry
               PROVE  data'[Copied[i]] = Source
    BY <1>4 DEF Copy, Put, Goto, Return, SoFar
  <2>1. /\ at' = at + 1 /\ at \in Nat
        /\ i < at => data[Copied[i]] = Source
    BY <1>4 DEF Copy, Put, Goto, Return, TypeOK, WriteInv, SoFar
  <2>2. i < at \/ i = at BY <2>1, CopiedLen
  <2>3. \/ Copied[at] = "llama" /\ UNCHANGED data
        \/ data' = [data EXCEPT ![Copied[at]] = Source]
    BY <1>4 DEF Copy, Put, Goto, Return
  <2>4. data \in [Entry -> Origin \cup {None, Torn}] BY DEF TypeOK
  <2> QED BY <2>1, <2>2, <2>3, <2>4, Distinct
<1>5. CASE Unpack
  <2> SUFFICES ASSUME pc' = "unpack",
                      NEW i \in 1..Len(Archive), i < at', Archive[i] \in Entry \ Links,
                      Wanted(Archive[i])'
               PROVE  data'[Archive[i]] = got'
    BY <1>5 DEF Unpack, Put, Goto, Return, SoFar
  <2>1. /\ at' = at + 1 /\ at \in Nat /\ got' = got
        /\ Wanted(Archive[i])
    BY <1>5 DEF Unpack, Put, Goto, Return, TypeOK, Wanted
  <2>2. i < at => data[Archive[i]] = got
    BY <1>5, <2>1 DEF Unpack, WriteInv, SoFar
  <2>3. i < at \/ i = at BY <2>1, ArchiveFacts
  <2>4. \/ Archive[at] = "llama" /\ UNCHANGED data
        \/ data' = [data EXCEPT ![Archive[at]] = got]
        \/ ~Wanted(Archive[at]) /\ UNCHANGED data
        \/ Archive[at] \in Links /\ UNCHANGED data
    BY <1>5 DEF Unpack, Put, Goto, Return
  <2>5. data \in [Entry -> Origin \cup {None, Torn}] BY DEF TypeOK
  <2> QED BY <2>1, <2>2, <2>3, <2>4, <2>5, Distinct
<1>6. CASE Calms \/ UNCHANGED vars
  <2>1. UNCHANGED <<pc, call, at, got, lacks, data>> BY <1>6 DEF Calms, vars
  <2> QED BY <2>1 DEF WriteInv, SoFar, Wanted
<1>7. CASE \/ \E c \in Call : Begin(c)
           \/ Check \/ RemoveOld \/ InstallTools \/ Clone \/ Checkout \/ Record \/ BoxBuild
           \/ BoxCopy \/ Built \/ BuildFailed \/ Found \/ Killed \/ Forget
  <2>1. pc' \notin {"copy", "unpack"}
    BY <1>7 DEF Begin, Check, RemoveOld, InstallTools, Clone, Checkout, Record, BoxBuild, BoxCopy,
                Built, BuildFailed, Found, Killed, Forget, VulkanPanics, Goto, Return
  <2> QED BY <1>1, <2>1
<1> QED BY <1>2, <1>3, <1>4, <1>5, <1>6, <1>7 DEF Next, Step

\* what gets as far as being recorded was written as a whole, or is marked
LEMMA RecordableStep ==
  ASSUME TypeOK, WriteInv, [Next]_vars
  PROVE  Recordable'
<1> USE DEF files, progress, env
<1>1. pc' # "record" => Recordable' BY DEF Recordable
<1>2. CASE Copy
  <2> SUFFICES ASSUME pc' = "record" PROVE Recordable' BY <1>1
  <2>1. pc = "copy" /\ at > Len(Copied) /\ UNCHANGED <<data, got>>
    BY <1>2 DEF Copy, Put, Goto, Return
  <2>2. got = Source BY <2>1 DEF TypeOK
  <2>3. ASSUME NEW e \in Entry PROVE data[e] = Source
    <3>1. PICK i \in 1..Len(Copied) : Copied[i] = e BY CopiedFacts
    <3>2. i < at BY <2>1, CopiedLen DEF TypeOK
    <3> QED BY <2>1, <3>1, <3>2 DEF WriteInv, SoFar
  <2> QED BY <2>1, <2>2, <2>3 DEF Recordable
<1>3. CASE Found
  <2> SUFFICES ASSUME pc' = "record", written' # "partial", NEW e \in Entry
               PROVE  data'[e] \in {None, got'}
    BY DEF Recordable
  <2>1. pc = "unpack" /\ at > Len(Archive) /\ ~lacks /\ call = "rpc" /\ got' = got
    BY <1>3 DEF Found, Goto, Return
  <2>2. PICK gone \in SUBSET Links, made \in SUBSET Links :
          /\ data' = [f \in Entry |-> IF f \in made THEN got ELSE Without(gone)[f]]
          /\ IF made = Links /\ ~lacks /\ call = "rpc" THEN written' = "whole" ELSE Mark
    BY <1>3 DEF Found
  <2>3. CASE made = Links /\ ~lacks /\ call = "rpc"
    <3>1. ASSUME e \notin Links PROVE data[e] = got
      <4>1. PICK i \in 1..Len(Archive) : Archive[i] = e BY ArchiveFacts
      <4>2. i < at BY <2>1, ArchiveFacts DEF TypeOK
      <4>3. Wanted(e) BY <2>1 DEF Wanted, Entry
      <4> QED BY <2>1, <3>1, <4>1, <4>2, <4>3 DEF WriteInv, SoFar
    <3> QED BY <2>1, <2>2, <2>3, <3>1 DEF Without
  <2>4. CASE ~(made = Links /\ ~lacks /\ call = "rpc")
    <3>1. data' = data /\ written # "partial" BY <2>2, <2>4 DEF Mark
    <3>2. PICK o \in Origin : \A f \in Entry : data[f] \in {None, o}
      BY <3>1 DEF WriteInv, Settled, OfOrigin
    <3>3. data["rpc"] = got
      <4>1. "rpc" \in Entry /\ "rpc" \notin Links BY Distinct, LinksAssumption DEF Entry
      <4>2. PICK i \in 1..Len(Archive) : Archive[i] = "rpc" BY <4>1, ArchiveFacts
      <4>3. i < at BY <2>1, ArchiveFacts DEF TypeOK
      <4>4. Wanted("rpc") BY <2>1 DEF Wanted
      <4> QED BY <2>1, <4>1, <4>2, <4>3, <4>4 DEF WriteInv, SoFar
    <3>4. got \in Origin /\ got # None BY <2>1, Distinct DEF TypeOK, Origin
    <3> QED BY <2>1, <3>1, <3>2, <3>3, <3>4 DEF Entry
  <2> QED BY <2>3, <2>4
<1>4. CASE BoxCopy
  <2>1. pc' = "record" => written' = "partial" BY <1>4 DEF BoxCopy, Goto, Return
  <2> QED BY <2>1 DEF Recordable
<1>5. CASE Calms \/ UNCHANGED vars
  <2>1. UNCHANGED <<pc, got, written, data>> BY <1>5 DEF Calms, vars
  <2> QED BY <2>1 DEF WriteInv, Recordable
<1>6. CASE \/ \E c \in Call : Begin(c)
           \/ Check \/ RemoveOld \/ InstallTools \/ Clone \/ Checkout \/ Compile \/ Record
           \/ BoxBuild \/ Built \/ BuildFailed \/ Fetch \/ Unpack \/ Killed \/ Forget
  <2>1. pc' # "record"
    BY <1>6 DEF Begin, Check, RemoveOld, InstallTools, VulkanPanics, Clone, Checkout, Compile,
                Record, BoxBuild, Built, BuildFailed, Fetch, Unpack, Put, Killed, Forget, Goto,
                Return
  <2> QED BY <1>1, <2>1
<1> QED BY <1>2, <1>3, <1>4, <1>5, <1>6 DEF Next, Step

\* What may be taken for installed is a whole server, the libraries in lib/ are its own,
\* and the configuration names no other release, as long as no writing was left incomplete:
\* for any libraries, symlinks, releases and archives, whatever failed or was killed.
THEOREM AcceptedServersMatch == Spec => []AcceptsMatching
<1>1. TypeOK /\ WriteInv /\ [Next]_vars => WriteInv'
  BY SettledStep, SoFarStep, RecordableStep DEF WriteInv
<1>2. TypeOK /\ WriteInv => AcceptsMatching
  <2> SUFFICES ASSUME TypeOK, WriteInv, written # "partial", There("rpc")
               PROVE  /\ data["rpc"] \in Origin
                      /\ \A l \in Lib : data[l] \in {data["rpc"], None}
                      /\ written = "recorded" => version \in {data["rpc"], None}
    BY DEF AcceptsMatching
  <2>1. PICK o \in Origin : OfOrigin(o) BY DEF WriteInv, Settled
  <2>2. data["rpc"] = o BY <2>1 DEF There, OfOrigin, Entry
  <2> QED BY <2>1, <2>2 DEF OfOrigin, Entry
<1> QED BY <1>1, <1>2, InitTypes, InitWrite, TypeStep, PTL DEF Spec
=============================================================================
