---------------------------- MODULE KernelProofs ----------------------------
(***************************************************************************)
(* The whole kernel, proved: what the processes and the semaphores keep    *)
(* each on its own they keep together, over PCBs that are used again and   *)
(* over a second start of the system.                                      *)
(***************************************************************************)
EXTENDS Kernel, ProcessesProofs, QueueLemmas

-----------------------------------------------------------------------------
(***************************************************************************)
(* Resources. Their invariant knows nothing of the scheduler, nor of who   *)
(* calls.                                                                  *)
(***************************************************************************)

ResourceTypes ==
  /\ resource_type \in [ResIds -> ResTypes \union {NULL}]
  /\ res_descriptors \in [ResIds -> SUBSET ResDescs]
  /\ pcb_descriptors \in [Procs -> Seq(ResDescs)]
  /\ last_fd \in [Procs -> Nat]
  /\ res_descriptor \in [ResDescs -> Descriptor \union {NULL}]

\* What is on the list of a process is allocated for that process.
HeldBy(list, desc) ==
  \A p \in Procs : \A d \in Range(list[p]) : desc[d] # NULL /\ desc[d].pcb = p

\* The list of a process holds a descriptor once, and one of a number, which is
\* below the next one to be given.
Numbered(list, desc, last) ==
  \A p \in Procs :
    /\ IsInjective(list[p])
    /\ \A d \in Range(list[p]) : desc[d].fd < last[p]
    /\ \A d, e \in Range(list[p]) : desc[d].fd = desc[e].fd => d = e

\* The list of a resource holds its allocated descriptors, and only a resource
\* that exists has any.
Listed(type, lists, desc) ==
  \A r \in ResIds :
    /\ lists[r] = {d \in ResDescs : desc[d] # NULL /\ desc[d].res = r}
    /\ lists[r] # {} => type[r] # NULL

ResourcesInv ==
  /\ ResourceTypes
  /\ HeldBy(pcb_descriptors, res_descriptor)
  /\ Numbered(pcb_descriptors, res_descriptor, last_fd)
  /\ Listed(resource_type, res_descriptors, res_descriptor)

\* The invariant is stronger than the two properties of the runs, which speak
\* of the places in the lists.
LEMMA ResourcesInvGives ==
  ASSUME ResourcesInv
  PROVE  ResourcesConsistent /\ NumbersDistinct
<1>1. ASSUME NEW p \in Procs
      PROVE  /\ pcb_descriptors[p] \in Seq(ResDescs)
             /\ DOMAIN pcb_descriptors[p] = 1..Len(pcb_descriptors[p])
             /\ \A i \in DOMAIN pcb_descriptors[p] :
                  pcb_descriptors[p][i] \in Range(pcb_descriptors[p])
             /\ \A i, j \in DOMAIN pcb_descriptors[p] :
                  pcb_descriptors[p][i] = pcb_descriptors[p][j] => i = j
  <2>1. pcb_descriptors[p] \in Seq(ResDescs)
    BY DEF ResourcesInv, ResourceTypes
  <2>2. IsInjective(pcb_descriptors[p])
    BY DEF ResourcesInv, Numbered
  <2> QED BY <2>1, <2>2, RangeOf, LenProperties
<1>2. ASSUME NEW p \in Procs, NEW i \in DOMAIN pcb_descriptors[p]
      PROVE  /\ res_descriptor[pcb_descriptors[p][i]] # NULL
             /\ res_descriptor[pcb_descriptors[p][i]].pcb = p
  BY <1>1 DEF ResourcesInv, HeldBy
<1>3. ASSUME NEW p \in Procs, NEW i \in DOMAIN pcb_descriptors[p],
             NEW j \in DOMAIN pcb_descriptors[p],
             res_descriptor[pcb_descriptors[p][i]].fd = res_descriptor[pcb_descriptors[p][j]].fd
      PROVE  i = j
  BY <1>1, <1>3 DEF ResourcesInv, Numbered
<1>4. ResourcesConsistent
  BY <1>2 DEF ResourcesConsistent, ResourcesInv, Listed, resources_list
<1>5. NumbersDistinct
  BY <1>3 DEF NumbersDistinct
<1> QED BY <1>4, <1>5

\* No resource exists at the start.
LEMMA ResourcesInitInv ==
  ASSUME NoResources
  PROVE  ResourcesInv
<1>1. ResourceTypes
  <2>1. <<>> \in Seq(ResDescs)
    OBVIOUS
  <2> QED BY <2>1 DEF NoResources, ResourceTypes
<1>2. \A p \in Procs : pcb_descriptors[p] = <<>>
  BY DEF NoResources
<1>3. /\ HeldBy(pcb_descriptors, res_descriptor)
      /\ Numbered(pcb_descriptors, res_descriptor, last_fd)
  BY <1>2, EmptyRange DEF HeldBy, Numbered
<1>4. Listed(resource_type, res_descriptors, res_descriptor)
  BY DEF NoResources, Listed
<1> QED BY <1>1, <1>3, <1>4 DEF ResourcesInv

\* No descriptor is lost.
LostStay == LostDescriptors' \subseteq LostDescriptors

\* That is so if every allocated descriptor that no process has was allocated
\* before, and no process had it.
LEMMA LostStayIf ==
  ASSUME \A d \in ResDescs :
           /\ res_descriptor'[d] # NULL
           /\ \A p \in Procs : d \notin Range(pcb_descriptors'[p])
           => /\ res_descriptor[d] # NULL
              /\ \A p \in Procs : d \notin Range(pcb_descriptors[p])
  PROVE  LostStay
<1>1. \A d : d \in LostDescriptors <=>
              d \in ResDescs /\ res_descriptor[d] # NULL
              /\ \A p \in Procs : d \notin Range(pcb_descriptors[p])
  BY DEF LostDescriptors
<1>2. \A d : d \in LostDescriptors' <=>
              d \in ResDescs /\ res_descriptor'[d] # NULL
              /\ \A p \in Procs : d \notin Range(pcb_descriptors'[p])
  BY DEF LostDescriptors
<1> QED BY <1>1, <1>2 DEF LostStay

\* A call that fails changes no descriptor.
LEMMA FailedKeepsResources ==
  ASSUME ResourcesInv, UNCHANGED resVars
  PROVE  ResourcesInv' /\ LostStay
<1>1. LostStay
  BY LostStayIf DEF resVars
<1> QED BY <1>1 DEF ResourcesInv, ResourceTypes, HeldBy, Numbered, Listed, resVars

\* A resource comes into its list, or goes when it has no descriptor.
LEMMA TypeKeepsResources ==
  ASSUME ResourcesInv,
         resource_type' \in [ResIds -> ResTypes \union {NULL}],
         \A r \in ResIds : res_descriptors[r] # {} /\ resource_type[r] # NULL
                             => resource_type'[r] # NULL,
         UNCHANGED <<res_descriptors, pcb_descriptors, last_fd, res_descriptor>>
  PROVE  ResourcesInv' /\ LostStay
<1>1. LostStay
  BY LostStayIf
<1> QED BY <1>1 DEF ResourcesInv, ResourceTypes, HeldBy, Numbered, Listed

\* What a call of open may do to the list of resources.
LEMMA ResourceReadyStep ==
  ASSUME ResourcesInv, NEW id \in ResIds, NEW t \in ResTypes, NEW mode \in Modes,
         ResourceReady(id, t, mode)
  PROVE  /\ resource_type' \in [ResIds -> ResTypes \union {NULL}]
         /\ resource_type'[id] # NULL
         /\ \A r \in ResIds : resource_type[r] # NULL => resource_type'[r] # NULL
<1>1. /\ resource_type \in [ResIds -> ResTypes \union {NULL}]
      /\ t # NULL
  BY ResourcesAssumption DEF ResourcesInv, ResourceTypes
<1>2. CASE resource_type' = [resource_type EXCEPT ![id] = t]
  BY <1>1, <1>2
<1>3. CASE resource_type[id] = t /\ UNCHANGED resource_type
  BY <1>1, <1>3
<1> QED BY <1>2, <1>3 DEF ResourceReady

\* open: the new descriptor has the next number.
LEMMA OpenKeepsResources ==
  ASSUME ResourcesInv, NEW p \in Procs, NEW id \in ResIds, NEW t \in ResTypes,
         NEW mode \in Modes, OpenDescriptor(p, id, t, mode)
  PROVE  ResourcesInv' /\ LostStay
<1>1. PICK d \in ResDescs :
        /\ res_descriptor[d] = NULL
        /\ res_descriptor' = [res_descriptor EXCEPT
                                ![d] = [pcb |-> p, fd |-> last_fd[p], res |-> id]]
        /\ pcb_descriptors' = [pcb_descriptors EXCEPT ![p] = Append(@, d)]
        /\ res_descriptors' = [res_descriptors EXCEPT ![id] = @ \union {d}]
  BY DEF OpenDescriptor
<1>2. /\ last_fd' = [last_fd EXCEPT ![p] = @ + 1]
      /\ ResourceReady(id, t, mode)
  BY DEF OpenDescriptor
<1>3. /\ resource_type' \in [ResIds -> ResTypes \union {NULL}]
      /\ resource_type'[id] # NULL
      /\ \A r \in ResIds : resource_type[r] # NULL => resource_type'[r] # NULL
  BY <1>2, ResourceReadyStep
<1> DEFINE new == [pcb |-> p, fd |-> last_fd[p], res |-> id]
<1>4. last_fd[p] \in Nat
  BY DEF ResourcesInv, ResourceTypes
<1>5. /\ new \in Descriptor /\ new # NULL
      /\ new.pcb = p /\ new.fd = last_fd[p] /\ new.res = id
  <2>1. new \in Descriptor
    BY <1>4 DEF Descriptor
  <2> QED BY <2>1, ResourcesAssumption
<1>6. /\ res_descriptor \in [ResDescs -> Descriptor \union {NULL}]
      /\ res_descriptor' = [res_descriptor EXCEPT ![d] = new]
  BY <1>1 DEF ResourcesInv, ResourceTypes
<1> HIDE DEF new
<1>7. /\ res_descriptor'[d] = new
      /\ \A e \in ResDescs \ {d} : res_descriptor'[e] = res_descriptor[e]
      /\ res_descriptor' \in [ResDescs -> Descriptor \union {NULL}]
  BY <1>5, <1>6
<1>8. /\ pcb_descriptors \in [Procs -> Seq(ResDescs)]
      /\ pcb_descriptors[p] \in Seq(ResDescs)
      /\ \A q \in Procs : pcb_descriptors[q] \in Seq(ResDescs)
  BY DEF ResourcesInv, ResourceTypes
<1>9. \A q \in Procs : d \notin Range(pcb_descriptors[q]) /\ Range(pcb_descriptors[q]) \subseteq ResDescs
  BY <1>1, <1>8, RangeOf DEF ResourcesInv, HeldBy
<1> DEFINE longer == Append(pcb_descriptors[p], d)
<1>10. /\ longer \in Seq(ResDescs)
       /\ Range(longer) = Range(pcb_descriptors[p]) \union {d}
       /\ IsInjective(longer)
  BY <1>8, <1>9, AppendRange DEF ResourcesInv, Numbered
<1>11. pcb_descriptors' = [pcb_descriptors EXCEPT ![p] = longer]
  BY <1>1
<1> HIDE DEF longer
<1>12. /\ pcb_descriptors' \in [Procs -> Seq(ResDescs)]
       /\ pcb_descriptors'[p] = longer
       /\ \A q \in Procs \ {p} : pcb_descriptors'[q] = pcb_descriptors[q]
  BY <1>8, <1>10, <1>11
<1>13. /\ last_fd' \in [Procs -> Nat]
       /\ last_fd'[p] = last_fd[p] + 1
       /\ \A q \in Procs \ {p} : last_fd'[q] = last_fd[q]
  BY <1>2, <1>4 DEF ResourcesInv, ResourceTypes
<1>14. /\ res_descriptors' \in [ResIds -> SUBSET ResDescs]
       /\ res_descriptors'[id] = res_descriptors[id] \union {d}
       /\ \A r \in ResIds \ {id} : res_descriptors'[r] = res_descriptors[r]
  BY <1>1 DEF ResourcesInv, ResourceTypes
<1>15. ResourceTypes'
  BY <1>3, <1>7, <1>12, <1>13, <1>14 DEF ResourceTypes
<1>16. \A q \in Procs : \A e \in Range(pcb_descriptors[q]) :
         /\ res_descriptor'[e] = res_descriptor[e]
         /\ res_descriptor[e] # NULL
         /\ res_descriptor[e].pcb = q
         /\ res_descriptor[e].fd \in Int
         /\ res_descriptor[e].fd < last_fd[q]
  BY <1>6, <1>7, <1>9 DEF ResourcesInv, HeldBy, Numbered, Descriptor
<1>17. HeldBy(pcb_descriptors', res_descriptor')
  <2>1. \A e \in Range(longer) : res_descriptor'[e] # NULL /\ res_descriptor'[e].pcb = p
    BY <1>5, <1>7, <1>10, <1>16
  <2> QED BY <2>1, <1>12, <1>16 DEF HeldBy
<1>18. Numbered(pcb_descriptors', res_descriptor', last_fd')
  <2>1. \A e \in Range(longer) : res_descriptor'[e].fd < last_fd[p] + 1
    BY <1>4, <1>5, <1>7, <1>10, <1>16
  <2>2. \A e, f \in Range(longer) : res_descriptor'[e].fd = res_descriptor'[f].fd => e = f
    <3>1. \A e, f \in Range(pcb_descriptors[p]) :
            res_descriptor[e].fd = res_descriptor[f].fd => e = f
      BY DEF ResourcesInv, Numbered
    <3> QED BY <3>1, <1>4, <1>5, <1>7, <1>10, <1>16
  <2>3. ASSUME NEW q \in Procs \ {p}
        PROVE  /\ IsInjective(pcb_descriptors'[q])
               /\ \A e \in Range(pcb_descriptors'[q]) : res_descriptor'[e].fd < last_fd'[q]
               /\ \A e, f \in Range(pcb_descriptors'[q]) :
                    res_descriptor'[e].fd = res_descriptor'[f].fd => e = f
    <3>1. /\ pcb_descriptors'[q] = pcb_descriptors[q]
          /\ last_fd'[q] = last_fd[q]
          /\ \A e \in Range(pcb_descriptors[q]) : res_descriptor'[e] = res_descriptor[e]
      BY <1>12, <1>13, <1>16
    <3>2. /\ IsInjective(pcb_descriptors[q])
          /\ \A e \in Range(pcb_descriptors[q]) : res_descriptor[e].fd < last_fd[q]
          /\ \A e, f \in Range(pcb_descriptors[q]) :
               res_descriptor[e].fd = res_descriptor[f].fd => e = f
      BY DEF ResourcesInv, Numbered
    <3> QED BY <3>1, <3>2
  <2> QED BY <2>1, <2>2, <2>3, <1>10, <1>12, <1>13 DEF Numbered
<1>19. Listed(resource_type', res_descriptors', res_descriptor')
  <2>1. ASSUME NEW r \in ResIds
        PROVE  res_descriptors'[r] = {e \in ResDescs : /\ res_descriptor'[e] # NULL
                                                       /\ res_descriptor'[e].res = r}
    <3>1. res_descriptors[r] = {e \in ResDescs : /\ res_descriptor[e] # NULL
                                                 /\ res_descriptor[e].res = r}
      BY DEF ResourcesInv, Listed
    <3>2. CASE r = id
      BY <3>1, <3>2, <1>1, <1>5, <1>7, <1>14
    <3>3. CASE r # id
      BY <3>1, <3>3, <1>1, <1>5, <1>7, <1>14
    <3> QED BY <3>2, <3>3
  <2>2. \A r \in ResIds : res_descriptors'[r] # {} => resource_type'[r] # NULL
    BY <1>3, <1>14 DEF ResourcesInv, Listed
  <2> QED BY <2>1, <2>2 DEF Listed
<1>20. LostStay
  <2>1. \A q \in Procs : Range(pcb_descriptors[q]) \subseteq Range(pcb_descriptors'[q])
    BY <1>10, <1>12
  <2>2. d \in Range(pcb_descriptors'[p])
    BY <1>10, <1>12
  <2> QED BY <2>1, <2>2, <1>7, LostStayIf
<1> QED BY <1>15, <1>17, <1>18, <1>19, <1>20 DEF ResourcesInv

\* A process drops descriptors from its list: they are freed.
LEMMA DropKeepsResources ==
  ASSUME ResourcesInv, NEW p \in Procs, NEW list \in Seq(ResDescs),
         NEW ds \in SUBSET Range(pcb_descriptors[p]),
         IsInjective(list), Range(list) = Range(pcb_descriptors[p]) \ ds,
         pcb_descriptors' = [pcb_descriptors EXCEPT ![p] = list],
         FreeDescriptors(ds),
         UNCHANGED <<resource_type, last_fd>>
  PROVE  ResourcesInv' /\ LostStay
<1>1. /\ pcb_descriptors \in [Procs -> Seq(ResDescs)]
      /\ res_descriptor \in [ResDescs -> Descriptor \union {NULL}]
      /\ res_descriptors \in [ResIds -> SUBSET ResDescs]
      /\ last_fd \in [Procs -> Nat]
      /\ resource_type \in [ResIds -> ResTypes \union {NULL}]
  BY DEF ResourcesInv, ResourceTypes
<1>2. \A q \in Procs : Range(pcb_descriptors[q]) \subseteq ResDescs
  BY <1>1, RangeOf
<1>3. /\ \A d \in ResDescs : res_descriptor'[d] = IF d \in ds THEN NULL ELSE res_descriptor[d]
      /\ res_descriptor' \in [ResDescs -> Descriptor \union {NULL}]
      /\ \A r \in ResIds : res_descriptors'[r] = res_descriptors[r] \ ds
      /\ res_descriptors' \in [ResIds -> SUBSET ResDescs]
  BY <1>1 DEF FreeDescriptors
<1>4. /\ pcb_descriptors' \in [Procs -> Seq(ResDescs)]
      /\ pcb_descriptors'[p] = list
      /\ \A q \in Procs \ {p} : pcb_descriptors'[q] = pcb_descriptors[q]
  BY <1>1
<1>5. ResourceTypes'
  BY <1>1, <1>3, <1>4 DEF ResourceTypes
<1>6. \A q \in Procs : \A d \in Range(pcb_descriptors[q]) :
        res_descriptor[d] # NULL /\ res_descriptor[d].pcb = q
  BY DEF ResourcesInv, HeldBy
<1>7. \A q \in Procs : \A d \in Range(pcb_descriptors'[q]) :
        /\ d \in Range(pcb_descriptors[q])
        /\ res_descriptor'[d] = res_descriptor[d]
  <2>1. \A d \in Range(list) : d \in Range(pcb_descriptors[p]) /\ d \notin ds
    OBVIOUS
  <2>2. \A q \in Procs \ {p} : \A d \in Range(pcb_descriptors[q]) : d \notin ds
    BY <1>6
  <2> QED BY <2>1, <2>2, <1>2, <1>3, <1>4
<1>8. HeldBy(pcb_descriptors', res_descriptor')
  BY <1>6, <1>7 DEF HeldBy
<1>9. Numbered(pcb_descriptors', res_descriptor', last_fd')
  <2>1. \A q \in Procs : IsInjective(pcb_descriptors'[q])
    BY <1>4 DEF ResourcesInv, Numbered
  <2>2. \A q \in Procs :
          /\ \A d \in Range(pcb_descriptors[q]) : res_descriptor[d].fd < last_fd[q]
          /\ \A d, e \in Range(pcb_descriptors[q]) :
               res_descriptor[d].fd = res_descriptor[e].fd => d = e
    BY DEF ResourcesInv, Numbered
  <2> QED BY <2>1, <2>2, <1>7 DEF Numbered
<1>10. Listed(resource_type', res_descriptors', res_descriptor')
  <2>1. ASSUME NEW r \in ResIds
        PROVE  /\ res_descriptors'[r] = {d \in ResDescs : /\ res_descriptor'[d] # NULL
                                                          /\ res_descriptor'[d].res = r}
               /\ res_descriptors'[r] # {} => resource_type'[r] # NULL
    <3>1. /\ res_descriptors[r] = {d \in ResDescs : /\ res_descriptor[d] # NULL
                                                    /\ res_descriptor[d].res = r}
          /\ res_descriptors[r] # {} => resource_type[r] # NULL
      BY DEF ResourcesInv, Listed
    <3> QED BY <3>1, <1>3
  <2> QED BY <2>1 DEF Listed
<1>11. LostStay
  <2>1. \A q \in Procs : \A d \in Range(pcb_descriptors[q]) :
          d \in ds \/ d \in Range(pcb_descriptors'[q])
    BY <1>4
  <2> QED BY <2>1, <1>3, LostStayIf
<1> QED BY <1>5, <1>8, <1>9, <1>10, <1>11 DEF ResourcesInv

\* close: the descriptor of the given number.
LEMMA CloseKeepsResources ==
  ASSUME ResourcesInv, NEW p \in Procs, NEW fd \in ResFds, CloseFound(p, fd)
  PROVE  ResourcesInv' /\ LostStay
<1>1. PICK i \in DOMAIN pcb_descriptors[p] :
        /\ pcb_descriptors' = [pcb_descriptors EXCEPT ![p] = RemoveAt(@, i)]
        /\ FreeDescriptors({pcb_descriptors[p][i]})
  BY DEF CloseFound
<1> DEFINE old == pcb_descriptors[p]
           list == RemoveAt(old, i)
           ds == {old[i]}
<1>2. /\ old \in Seq(ResDescs)
      /\ IsInjective(old)
  BY DEF ResourcesInv, ResourceTypes, Numbered
<1>3. i \in 1..Len(old) /\ old[i] \in Range(old)
  BY <1>2, RangeOf, LenProperties
<1>4. /\ list \in Seq(ResDescs)
      /\ IsInjective(list)
      /\ Range(list) = Range(old) \ ds
  BY <1>2, <1>3, RemoveAtRange
<1>5. ds \in SUBSET Range(old)
  BY <1>3
<1>6. UNCHANGED <<resource_type, last_fd>>
  BY DEF CloseFound, LastFdAfterClose
<1>7. pcb_descriptors' = [pcb_descriptors EXCEPT ![p] = list]
  BY <1>1
<1> HIDE DEF list
<1> QED BY <1>1, <1>4, <1>5, <1>6, <1>7, DropKeepsResources

\* exit: the PCB is freed, with all the descriptors on its list.
LEMMA ReleaseKeepsResources ==
  ASSUME ResourcesInv, NEW p \in Procs, ReleaseResources(p)
  PROVE  ResourcesInv' /\ LostStay
<1>1. /\ pcb_descriptors' = [pcb_descriptors EXCEPT ![p] = <<>>]
      /\ FreeDescriptors(Range(pcb_descriptors[p]))
      /\ UNCHANGED <<resource_type, last_fd>>
  BY DEF ReleaseResources
<1>2. <<>> \in Seq(ResDescs) /\ IsInjective(<<>>) /\ Range(<<>>) = {}
  BY EmptyRange
<1> QED BY <1>1, <1>2, DropKeepsResources

\* PCB_alloc: the list of the block is dropped, and the descriptors on it stay
\* allocated, on the lists of their resources.
LEMMA AllocKeepsResources ==
  ASSUME ResourcesInv, NEW p, AllocDescriptors(p)
  PROVE  ResourcesInv'
<1>1. /\ pcb_descriptors' = [pcb_descriptors EXCEPT ![p] = <<>>]
      /\ last_fd' = [last_fd EXCEPT ![p] = 0]
      /\ UNCHANGED <<resource_type, res_descriptors, res_descriptor>>
  BY DEF AllocDescriptors
<1>2. <<>> \in Seq(ResDescs) /\ IsInjective(<<>>) /\ Range(<<>>) = {}
  BY EmptyRange
<1>3. /\ pcb_descriptors \in [Procs -> Seq(ResDescs)]
      /\ last_fd \in [Procs -> Nat]
  BY DEF ResourcesInv, ResourceTypes
<1>4. /\ pcb_descriptors' \in [Procs -> Seq(ResDescs)]
      /\ last_fd' \in [Procs -> Nat]
      /\ \A q \in Procs : \/ pcb_descriptors'[q] = <<>>
                          \/ /\ pcb_descriptors'[q] = pcb_descriptors[q]
                             /\ last_fd'[q] = last_fd[q]
  BY <1>1, <1>2, <1>3
<1>5. ResourceTypes'
  BY <1>1, <1>4 DEF ResourcesInv, ResourceTypes
<1>6. HeldBy(pcb_descriptors', res_descriptor')
  BY <1>1, <1>2, <1>4 DEF ResourcesInv, HeldBy
<1>7. Numbered(pcb_descriptors', res_descriptor', last_fd')
  <2>1. ASSUME NEW q \in Procs
        PROVE  /\ IsInjective(pcb_descriptors'[q])
               /\ \A d \in Range(pcb_descriptors'[q]) : res_descriptor'[d].fd < last_fd'[q]
               /\ \A d, e \in Range(pcb_descriptors'[q]) :
                    res_descriptor'[d].fd = res_descriptor'[e].fd => d = e
    <3>1. CASE pcb_descriptors'[q] = <<>>
      BY <3>1, <1>2
    <3>2. CASE pcb_descriptors'[q] = pcb_descriptors[q] /\ last_fd'[q] = last_fd[q]
      BY <3>2, <1>1 DEF ResourcesInv, Numbered
    <3> QED BY <3>1, <3>2, <1>4
  <2> QED BY <2>1 DEF Numbered
<1>8. Listed(resource_type', res_descriptors', res_descriptor')
  BY <1>1 DEF ResourcesInv, Listed
<1> QED BY <1>5, <1>6, <1>7, <1>8 DEF ResourcesInv

\* The three calls.
LEMMA CallKeepsResources ==
  ASSUME ResourcesInv, NEW p \in Procs, ResourceCall(p)
  PROVE  ResourcesInv' /\ LostStay
<1>1. ASSUME NEW id \in ResIds, NEW t \in ResTypes, NEW mode \in Modes,
             OpenResource(p, id, t, mode)
      PROVE  ResourcesInv' /\ LostStay
  <2>1. CASE UNCHANGED resVars
    BY <2>1, FailedKeepsResources
  <2>2. CASE OpenNoDescriptor(p, id, t, mode)
    <3>1. /\ ResourceReady(id, t, mode)
          /\ UNCHANGED <<res_descriptors, pcb_descriptors, last_fd, res_descriptor>>
      BY <2>2 DEF OpenNoDescriptor
    <3>2. /\ resource_type' \in [ResIds -> ResTypes \union {NULL}]
          /\ \A r \in ResIds : resource_type[r] # NULL => resource_type'[r] # NULL
      BY <3>1, ResourceReadyStep
    <3> QED BY <3>1, <3>2, TypeKeepsResources
  <2>3. CASE OpenDescriptor(p, id, t, mode)
    BY <2>3, OpenKeepsResources
  <2> QED BY <1>1, <2>1, <2>2, <2>3
        DEF OpenResource, OpenExists, OpenNoResource, OpenUnknown, OpenInUse
<1>2. ASSUME NEW fd \in ResFds, CloseResource(p, fd)
      PROVE  ResourcesInv' /\ LostStay
  BY <1>2, CloseKeepsResources, FailedKeepsResources DEF CloseResource, CloseUnknown
<1>3. ASSUME NEW id \in ResIds, DestroyResource(p, id)
      PROVE  ResourcesInv' /\ LostStay
  <2>1. CASE UNCHANGED resVars
    BY <2>1, FailedKeepsResources
  <2>2. CASE DestroyFound(p, id)
    <3>1. /\ res_descriptors[id] = {}
          /\ resource_type' = [resource_type EXCEPT ![id] = NULL]
          /\ UNCHANGED <<res_descriptors, pcb_descriptors, last_fd, res_descriptor>>
      BY <2>2 DEF DestroyFound
    <3>2. /\ resource_type' \in [ResIds -> ResTypes \union {NULL}]
          /\ \A r \in ResIds : res_descriptors[r] # {} /\ resource_type[r] # NULL
                                 => resource_type'[r] # NULL
      BY <3>1 DEF ResourcesInv, ResourceTypes
    <3> QED BY <3>1, <3>2, TypeKeepsResources
  <2> QED BY <1>3, <2>1, <2>2 DEF DestroyResource, DestroyUnknown, DestroyInUse
<1> QED BY <1>1, <1>2, <1>3 DEF ResourceCall

\* The first free PCB is given out.
GivesOut ==
  /\ free_pcbs # <<>>
  /\ free_pcbs' = Tail(free_pcbs)
  /\ AllocDescriptors(Head(free_pcbs))

\* Every step of the kernel keeps the invariant of the resources, and loses no
\* descriptor if it gives out no PCB.
LEMMA ResourcesStep ==
  ASSUME ResourcesInv, [KernelNext]_kernelVars
  PROVE  ResourcesInv' /\ (GivesOut \/ LostStay)
<1>1. CASE UNCHANGED resVars
  BY <1>1, FailedKeepsResources
<1>2. CASE GivesOut
  BY <1>2, AllocKeepsResources DEF GivesOut
<1>3. Restart => GivesOut \/ UNCHANGED resVars
  BY DEF Restart, GivesOut
<1>4. ASSUME NEW p \in Procs, KernelSpawn(p)
      PROVE  GivesOut \/ UNCHANGED resVars
  <2>1. CASE SpawnChild(p)
    BY <1>4, <2>1 DEF KernelSpawn, SpawnChild, Spawn, GivesOut
  <2>2. CASE SpawnFails(p)
    BY <1>4, <2>2 DEF KernelSpawn, SpawnFails, Crash
  <2> QED BY <1>4, <2>1, <2>2 DEF KernelSpawn, Spawn
<1>5. ASSUME NEW p \in Procs, KernelExit(p)
      PROVE  ResourcesInv' /\ LostStay
  BY <1>5, FailedKeepsResources, ReleaseKeepsResources DEF KernelExit
<1>6. ASSUME NEW p \in Procs, ResourceCall(p)
      PROVE  ResourcesInv' /\ LostStay
  BY <1>6, CallKeepsResources
<1> QED BY <1>1, <1>2, <1>3, <1>4, <1>5, <1>6 DEF KernelNext, kernelVars

-----------------------------------------------------------------------------
(***************************************************************************)
(* Processes and semaphores together. The invariants of ProcessesProofs    *)
(* and QueueLemmas need each other through the waiting list: exit wakes    *)
(* whom it finds there in disastrOS_wait, semPost whom it finds in a queue,*)
(* and neither looks whether somebody else has that process too.           *)
(***************************************************************************)

\* Whoever is blocked without a timer waits for a semaphore or for a child, and
\* the number of its call says which.
Reasons ==
  /\ SemWaiters \subseteq waiting_list \ TimerProcs
  /\ \A p \in SemWaiters : syscall[p].num = "SEMWAIT"
  /\ \A p \in waiting_list \ TimerProcs : p \in SemWaiters \/ syscall[p].num = "WAIT"

KernelInv == ProcInv /\ QueueInv /\ Reasons

\* The three ways to be blocked are apart, because their calls are.
LEMMA ReasonsGive ==
  ASSUME KernelInv
  PROVE  BlockedForOneReason
<1>1. /\ TimerProcs \subseteq waiting_list
      /\ \A p \in TimerProcs : syscall[p].num = "SLEEP"
      /\ Reasons
  BY DEF KernelInv, ProcInv, TimersInv, TimersSorted, SleepersCall
<1>2. waiting_list = TimerProcs \union SemWaiters \union WaitCallers
  BY <1>1 DEF Reasons, WaitCallers
<1>3. /\ TimerProcs \intersect SemWaiters = {}
      /\ WaitCallers \intersect (TimerProcs \union SemWaiters) = {}
  BY <1>1 DEF Reasons, WaitCallers
<1>4. QueuedOnce
  BY DEF KernelInv, QueueInv
<1> QED BY <1>2, <1>3, <1>4 DEF BlockedForOneReason

\* The blocked processes that have no timer stay, in the queues that they are in.
LEMMA ReasonsStay ==
  ASSUME Reasons,
         waiting_list' \ TimerProcs' = waiting_list \ TimerProcs,
         SemWaiters' = SemWaiters,
         \A p \in waiting_list : syscall'[p] = syscall[p]
  PROVE  Reasons'
<1>1. /\ SemWaiters \subseteq waiting_list' \ TimerProcs'
      /\ \A p \in waiting_list' \ TimerProcs' : p \in waiting_list /\ syscall'[p] = syscall[p]
  BY DEF Reasons
<1> QED BY <1>1 DEF Reasons

\* The queues depend on nothing but the variables of the semaphores.
LEMMA QueuesAlone ==
  ASSUME QueueInv, UNCHANGED semVars
  PROVE  QueueInv' /\ SemWaiters' = SemWaiters
BY FailedKeepsQueues

\* The running process waits for nothing.
LEMMA RunningWaitsForNothing ==
  ASSUME KernelInv, NEW p \in Procs, running = p
  PROVE  p \notin waiting_list /\ p \notin SemWaiters
BY ProcInvParts DEF KernelInv, Placed, Reasons

\* The scheduler and its timers.
LEMMA KernelScheduler ==
  ASSUME KernelInv, Next, UNCHANGED <<treeVars, semVars>>
  PROVE  KernelInv'
<1>1. ProcInv'
  BY SchedulerKeeps DEF KernelInv
<1>2. QueueInv' /\ SemWaiters' = SemWaiters
  BY QueuesAlone DEF KernelInv
<1>3. Reasons'
  BY <1>2, SchedulerMovesSleepers, ReasonsStay DEF KernelInv
<1> QED BY <1>1, <1>2, <1>3 DEF KernelInv

\* wait: the caller that blocks joins those that wait for a child.
LEMMA KernelWait ==
  ASSUME KernelInv, NEW p \in Procs, NEW c \in WaitPids, Wait(p, c), UNCHANGED semVars
  PROVE  KernelInv'
<1>1. ProcInv'
  BY WaitKeeps DEF KernelInv
<1>2. QueueInv' /\ SemWaiters' = SemWaiters
  BY QueuesAlone DEF KernelInv
<1>3. c \in Int /\ "WAIT" \in SyscallNums /\ Syscall(p, "WAIT", c)
  BY ProcessesAssumption DEF SyscallNums, Wait
<1>4. /\ syscall'[p] = [num |-> "WAIT", arg |-> c]
      /\ \A q \in Procs \ {p} : syscall'[q] = syscall[q]
      /\ p \notin waiting_list
      /\ waiting_list \subseteq Procs
  BY <1>3, CallOfRunning DEF KernelInv, ProcInv, ProcTypes
<1>5. syscall'[p].num = "WAIT" /\ \A q \in waiting_list : syscall'[q] = syscall[q]
  BY <1>4
<1>6. CASE UNCHANGED schedVars
  <2>1. waiting_list' = waiting_list /\ TimerProcs' = TimerProcs
    BY <1>6 DEF schedVars, TimerProcs
  <2> QED BY <1>1, <1>2, <1>5, <2>1, ReasonsStay DEF KernelInv
<1>7. CASE waiting_list' = waiting_list \union {p} /\ UNCHANGED timer_list
  <2>1. TimerProcs' = TimerProcs
    BY <1>7 DEF TimerProcs
  <2>2. Reasons'
    BY <1>2, <1>4, <1>5, <1>7, <2>1 DEF KernelInv, Reasons
  <2> QED BY <1>1, <1>2, <2>2 DEF KernelInv
<1> QED BY <1>6, <1>7 DEF Wait, WaitNoChildren, WaitReap, WaitBlock, Block, Crash

\* exit wakes a process that waits for a child, and no other.
LEMMA KernelExitKeeps ==
  ASSUME KernelInv, NEW p \in Procs, Exit(p), UNCHANGED semVars
  PROVE  KernelInv'
<1>1. ProcInv'
  BY ExitKeeps DEF KernelInv
<1>2. QueueInv' /\ SemWaiters' = SemWaiters
  BY QueuesAlone DEF KernelInv
<1>3. 0 \in Int /\ "EXIT" \in SyscallNums /\ Syscall(p, "EXIT", 0)
  BY DEF SyscallNums, Exit
<1>4. /\ \A q \in Procs \ {p} : syscall'[q] = syscall[q]
      /\ p \notin waiting_list
      /\ waiting_list \subseteq Procs
      /\ StatusMatchesLists
      /\ parent \in [Procs -> Procs \union {NULL}]
  BY <1>3, CallOfRunning DEF KernelInv, ProcInv, ProcTypes
<1>5. \A q \in waiting_list : syscall'[q] = syscall[q]
  BY <1>4
<1>6. CASE UNCHANGED <<waiting_list, timer_list>>
  <2>1. waiting_list' = waiting_list /\ TimerProcs' = TimerProcs
    BY <1>6 DEF TimerProcs
  <2> QED BY <1>1, <1>2, <1>5, <2>1, ReasonsStay DEF KernelInv
<1>7. CASE parent[p] # NULL /\ ExitToParent(p)
  <2> DEFINE par == parent[p]
  <2>1. /\ waiting_list' = waiting_list \ {par}
        /\ syscall[par].num = "WAIT"
        /\ timer_list' = timer_list
    BY <1>7 DEF ExitToParent, WakeParent, ParentWaits
  <2>2. TimerProcs' = TimerProcs
    BY <2>1 DEF TimerProcs
  <2>3. par \notin SemWaiters
    BY <2>1 DEF KernelInv, Reasons
  <2> HIDE DEF par
  <2>4. Reasons'
    BY <1>2, <1>5, <2>1, <2>2, <2>3 DEF KernelInv, Reasons
  <2> QED BY <1>1, <1>2, <2>4 DEF KernelInv
<1> QED BY <1>6, <1>7 DEF Exit, ExitOfInit, ExitToStranger, ExitToZombie, Crash, schedVars

\* PCB_alloc gives the block a next semaphore number, and leaves the rest.
LEMMA AllocKeepsQueues ==
  ASSUME QueueInv, NEW p \in Procs, AllocDescriptors(p)
  PROVE  QueueInv' /\ SemWaiters' = SemWaiters
<1>1. /\ UNCHANGED <<semaphores, count, descriptors, waiting_descriptors,
                     sem_descriptors, descriptor>>
      /\ last_sem_fd' = [last_sem_fd EXCEPT ![p] = 0]
  BY DEF AllocDescriptors
<1>2. QueuedOnce' /\ QueuesStay /\ SemWaiters' = SemWaiters
  BY <1>1, QueuesSame
<1>3. last_sem_fd' \in [Procs -> Int]
  BY <1>1 DEF QueueInv, SemTypes
<1>4. SemTypes' /\ DescriptorsConsistent' /\ WaitersWithinCount'
  BY <1>1, <1>3 DEF QueueInv, SemTypes, DescriptorsConsistent, OpenOn, WaitersWithinCount
<1> QED BY <1>2, <1>4 DEF QueueInv

\* spawn: the new process is ready.
LEMMA KernelSpawnKeeps ==
  ASSUME KernelInv, NEW p \in Procs, KernelSpawn(p)
  PROVE  KernelInv'
<1>1. ~fault /\ running = p /\ (SpawnChild(p) \/ SpawnFails(p))
  BY DEF KernelSpawn, Spawn
<1>2. CASE SpawnFails(p)
  <2>1. /\ Syscall(p, "SPAWN", 0) /\ Crash /\ UNCHANGED treeVars
        /\ "SPAWN" \in SyscallNums /\ 0 \in Int
    BY <1>2 DEF SpawnFails, SyscallNums
  <2>2. ProcInv'
    BY <2>1, CrashKeeps DEF KernelInv
  <2>3. UNCHANGED semVars /\ UNCHANGED schedVars
    BY <2>1 DEF KernelSpawn, Crash
  <2>4. QueueInv' /\ SemWaiters' = SemWaiters
    BY <2>3, QueuesAlone DEF KernelInv
  <2>5. waiting_list' = waiting_list /\ TimerProcs' = TimerProcs
    BY <2>3 DEF schedVars, TimerProcs
  <2>6. \A q \in waiting_list : syscall'[q] = syscall[q]
    BY <2>1, CallOfRunning DEF KernelInv, ProcInv, ProcTypes
  <2> QED BY <2>2, <2>4, <2>5, <2>6, ReasonsStay DEF KernelInv
<1>3. CASE SpawnChild(p)
  <2> DEFINE child == Head(free_pcbs)
  <2>1. /\ free_pcbs # <<>>
        /\ fault' = fault
        /\ UNCHANGED <<waiting_list, timer_list>>
        /\ syscall' = [syscall EXCEPT ![child] = NoCall, ![p] = [num |-> "SPAWN", arg |-> 0]]
    BY <1>3 DEF SpawnChild
  <2>2. free_pcbs \in Seq(Procs)
    BY DEF KernelInv, ProcInv, ProcTypes
  <2>3. child \in Procs /\ child \in Range(free_pcbs)
    BY <2>1, <2>2, TailRange
  <2>4. AllocDescriptors(child)
    BY <1>1, <2>1 DEF KernelSpawn
  <2>5. child \notin waiting_list
    BY <2>3, ProcInvParts DEF KernelInv, Placed
  <2> HIDE DEF child
  <2>6. ProcInv'
    BY <1>1, <1>3, SpawnChildKeeps DEF KernelInv
  <2>7. QueueInv' /\ SemWaiters' = SemWaiters
    BY <2>3, <2>4, AllocKeepsQueues DEF KernelInv
  <2>8. waiting_list' = waiting_list /\ TimerProcs' = TimerProcs
    BY <2>1 DEF TimerProcs
  <2>9. \A q \in waiting_list : syscall'[q] = syscall[q]
    BY <1>1, <2>1, <2>5, RunningWaitsForNothing DEF KernelInv, ProcInv, ProcTypes
  <2> QED BY <2>6, <2>7, <2>8, <2>9, ReasonsStay DEF KernelInv
<1> QED BY <1>1, <1>2, <1>3

-----------------------------------------------------------------------------
(***************************************************************************)
(* The calls of the semaphores.                                            *)
(***************************************************************************)

\* A call that answers or follows a null pointer moves nobody.
LEMMA KernelQuietCall ==
  ASSUME KernelInv, NEW p \in Procs, NEW num \in SyscallNums, NEW arg \in Int,
         Syscall(p, num, arg),
         Crash \/ \E v \in Int : Answer(p, v),
         QueueInv', SemWaiters' = SemWaiters, UNCHANGED treeVars
  PROVE  KernelInv'
<1>1. /\ running = p
      /\ syscall' \in [Procs -> [num : SyscallNums, arg : Int]]
      /\ \A q \in Procs \ {p} : syscall'[q] = syscall[q]
      /\ p \notin waiting_list
  BY CallOfRunning DEF KernelInv
<1>2. UNCHANGED schedVars
  BY DEF Crash, Answer
<1>3. syscall_retvalue' \in [Procs -> Int] /\ fault' \in BOOLEAN
  BY DEF Crash, Answer, KernelInv, ProcInv, ProcTypes
<1>4. ProcInv'
  BY <1>1, <1>2, <1>3, QuietKeeps DEF KernelInv
<1>5. waiting_list' = waiting_list /\ TimerProcs' = TimerProcs /\ waiting_list \subseteq Procs
  BY <1>2 DEF schedVars, TimerProcs, KernelInv, ProcInv, ProcTypes
<1>6. \A q \in waiting_list : syscall'[q] = syscall[q]
  BY <1>1, <1>5
<1> QED BY <1>4, <1>5, <1>6, ReasonsStay DEF KernelInv

\* Such a call that changes no semaphore, either.
LEMMA KernelFailedCall ==
  ASSUME KernelInv, NEW p \in Procs, NEW num \in SyscallNums, NEW arg \in Int,
         Syscall(p, num, arg),
         Crash \/ \E v \in Int : Answer(p, v),
         UNCHANGED semVars, UNCHANGED treeVars
  PROVE  KernelInv'
<1>1. QueueInv' /\ SemWaiters' = SemWaiters
  BY QueuesAlone DEF KernelInv
<1> QED BY <1>1, KernelQuietCall

\* semWait with no unit left: the caller joins one queue, and had no other reason
\* to be blocked.
LEMMA KernelWaitBlock ==
  ASSUME KernelInv, NEW p \in Procs, NEW fd \in Int, NEW d \in Descs, NEW s \in SemIds,
         Caller(p, d, s), Syscall(p, "SEMWAIT", fd), SemWaitBlock(p, d),
         UNCHANGED <<semaphores, sem_descriptors, last_sem_fd, descriptor>>,
         UNCHANGED treeVars
  PROVE  KernelInv'
<1>1. "SEMWAIT" \in SyscallNums
  BY DEF SyscallNums
<1>2. /\ running = p
      /\ syscall' \in [Procs -> [num : SyscallNums, arg : Int]]
      /\ syscall'[p] = [num |-> "SEMWAIT", arg |-> fd]
      /\ \A q \in Procs \ {p} : syscall'[q] = syscall[q]
      /\ p \notin waiting_list /\ p \notin TimerProcs
  BY <1>1, CallOfRunning DEF KernelInv
<1>3. /\ ProcTypes /\ TimersInv /\ SleepersCall
      /\ TimerProcs \subseteq waiting_list
      /\ waiting_list \subseteq Procs
  BY ProcInvParts DEF KernelInv, ProcTypes, TimersInv, TimersSorted
<1>4. p \notin SemWaiters
  BY <1>2, RunningWaitsForNothing
<1>5. QueueInv' /\ SemWaiters' = SemWaiters \union {p}
  BY <1>4, BlockKeepsQueues DEF KernelInv
<1>6. /\ Block(p)
      /\ RunNext
      /\ syscall_retvalue' = [syscall_retvalue EXCEPT ![running'] = 0]
      /\ UNCHANGED <<timer_list, fault>>
  BY DEF SemWaitBlock
<1>7. Moves /\ waiting_list' = waiting_list \union {p}
  BY <1>2, <1>6, BlockMoves DEF KernelInv
<1>8. TimersInv' /\ TimerProcs' = TimerProcs
  <2>1. timer_list' = timer_list /\ TimerProcs' = TimerProcs
    BY <1>6 DEF TimerProcs
  <2>2. waiting_list' \subseteq Procs
    BY <1>7 DEF Moves
  <2> QED BY <1>3, <1>7, <2>1, <2>2 DEF TimersInv, TimersSorted
<1>9. SleepersCall'
  BY <1>2, <1>3, <1>8 DEF SleepersCall
<1>10. syscall'[p].num = "SEMWAIT"
  BY <1>2
<1>11. syscall_retvalue' \in [Procs -> Int] /\ fault' \in BOOLEAN
  <2>1. ready_list \in Seq(Procs) /\ ready_list # <<>> /\ running' = Head(ready_list)
    BY <1>3, <1>6 DEF ProcTypes, RunNext
  <2>2. running' \in Procs
    BY <2>1, TailRange
  <2>3. syscall_retvalue \in [Procs -> Int] /\ fault \in BOOLEAN
    BY <1>3 DEF ProcTypes
  <2>4. \A r \in Procs : [syscall_retvalue EXCEPT ![r] = 0] \in [Procs -> Int]
    BY <2>3
  <2> QED BY <1>6, <2>2, <2>3, <2>4
<1>12. \A q \in waiting_list' : \/ q \in waiting_list /\ syscall'[q] = syscall[q]
                                \/ syscall'[q].num # "WAIT"
  BY <1>2, <1>3, <1>7, <1>10
<1>13. ProcInv'
  BY <1>2, <1>7, <1>8, <1>9, <1>11, <1>12, MovesKeep DEF KernelInv
<1>14. Reasons'
  BY <1>2, <1>3, <1>5, <1>7, <1>8, <1>10 DEF KernelInv, Reasons
<1> QED BY <1>5, <1>13, <1>14 DEF KernelInv

\* A process leaves the waiting list for the end of the ready list.
LEMMA UnblockMoves ==
  ASSUME ProcInv, NEW x \in waiting_list, Unblock(x), UNCHANGED running
  PROVE  /\ Moves
         /\ waiting_list' = waiting_list \ {x}
<1>0. /\ ProcTypes
      /\ Placed(running, ready_list, waiting_list, zombie_list, free_pcbs)
      /\ NULL \notin Procs
      /\ Live \subseteq Procs
      /\ \A p \in Live : status[p] # "Zombie" /\ (status[p] = "Waiting" <=> p \in waiting_list)
  BY ProcInvParts
<1>1. /\ x \in Procs
      /\ waiting_list' = waiting_list \ {x}
      /\ ready_list' = Append(ready_list, x)
      /\ status' = [status EXCEPT ![x] = "Ready"]
  BY <1>0 DEF Unblock, EnqueueReady, ProcTypes
<1>2. ready_list \in Seq(Procs) /\ IsInjective(ready_list) /\ x \notin Range(ready_list)
  BY <1>0 DEF ProcTypes, Placed
<1>3. /\ ready_list' \in Seq(Procs)
      /\ Range(ready_list') = Range(ready_list) \union {x}
      /\ IsInjective(ready_list')
  BY <1>1, <1>2, AppendRange
<1>4. /\ running' \in Procs \union {NULL}
      /\ waiting_list' \subseteq Procs
      /\ running' \notin waiting_list' \union Range(ready_list')
      /\ waiting_list' \intersect Range(ready_list') = {}
  BY <1>0, <1>1, <1>3 DEF ProcTypes, Placed
<1>5. Live' = Live /\ x \in Live
  BY <1>0, <1>1, <1>3 DEF Live
<1>6. /\ status' \in [Procs -> {"Invalid", "Running", "Ready", "Waiting", "Zombie"}]
      /\ status'[x] = "Ready"
      /\ \A p \in Procs \ {x} : status'[p] = status[p]
  BY <1>0, <1>1 DEF ProcTypes
<1>7. \A p \in Live : status'[p] # "Zombie" /\ (status'[p] = "Waiting" <=> p \in waiting_list')
  BY <1>0, <1>1, <1>6
<1>8. \A p \in Procs \ Live : status'[p] = status[p]
  BY <1>5, <1>6
<1> QED BY <1>1, <1>3, <1>4, <1>5, <1>6, <1>7, <1>8 DEF Moves

\* semPost with somebody in the queue: who wakes up was blocked for that alone.
LEMMA KernelPostWake ==
  ASSUME KernelInv, NEW p \in Procs, NEW fd \in Int, NEW d \in Descs, NEW s \in SemIds,
         Caller(p, d, s), Syscall(p, "SEMPOST", fd), SemPostWake(p, d),
         UNCHANGED <<semaphores, sem_descriptors, last_sem_fd, descriptor>>,
         UNCHANGED treeVars
  PROVE  KernelInv'
<1>1. "SEMPOST" \in SyscallNums
  BY DEF SyscallNums
<1>2. /\ running = p
      /\ syscall' \in [Procs -> [num : SyscallNums, arg : Int]]
      /\ \A q \in Procs \ {p} : syscall'[q] = syscall[q]
      /\ p \notin waiting_list /\ p \notin TimerProcs
  BY <1>1, CallOfRunning DEF KernelInv
<1>3. /\ ProcTypes /\ TimersInv /\ SleepersCall
      /\ TimerProcs \subseteq waiting_list
      /\ waiting_list \subseteq Procs
  BY ProcInvParts DEF KernelInv, ProcTypes, TimersInv, TimersSorted
<1>4. QueueInv' /\ \E x \in SemWaiters : Unblock(x) /\ SemWaiters' = SemWaiters \ {x}
  BY WakeKeepsQueues DEF KernelInv
<1>5. PICK x \in SemWaiters : Unblock(x) /\ SemWaiters' = SemWaiters \ {x}
  BY <1>4
<1>6. x \in waiting_list /\ x \notin TimerProcs
  BY <1>5 DEF KernelInv, Reasons
<1>7. /\ syscall_retvalue' = [syscall_retvalue EXCEPT ![p] = 0]
      /\ UNCHANGED <<running, timer_list, fault>>
  BY DEF SemPostWake
<1>8. Moves /\ waiting_list' = waiting_list \ {x}
  BY <1>5, <1>6, <1>7, UnblockMoves DEF KernelInv
<1>9. TimersInv' /\ TimerProcs' = TimerProcs
  <2>1. timer_list' = timer_list /\ TimerProcs' = TimerProcs
    BY <1>7 DEF TimerProcs
  <2>2. waiting_list' \subseteq Procs
    BY <1>8 DEF Moves
  <2> QED BY <1>3, <1>6, <1>8, <2>1, <2>2 DEF TimersInv, TimersSorted
<1>10. \A q \in waiting_list : syscall'[q] = syscall[q]
  BY <1>2, <1>3
<1>11. SleepersCall'
  BY <1>3, <1>9, <1>10 DEF SleepersCall
<1>12. syscall_retvalue' \in [Procs -> Int] /\ fault' \in BOOLEAN
  BY <1>3, <1>7 DEF ProcTypes
<1>13. \A q \in waiting_list' : q \in waiting_list /\ syscall'[q] = syscall[q]
  BY <1>8, <1>10
<1>14. ProcInv'
  BY <1>2, <1>8, <1>9, <1>11, <1>12, <1>13, MovesKeep DEF KernelInv
<1>15. Reasons'
  <2>1. /\ SemWaiters \subseteq waiting_list \ TimerProcs
        /\ \A q \in SemWaiters : syscall[q].num = "SEMWAIT"
        /\ \A q \in waiting_list \ TimerProcs : q \in SemWaiters \/ syscall[q].num = "WAIT"
    BY DEF KernelInv, Reasons
  <2>2. SemWaiters' \subseteq waiting_list' \ TimerProcs'
    BY <1>5, <1>8, <1>9, <2>1
  <2>3. \A q \in SemWaiters' : syscall'[q].num = "SEMWAIT"
    BY <1>5, <1>10, <2>1
  <2>4. \A q \in waiting_list' \ TimerProcs' : q \in SemWaiters' \/ syscall'[q].num = "WAIT"
    BY <1>5, <1>8, <1>9, <1>10, <2>1
  <2> QED BY <2>2, <2>3, <2>4 DEF Reasons
<1> QED BY <1>4, <1>14, <1>15 DEF KernelInv

\* A call that finds no descriptor.
LEMMA KernelUnknownFd ==
  ASSUME KernelInv, NEW p \in Procs, NEW num \in SyscallNums, NEW fd \in Int,
         Syscall(p, num, fd), UnknownFd(p, fd), UNCHANGED treeVars
  PROVE  KernelInv'
<1>1. (\E v \in Int : Answer(p, v)) /\ UNCHANGED semVars
  BY DEF UnknownFd, DSOS_ESEM_DES_LIST
<1> QED BY <1>1, KernelFailedCall

\* semOpen.
LEMMA KernelSemOpen ==
  ASSUME KernelInv, NEW p \in Procs, NEW id \in OpenIds, NEW c \in InitCounts,
         SemOpen(p, id, c), UNCHANGED treeVars
  PROVE  KernelInv'
<1>1. Syscall(p, "SEMOPEN", id) /\ id \in Int /\ "SEMOPEN" \in SyscallNums
  BY SemaphoresAssumption DEF SemOpen, SyscallNums
<1>2. CASE SemOpenWrongId(p, id) \/ SemOpenNoSemaphore(p, id)
  <2>1. (\E v \in Int : Answer(p, v)) /\ UNCHANGED semVars
    BY <1>2 DEF SemOpenWrongId, SemOpenNoSemaphore, DSOS_EWRONG_ID, DSOS_ESEM_ALLOC
  <2> QED BY <1>1, <2>1, KernelFailedCall
<1>3. CASE SemOpenNoDescriptor(p, id, c)
  <2>1. QueueInv' /\ SemWaiters' = SemWaiters /\ Answer(p, DSOS_ESEM_DES_ALLOC)
    BY <1>3, NoDescriptorKeepsQueues DEF KernelInv
  <2>2. DSOS_ESEM_DES_ALLOC \in Int
    BY DEF DSOS_ESEM_DES_ALLOC
  <2> QED BY <1>1, <2>1, <2>2, KernelQuietCall
<1>4. CASE SemOpenDescriptor(p, id, c)
  <2>1. QueueInv' /\ SemWaiters' = SemWaiters /\ \E v \in Int : Answer(p, v)
    BY <1>4, OpenKeepsQueues DEF KernelInv
  <2> QED BY <1>1, <2>1, KernelQuietCall
<1> QED BY <1>2, <1>3, <1>4 DEF SemOpen

\* semClose.
LEMMA KernelSemClose ==
  ASSUME KernelInv, NEW p \in Procs, NEW fd \in Fds, SemClose(p, fd), UNCHANGED treeVars
  PROVE  KernelInv'
<1>1. /\ Syscall(p, "SEMCLOSE", fd) /\ running = p
      /\ fd \in Int /\ 0 \in Int /\ "SEMCLOSE" \in SyscallNums
  BY SemaphoresAssumption DEF SemClose, Syscall, SyscallNums
<1>2. CASE UnknownFd(p, fd)
  BY <1>1, <1>2, KernelUnknownFd
<1>3. CASE SemCloseFound(p, fd)
  <2>1. p \notin SemWaiters
    BY <1>1, RunningWaitsForNothing
  <2>2. QueueInv' /\ SemWaiters' = SemWaiters /\ Answer(p, 0)
    BY <1>1, <1>3, <2>1, CloseKeepsQueues DEF KernelInv
  <2> QED BY <1>1, <2>2, KernelQuietCall
<1> QED BY <1>2, <1>3 DEF SemClose

\* semWait.
LEMMA KernelSemWait ==
  ASSUME KernelInv, NEW p \in Procs, NEW fd \in Fds, SemWait(p, fd), UNCHANGED treeVars
  PROVE  KernelInv'
<1>1. /\ Syscall(p, "SEMWAIT", fd) /\ running = p
      /\ fd \in Int /\ 0 \in Int /\ "SEMWAIT" \in SyscallNums
  BY SemaphoresAssumption DEF SemWait, Syscall, SyscallNums
<1>2. CASE UnknownFd(p, fd)
  BY <1>1, <1>2, KernelUnknownFd
<1>3. CASE ~UnknownFd(p, fd)
  <2>1. /\ UNCHANGED <<semaphores, sem_descriptors, last_sem_fd, descriptor>>
        /\ \E i \in DOMAIN sem_descriptors[p] :
             \/ SemWaitTake(p, sem_descriptors[p][i])
             \/ SemWaitBlock(p, sem_descriptors[p][i])
             \/ SemWaitNobodyReady(p, sem_descriptors[p][i])
    BY <1>3 DEF SemWait
  <2>2. p \notin SemWaiters
    BY <1>1, RunningWaitsForNothing
  <2>3. PICK d \in Descs, s \in SemIds :
          /\ Caller(p, d, s)
          /\ SemWaitTake(p, d) \/ SemWaitBlock(p, d) \/ SemWaitNobodyReady(p, d)
    BY <1>1, <2>1, <2>2, CallerIs DEF KernelInv
  <2>4. descriptor[d].sem = s /\ count \in [SemIds -> Int]
    BY <2>3 DEF Caller, KernelInv, QueueInv, SemTypes
  <2>5. CASE SemWaitTake(p, d)
    <3>1. /\ count[s] >= 0
          /\ count[s] - 1 \in Int
          /\ count' = [count EXCEPT ![s] = count[s] - 1]
          /\ Answer(p, 0)
          /\ UNCHANGED <<descriptors, waiting_descriptors>>
      BY <2>4, <2>5 DEF SemWaitTake
    <3>2. QueueInv' /\ SemWaiters' = SemWaiters
      BY <2>1, <3>1, CountKeepsQueues DEF KernelInv
    <3> QED BY <1>1, <3>1, <3>2, KernelQuietCall
  <2>6. CASE SemWaitBlock(p, d)
    BY <1>1, <2>1, <2>3, <2>6, KernelWaitBlock
  <2>7. CASE SemWaitNobodyReady(p, d)
    <3>1. Crash /\ UNCHANGED semVars
      BY <2>1, <2>7 DEF SemWaitNobodyReady, semVars
    <3> QED BY <1>1, <3>1, KernelFailedCall
  <2> QED BY <2>3, <2>5, <2>6, <2>7
<1> QED BY <1>2, <1>3

\* semPost.
LEMMA KernelSemPost ==
  ASSUME KernelInv, NEW p \in Procs, NEW fd \in Fds, SemPost(p, fd), UNCHANGED treeVars
  PROVE  KernelInv'
<1>1. /\ Syscall(p, "SEMPOST", fd) /\ running = p
      /\ fd \in Int /\ 0 \in Int /\ "SEMPOST" \in SyscallNums
  BY SemaphoresAssumption DEF SemPost, Syscall, SyscallNums
<1>2. CASE UnknownFd(p, fd)
  BY <1>1, <1>2, KernelUnknownFd
<1>3. CASE ~UnknownFd(p, fd)
  <2>1. /\ UNCHANGED <<semaphores, sem_descriptors, last_sem_fd, descriptor>>
        /\ \E i \in DOMAIN sem_descriptors[p] :
             \/ SemPostKeep(p, sem_descriptors[p][i])
             \/ SemPostWake(p, sem_descriptors[p][i])
             \/ SemPostNobodyWaits(p, sem_descriptors[p][i])
    BY <1>3 DEF SemPost
  <2>2. p \notin SemWaiters
    BY <1>1, RunningWaitsForNothing
  <2>3. PICK d \in Descs, s \in SemIds :
          /\ Caller(p, d, s)
          /\ SemPostKeep(p, d) \/ SemPostWake(p, d) \/ SemPostNobodyWaits(p, d)
    BY <1>1, <2>1, <2>2, CallerIs DEF KernelInv
  <2>4. descriptor[d].sem = s /\ count \in [SemIds -> Int]
    BY <2>3 DEF Caller, KernelInv, QueueInv, SemTypes
  <2>5. CASE SemPostKeep(p, d)
    <3>1. /\ count[s] >= 0
          /\ count[s] + 1 \in Int
          /\ count' = [count EXCEPT ![s] = count[s] + 1]
          /\ Answer(p, 0)
          /\ UNCHANGED <<descriptors, waiting_descriptors>>
      BY <2>4, <2>5 DEF SemPostKeep
    <3>2. QueueInv' /\ SemWaiters' = SemWaiters
      BY <2>1, <3>1, CountKeepsQueues DEF KernelInv
    <3> QED BY <1>1, <3>1, <3>2, KernelQuietCall
  <2>6. CASE SemPostWake(p, d)
    BY <1>1, <2>1, <2>3, <2>6, KernelPostWake
  <2>7. CASE SemPostNobodyWaits(p, d)
    <3>1. Crash /\ UNCHANGED semVars
      BY <2>1, <2>7 DEF SemPostNobodyWaits, semVars
    <3> QED BY <1>1, <3>1, KernelFailedCall
  <2> QED BY <2>3, <2>5, <2>6, <2>7
<1> QED BY <1>2, <1>3

\* The calls of the resources answer, or find the resource pool empty.
LEMMA KernelResourceCall ==
  ASSUME KernelInv, ResourcesInv, NEW p \in Procs, ResourceCall(p),
         UNCHANGED <<treeVars, semVars>>
  PROVE  KernelInv'
<1>1. last_fd[p] \in Int
  BY DEF ResourcesInv, ResourceTypes
<1>2. ASSUME NEW id \in ResIds, NEW t \in ResTypes, NEW mode \in Modes,
             OpenResource(p, id, t, mode)
      PROVE  KernelInv'
  <2>1. /\ Syscall(p, "OPEN_RESOURCE", 0) /\ "OPEN_RESOURCE" \in SyscallNums /\ 0 \in Int
        /\ Crash \/ \E v \in Int : Answer(p, v)
    BY <1>1, <1>2 DEF OpenResource, SyscallNums, OpenExists, OpenNoResource, OpenUnknown,
       OpenInUse, OpenNoDescriptor, OpenDescriptor, DSOS_ERESOURCECREATE,
       DSOS_ERESOURCEOPEN, DSOS_ERESOURCENOEXCL, DSOS_ERESOURCENOFD
  <2> QED BY <2>1, KernelFailedCall
<1>3. ASSUME NEW fd \in ResFds, CloseResource(p, fd)
      PROVE  KernelInv'
  <2>1. /\ Syscall(p, "CLOSE_RESOURCE", fd) /\ "CLOSE_RESOURCE" \in SyscallNums /\ fd \in Int
        /\ \E v \in Int : Answer(p, v)
    BY <1>3, ResourcesAssumption
       DEF CloseResource, SyscallNums, CloseFound, CloseUnknown, DSOS_ERESOURCECLOSE
  <2> QED BY <2>1, KernelFailedCall
<1>4. ASSUME NEW id \in ResIds, DestroyResource(p, id)
      PROVE  KernelInv'
  <2>1. /\ Syscall(p, "DESTROY_RESOURCE", 0) /\ "DESTROY_RESOURCE" \in SyscallNums /\ 0 \in Int
        /\ \E v \in Int : Answer(p, v)
    BY <1>4 DEF DestroyResource, SyscallNums, DestroyUnknown, DestroyInUse, DestroyFound,
       DSOS_ERESOURCECLOSE, DSOS_ERESOURCEINUSE
  <2> QED BY <2>1, KernelFailedCall
<1> QED BY <1>2, <1>3, <1>4 DEF ResourceCall

-----------------------------------------------------------------------------
(***************************************************************************)
(* The second start of the system.                                         *)
(***************************************************************************)

\* A new init on a PCB that was free: no list of children holds it, and what
\* the old processes left stays as it was.
LEMMA RestartKeepsProcesses ==
  ASSUME ProcInv, running = NULL, free_pcbs # <<>>, NEW p, p = Head(free_pcbs),
         free_pcbs' = Tail(free_pcbs),
         running' = p,
         init_pcb' = p,
         pid' = [pid EXCEPT ![p] = last_pid],
         last_pid' = last_pid + 1,
         parent' = [parent EXCEPT ![p] = NULL],
         children' = [children EXCEPT ![p] = <<>>],
         status' = [status EXCEPT ![p] = "Running"],
         syscall' = [syscall EXCEPT ![p] = NoCall],
         UNCHANGED <<ready_list, waiting_list, timer_list, syscall_retvalue, fault,
                     zombie_list, free_ptrs>>
  PROVE  /\ ProcInv'
         /\ p \in Procs
         /\ \A q \in waiting_list : syscall'[q] = syscall[q]
<1>0. /\ ProcTypes /\ TimersInv /\ SleepersCall
      /\ Placed(running, ready_list, waiting_list, zombie_list, free_pcbs)
      /\ NULL \notin Procs
      /\ TimerProcs \subseteq waiting_list
      /\ \A q \in Procs :
           /\ IsInjective(children[q])
           /\ OwnedOnce(children, parent, zombie_list \union Freed, Freed, q)
  BY ProcInvParts DEF TimersInv, TimersSorted
<1>1. /\ p \in Procs
      /\ free_pcbs' \in Seq(Procs)
      /\ Freed = Freed' \union {p}
      /\ IsInjective(free_pcbs')
      /\ p \notin Freed'
  <2>1. free_pcbs \in Seq(Procs) /\ IsInjective(free_pcbs)
    BY <1>0 DEF ProcTypes, Placed
  <2> QED BY <2>1, TailRange DEF Freed
<1>2. /\ p \in Freed
      /\ p \notin waiting_list /\ p \notin zombie_list /\ p \notin Range(ready_list)
  BY <1>0, <1>1 DEF Placed, Freed
<1>3. \A r \in Procs : p \notin Kids(r)
  BY <1>0, <1>1, <1>2 DEF OwnedOnce, Kids
<1>4. /\ children' \in [Procs -> Seq(Procs)]
      /\ Range(children'[p]) = {}
      /\ \A q \in Procs \ {p} : children'[q] = children[q] /\ Range(children'[q]) = Kids(q)
      /\ \A q \in Procs : IsInjective(children'[q])
  <2>1. <<>> \in Seq(Procs) /\ Range(<<>>) = {} /\ IsInjective(<<>>)
    BY EmptyRange, EmptySeq
  <2>2. /\ children' \in [Procs -> Seq(Procs)]
        /\ children'[p] = <<>>
        /\ \A q \in Procs \ {p} : children'[q] = children[q]
    BY <1>0, <1>1, <2>1 DEF ProcTypes
  <2> QED BY <1>0, <2>1, <2>2 DEF Kids
<1>5. /\ parent' \in [Procs -> Procs \union {NULL}]
      /\ parent'[p] = NULL
      /\ \A q \in Procs \ {p} : parent'[q] = parent[q]
      /\ pid' \in [Procs -> Nat]
      /\ pid'[p] = last_pid
      /\ \A q \in Procs \ {p} : pid'[q] = pid[q]
      /\ status' \in [Procs -> {"Invalid", "Running", "Ready", "Waiting", "Zombie"}]
      /\ status'[p] = "Running"
      /\ \A q \in Procs \ {p} : status'[q] = status[q]
  BY <1>0, <1>1 DEF ProcTypes
<1>6. /\ syscall' \in [Procs -> [num : SyscallNums, arg : Int]]
      /\ \A q \in waiting_list : syscall'[q] = syscall[q]
  <2>1. NoCall \in [num : SyscallNums, arg : Int]
    BY DEF NoCall, SyscallNums
  <2> QED BY <1>0, <1>1, <1>2, <2>1 DEF ProcTypes
<1>7. ProcTypes'
  <2>1. last_pid' \in Nat
    BY <1>0 DEF ProcTypes
  <2> QED BY <1>0, <1>1, <1>4, <1>5, <1>6, <2>1 DEF ProcTypes
<1>8. TimersInv' /\ SleepersCall'
  <2>1. timer_list' = timer_list /\ waiting_list' = waiting_list /\ TimerProcs' = TimerProcs
    BY DEF TimerProcs
  <2> QED BY <1>0, <1>6, <2>1 DEF TimersInv, TimersSorted, SleepersCall
<1>9. ZombiesKept'
  BY <1>1, <1>2, <1>5 DEF ProcInv, ZombiesKept
<1>10. PidsDistinct'
  <2>1. \A q \in Procs : pid[q] \in Nat /\ pid[q] < last_pid
    BY <1>0 DEF ProcInv, PidsDistinct, ProcTypes
  <2>2. last_pid \in Nat /\ last_pid' = last_pid + 1
    BY <1>0 DEF ProcTypes
  <2>3. \A q \in Procs : pid'[q] < last_pid'
    BY <1>5, <2>1, <2>2
  <2>4. ASSUME NEW q \in Procs \ Freed', NEW r \in Procs \ Freed', pid'[q] = pid'[r]
        PROVE  q = r
    <3>1. CASE q # p /\ r # p
      BY <1>1, <1>5, <2>4, <3>1 DEF ProcInv, PidsDistinct
    <3>2. CASE q = p \/ r = p
      BY <1>1, <1>5, <2>1, <2>2, <2>4, <3>2
    <3> QED BY <3>1, <3>2
  <2> QED BY <2>3, <2>4 DEF PidsDistinct
<1>11. InitStays'
  <2>1. parent'[p] = NULL /\ p \notin zombie_list' \union Freed'
    BY <1>1, <1>2, <1>5
  <2>2. ASSUME NEW r \in Procs, NEW q \in Procs, q \in Range(children'[r])
        PROVE  parent'[q] = r \/ parent'[r] = NULL
    <3>1. r # p /\ q \in Kids(r)
      BY <1>4, <2>2
    <3>2. q # p
      BY <1>3, <3>1
    <3> QED BY <1>5, <3>1, <3>2 DEF ProcInv, InitStays
  <2> QED BY <2>1, <2>2 DEF InitStays, Kids, Freed
<1>12. OnePlaceEach'
  <2>1. Placed(p, ready_list, waiting_list, zombie_list, free_pcbs')
    BY <1>0, <1>1, <1>2 DEF Placed, Freed
  <2> QED BY <2>1, PlacesAre
<1>13. OneOwnerEach'
  <2>1. ASSUME NEW q \in Procs
        PROVE  OwnedOnce(children', parent', zombie_list' \union Freed', Freed', q)
    <3>0. OwnedOnce(children, parent, zombie_list \union Freed, Freed, q)
      BY <1>0
    <3>1. \A r \in Procs : q \in Range(children'[r]) => q \in Kids(r)
      BY <1>4
    <3>2. \A r \in Procs : r # p /\ q \in Kids(r) => q \in Range(children'[r])
      BY <1>4
    <3>3. CASE q = p
      BY <1>3, <1>5, <3>1, <3>3 DEF OwnedOnce
    <3>4. CASE q # p
      <4>1. parent'[q] = parent[q] /\ (q \in Freed' <=> q \in Freed)
        BY <1>1, <1>5, <3>4
      <4>2. CASE parent[q] = NULL \/ q \in Freed
        BY <3>0, <3>1, <4>1, <4>2 DEF OwnedOnce, Kids
      <4>3. CASE ~(parent[q] = NULL \/ q \in Freed)
        <5>1. PICK r \in Procs \ (zombie_list \union Freed) :
                q \in Kids(r) /\ \A o \in Procs : q \in Kids(o) => o = r
          BY <3>0, <4>3 DEF OwnedOnce, Kids
        <5>2. r # p /\ r \in Procs \ (zombie_list' \union Freed')
          BY <1>1, <1>2, <5>1
        <5>3. q \in Range(children'[r]) /\ \A o \in Procs : q \in Range(children'[o]) => o = r
          BY <3>1, <3>2, <5>1, <5>2
        <5> QED BY <4>1, <4>3, <5>2, <5>3 DEF OwnedOnce, Kids
      <4> QED BY <4>2, <4>3
    <3> QED BY <3>3, <3>4
  <2> QED BY <1>4, <2>1, OwnersAre
<1>14. StatusMatchesLists'
  BY <1>2, <1>5 DEF ProcInv, StatusMatchesLists
<1>15. NoWaitForZombie'
  <2> SUFFICES ASSUME NEW r \in Procs, NEW q \in Range(children'[r]),
                      r \in waiting_list,
                      syscall'[r].num = "WAIT",
                      syscall'[r].arg \in {0, pid'[q]},
                      parent'[q] = r,
                      status'[q] = "Zombie"
               PROVE  FALSE
    BY DEF NoWaitForZombie, Kids
  <2>1. r # p /\ q \in Kids(r) /\ q # p
    BY <1>2, <1>3, <1>4
  <2>2. q \in Procs
    BY <1>0, <2>1, RangeOf DEF ProcTypes, Kids
  <2>3. /\ syscall[r].num = "WAIT" /\ syscall[r].arg \in {0, pid[q]}
        /\ parent[q] = r /\ status[q] = "Zombie"
    BY <1>5, <1>6, <2>1, <2>2
  <2> QED BY <2>1, <2>3 DEF ProcInv, NoWaitForZombie, Kids
<1>16. ProcInv'
  BY <1>7, <1>8, <1>9, <1>10, <1>11, <1>12, <1>13, <1>14, <1>15 DEF ProcInv
<1> QED BY <1>1, <1>6, <1>16

\* main_context runs again.
LEMMA KernelRestart ==
  ASSUME KernelInv, Restart
  PROVE  KernelInv'
<1>1. CASE free_pcbs = <<>> /\ Crash /\ UNCHANGED <<syscall, treeVars, semVars>>
  <2>1. UNCHANGED schedVars /\ fault' \in BOOLEAN /\ syscall' = syscall
        /\ syscall_retvalue' = syscall_retvalue
    BY <1>1 DEF Crash
  <2>2. ProcInv'
    BY <1>1, <2>1, QuietKeeps DEF KernelInv, ProcInv, ProcTypes
  <2>3. QueueInv' /\ SemWaiters' = SemWaiters
    BY <1>1, QueuesAlone DEF KernelInv
  <2>4. waiting_list' = waiting_list /\ TimerProcs' = TimerProcs
    BY <2>1 DEF schedVars, TimerProcs
  <2> QED BY <2>1, <2>2, <2>3, <2>4, ReasonsStay DEF KernelInv
<1>2. CASE free_pcbs # <<>>
  <2> DEFINE p == Head(free_pcbs)
  <2>1. /\ running = NULL
        /\ free_pcbs' = Tail(free_pcbs)
        /\ running' = p
        /\ init_pcb' = p
        /\ pid' = [pid EXCEPT ![p] = last_pid]
        /\ last_pid' = last_pid + 1
        /\ parent' = [parent EXCEPT ![p] = NULL]
        /\ children' = [children EXCEPT ![p] = <<>>]
        /\ status' = [status EXCEPT ![p] = "Running"]
        /\ syscall' = [syscall EXCEPT ![p] = NoCall]
        /\ AllocDescriptors(p)
        /\ UNCHANGED <<ready_list, waiting_list, timer_list, syscall_retvalue, fault,
                       zombie_list, free_ptrs>>
    BY <1>2 DEF Restart, SystemLists
  <2>2. p = Head(free_pcbs)
    OBVIOUS
  <2> HIDE DEF p
  <2>3. ProcInv' /\ p \in Procs /\ \A q \in waiting_list : syscall'[q] = syscall[q]
    BY <1>2, <2>1, <2>2, RestartKeepsProcesses DEF KernelInv
  <2>4. QueueInv' /\ SemWaiters' = SemWaiters
    BY <2>1, <2>3, AllocKeepsQueues DEF KernelInv
  <2>5. waiting_list' = waiting_list /\ TimerProcs' = TimerProcs
    BY <2>1 DEF TimerProcs
  <2> QED BY <2>3, <2>4, <2>5, ReasonsStay DEF KernelInv
<1> QED BY <1>1, <1>2 DEF Restart

-----------------------------------------------------------------------------
(***************************************************************************)
(* The PCBs that are given out and got back, with their resources.         *)
(***************************************************************************)

\* The descriptors that PCB_alloc loses are those of the PCB that it gives out.
LEMMA GivesOutLoses ==
  ASSUME ProcInv, ResourcesInv, GivesOut
  PROVE  /\ Range(free_pcbs') \subseteq Range(free_pcbs)
         /\ \A d \in LostDescriptors' \ LostDescriptors :
              \E p \in Procs : GivenOut(p) /\ d \in Range(pcb_descriptors[p])
<1> DEFINE p == Head(free_pcbs)
<1>1. free_pcbs \in Seq(Procs) /\ free_pcbs # <<>> /\ IsInjective(free_pcbs)
  BY ProcInvParts DEF ProcTypes, Placed, GivesOut
<1>2. /\ p \in Procs
      /\ Range(free_pcbs) = Range(free_pcbs') \union {p}
      /\ p \notin Range(free_pcbs')
  BY <1>1, TailRange DEF GivesOut
<1>3. AllocDescriptors(p)
  BY DEF GivesOut
<1> HIDE DEF p
<1>4. /\ pcb_descriptors' = [pcb_descriptors EXCEPT ![p] = <<>>]
      /\ res_descriptor' = res_descriptor
      /\ pcb_descriptors \in [Procs -> Seq(ResDescs)]
  BY <1>3 DEF AllocDescriptors, ResourcesInv, ResourceTypes
<1>5. \A q \in Procs \ {p} : pcb_descriptors'[q] = pcb_descriptors[q]
  BY <1>2, <1>4
<1>6. ASSUME NEW d \in LostDescriptors' \ LostDescriptors
      PROVE  d \in Range(pcb_descriptors[p])
  <2>1. /\ d \in ResDescs /\ res_descriptor[d] # NULL
        /\ \A q \in Procs : d \notin Range(pcb_descriptors'[q])
    BY <1>4 DEF LostDescriptors
  <2>2. \E q \in Procs : d \in Range(pcb_descriptors[q])
    BY <2>1 DEF LostDescriptors
  <2> QED BY <1>5, <2>1, <2>2
<1> QED BY <1>2, <1>6 DEF GivenOut

\* A PCB comes back empty, or from a zombie.
ComesBackEmpty ==
  \A p \in Range(free_pcbs') \ Range(free_pcbs) :
    p \in zombie_list \/ pcb_descriptors'[p] = <<>>

\* wait frees a zombie.
LEMMA WaitFreesZombie ==
  ASSUME ProcInv, NEW p \in Procs, NEW c \in WaitPids, Wait(p, c)
  PROVE  ComesBackEmpty
<1>1. CASE UNCHANGED treeVars
  BY <1>1 DEF treeVars, ComesBackEmpty
<1>2. CASE children[p] # <<>> /\ WaitReap(p, Awaited(p, c))
  <2> DEFINE child == children[p][Awaited(p, c)]
  <2>1. child \in Kids(p) /\ c \in Int
    BY <1>2, AwaitedIs, ProcessesAssumption
  <2>2. child \in Procs /\ child \notin Freed
    BY <2>1, KidsOwned
  <2>3. status[child] = "Zombie" /\ free_pcbs' = <<child>> \o free_pcbs
    BY <1>2 DEF WaitReap, FreePCB
  <2> HIDE DEF child
  <2>4. child \in zombie_list
    BY <2>2, <2>3 DEF ProcInv, ZombiesKept
  <2>5. Range(free_pcbs') = Range(free_pcbs) \union {child}
    BY <2>2, <2>3, PushRange DEF ProcInv, ProcTypes
  <2> QED BY <2>4, <2>5 DEF ComesBackEmpty
<1> QED BY <1>1, <1>2 DEF Wait, WaitNoChildren, WaitBlock

\* exit frees the PCB of the caller, and then empties its list.
LEMMA ExitFreesEmpty ==
  ASSUME ProcInv, ResourcesInv, NEW p \in Procs, KernelExit(p)
  PROVE  ComesBackEmpty
<1>1. CASE free_pcbs' = free_pcbs
  BY <1>1 DEF ComesBackEmpty
<1>2. CASE ExitToParent(p)
  <2>1. Range(free_pcbs') = Range(free_pcbs) \union {p}
    BY <1>2, PushRange DEF ExitToParent, ProcInv, ProcTypes
  <2>2. pcb_descriptors' = [pcb_descriptors EXCEPT ![p] = <<>>]
    BY <2>1 DEF KernelExit, ReleaseResources
  <2>3. pcb_descriptors'[p] = <<>>
    BY <2>2 DEF ResourcesInv, ResourceTypes
  <2> QED BY <2>1, <2>3 DEF ComesBackEmpty
<1> QED BY <1>1, <1>2
        DEF KernelExit, Exit, ExitOfInit, ExitToStranger, ExitToZombie, treeVars

\* Every step of the kernel gets PCBs back so.
LEMMA ComesBackStep ==
  ASSUME ProcInv, ResourcesInv, [KernelNext]_kernelVars
  PROVE  ComesBackEmpty
<1>1. CASE Range(free_pcbs') \subseteq Range(free_pcbs)
  BY <1>1 DEF ComesBackEmpty
<1>2. CASE UNCHANGED treeVars
  BY <1>1, <1>2 DEF treeVars
<1>3. CASE GivesOut
  BY <1>1, <1>3, GivesOutLoses
<1>4. Restart => GivesOut \/ UNCHANGED treeVars
  BY DEF Restart, GivesOut
<1>5. ASSUME NEW p \in Procs, KernelSpawn(p)
      PROVE  GivesOut \/ UNCHANGED treeVars
  <2>1. CASE SpawnChild(p)
    BY <1>5, <2>1 DEF KernelSpawn, SpawnChild, Spawn, GivesOut
  <2> QED BY <1>5, <2>1 DEF KernelSpawn, Spawn, SpawnFails
<1>6. ASSUME NEW p \in Procs, KernelExit(p) PROVE ComesBackEmpty
  BY <1>6, ExitFreesEmpty
<1>7. ASSUME NEW p \in Procs, NEW c \in WaitPids, Wait(p, c) PROVE ComesBackEmpty
  BY <1>7, WaitFreesZombie
<1> QED BY <1>2, <1>3, <1>4, <1>5, <1>6, <1>7 DEF KernelNext, kernelVars

-----------------------------------------------------------------------------
(***************************************************************************)
(* The end of a wait: nobody takes the children of a process that waits    *)
(* for one, here either.                                                   *)
(***************************************************************************)

\* Another call than wait lets no process wait for a child.
LEMMA WaitersCall ==
  ASSUME ProcInv, WaitersAreParents, NEW p \in Procs,
         NEW num \in SyscallNums, num # "WAIT", NEW arg \in Int, Syscall(p, num, arg),
         waiting_list' \subseteq waiting_list \union {p},
         UNCHANGED children
  PROVE  WaitersAreParents'
<1>1. /\ syscall'[p] = [num |-> num, arg |-> arg]
      /\ \A q \in Procs \ {p} : syscall'[q] = syscall[q]
      /\ waiting_list \subseteq Procs
  BY CallOfRunning DEF ProcInv, ProcTypes
<1>2. \A q \in waiting_list' : syscall'[q].num = "WAIT" =>
        q \in waiting_list /\ syscall[q].num = "WAIT"
  BY <1>1
<1> QED BY <1>2, WaitersStay DEF Kids

\* A new init gets a PCB that was free, and is nobody's parent yet.
LEMMA WaitersRestart ==
  ASSUME ProcInv, WaitersAreParents, Restart
  PROVE  WaitersAreParents'
<1>1. CASE UNCHANGED <<waiting_list, syscall, children>>
  BY <1>1, WaitersSame
<1>2. CASE free_pcbs # <<>>
  <2> DEFINE p == Head(free_pcbs)
  <2>1. /\ free_pcbs \in Seq(Procs)
        /\ children \in [Procs -> Seq(Procs)]
        /\ syscall \in [Procs -> [num : SyscallNums, arg : Int]]
        /\ waiting_list \subseteq Procs
        /\ waiting_list \intersect Range(free_pcbs) = {}
    BY ProcInvParts DEF ProcTypes, Placed
  <2>2. p \in Range(free_pcbs) /\ p \in Procs
    BY <1>2, <2>1, TailRange
  <2>3. /\ children' = [children EXCEPT ![p] = <<>>]
        /\ syscall' = [syscall EXCEPT ![p] = NoCall]
        /\ waiting_list' = waiting_list
    BY <1>2 DEF Restart, SystemLists
  <2> HIDE DEF p
  <2>4. \A q \in waiting_list : children'[q] = children[q] /\ syscall'[q] = syscall[q]
    BY <2>1, <2>2, <2>3
  <2> QED BY <2>3, <2>4, WaitersStay DEF Kids
<1> QED BY <1>1, <1>2 DEF Restart, Crash, schedVars, treeVars

\* The calls of the semaphores and of the resources.
LEMMA WaitersOtherCall ==
  ASSUME ProcInv, WaitersAreParents, NEW p \in Procs,
         SemaphoreCall(p) \/ ResourceCall(p), UNCHANGED treeVars
  PROVE  WaitersAreParents'
<1>1. UNCHANGED children
  BY DEF treeVars
<1>2. OpenIds \subseteq Int /\ Fds \subseteq Int /\ ResFds \subseteq Int
  BY SemaphoresAssumption, ResourcesAssumption
<1>3. ASSUME NEW id \in OpenIds, NEW c \in InitCounts, SemOpen(p, id, c)
      PROVE  WaitersAreParents'
  <2>1. waiting_list' = waiting_list
    BY <1>3 DEF SemOpen, SemOpenWrongId, SemOpenNoSemaphore, SemOpenNoDescriptor,
                SemOpenDescriptor, Answer, schedVars
  <2> QED BY <1>1, <1>2, <1>3, <2>1, WaitersCall DEF SemOpen, SyscallNums
<1>4. ASSUME NEW fd \in Fds, SemClose(p, fd) PROVE WaitersAreParents'
  <2>1. waiting_list' = waiting_list
    BY <1>4 DEF SemClose, UnknownFd, SemCloseFound, Answer, schedVars
  <2> QED BY <1>1, <1>2, <1>4, <2>1, WaitersCall DEF SemClose, SyscallNums
<1>5. ASSUME NEW fd \in Fds, SemWait(p, fd) PROVE WaitersAreParents'
  <2>1. waiting_list' \subseteq waiting_list \union {p}
    BY <1>5 DEF SemWait, UnknownFd, SemWaitTake, SemWaitBlock, SemWaitNobodyReady, Block,
                Answer, Crash, schedVars
  <2> QED BY <1>1, <1>2, <1>5, <2>1, WaitersCall DEF SemWait, SyscallNums
<1>6. ASSUME NEW fd \in Fds, SemPost(p, fd) PROVE WaitersAreParents'
  <2>1. waiting_list' \subseteq waiting_list
    BY <1>6 DEF SemPost, UnknownFd, SemPostKeep, SemPostWake, SemPostNobodyWaits, Unblock,
                Answer, Crash, schedVars
  <2> QED BY <1>1, <1>2, <1>6, <2>1, WaitersCall DEF SemPost, SyscallNums
<1>7. CASE ResourceCall(p)
  <2>1. PICK num \in SyscallNums, arg \in Int : Syscall(p, num, arg) /\ num # "WAIT"
    BY <1>2, <1>7 DEF ResourceCall, OpenResource, CloseResource, DestroyResource, SyscallNums
  <2>2. waiting_list' = waiting_list
    BY <1>7 DEF ResourceCall, OpenResource, OpenExists, OpenNoResource, OpenUnknown,
                OpenInUse, OpenNoDescriptor, OpenDescriptor, CloseResource, CloseFound,
                CloseUnknown, DestroyResource, DestroyUnknown, DestroyInUse, DestroyFound,
                Answer, Crash, schedVars
  <2> QED BY <1>1, <2>1, <2>2, WaitersCall
<1> QED BY <1>3, <1>4, <1>5, <1>6, <1>7 DEF SemaphoreCall

\* Every step of the kernel.
LEMMA KernelWaitersStep ==
  ASSUME ProcInv, WaitersAreParents, [KernelNext]_kernelVars
  PROVE  WaitersAreParents'
<1>1. CASE UNCHANGED kernelVars
  BY <1>1, WaitersSame DEF kernelVars, vars, treeVars
<1>2. CASE Restart
  BY <1>2, WaitersRestart
<1>3. ASSUME NEW p \in Procs, (SemaphoreCall(p) \/ ResourceCall(p)) /\ UNCHANGED treeVars
      PROVE  WaitersAreParents'
  BY <1>3, WaitersOtherCall
<1>4. CASE ProcNext
  BY <1>4, WaitersStep
<1> QED BY <1>1, <1>2, <1>3, <1>4 DEF KernelNext, ProcNext, KernelSpawn, KernelExit

-----------------------------------------------------------------------------
(***************************************************************************)
(* The start, the steps and the theorems.                                  *)
(***************************************************************************)

\* Nobody is blocked at the start.
LEMMA KernelInitInv ==
  ASSUME KernelInit
  PROVE  KernelInv /\ ResourcesInv
<1>1. ProcInv /\ ResourcesInv
  BY ProcInitInv, ResourcesInitInv DEF KernelInit
<1>2. QueueInv /\ SemWaiters = {}
  BY NoSemaphoresInit DEF KernelInit
<1>3. waiting_list = {}
  BY DEF KernelInit, ProcInit
<1>4. Reasons
  BY <1>2, <1>3 DEF Reasons
<1> QED BY <1>1, <1>2, <1>4 DEF KernelInv

\* Every step of the kernel preserves both invariants.
LEMMA KernelStep ==
  ASSUME KernelInv, ResourcesInv, [KernelNext]_kernelVars
  PROVE  KernelInv' /\ ResourcesInv'
<1>1. ResourcesInv'
  BY ResourcesStep
<1>2. CASE UNCHANGED kernelVars
  <2>1. /\ UNCHANGED schedVars /\ UNCHANGED treeVars /\ UNCHANGED semVars
        /\ UNCHANGED <<syscall, syscall_retvalue, fault>>
    BY <1>2 DEF kernelVars, vars, schedVars
  <2>2. ProcInv'
    BY <2>1, QuietKeeps DEF KernelInv, ProcInv, ProcTypes
  <2>3. QueueInv' /\ SemWaiters' = SemWaiters
    BY <2>1, QueuesAlone DEF KernelInv
  <2>4. waiting_list' = waiting_list /\ TimerProcs' = TimerProcs
    BY <2>1 DEF schedVars, TimerProcs
  <2> QED BY <1>1, <2>1, <2>2, <2>3, <2>4, ReasonsStay DEF KernelInv
<1>3. CASE Next /\ UNCHANGED <<treeVars, semVars, resVars>>
  BY <1>1, <1>3, KernelScheduler
<1>4. CASE Restart
  BY <1>1, <1>4, KernelRestart
<1>5. ASSUME NEW p \in Procs, KernelSpawn(p)
      PROVE  KernelInv'
  BY <1>5, KernelSpawnKeeps
<1>6. ASSUME NEW p \in Procs, KernelExit(p)
      PROVE  KernelInv'
  BY <1>6, KernelExitKeeps DEF KernelExit
<1>7. ASSUME NEW p \in Procs, NEW c \in WaitPids, Wait(p, c) /\ UNCHANGED <<semVars, resVars>>
      PROVE  KernelInv'
  BY <1>7, KernelWait
<1>8. ASSUME NEW p \in Procs, SemaphoreCall(p) /\ UNCHANGED <<treeVars, resVars>>
      PROVE  KernelInv'
  <2>1. ASSUME NEW id \in OpenIds, NEW c \in InitCounts, SemOpen(p, id, c)
        PROVE  KernelInv'
    BY <1>8, <2>1, KernelSemOpen
  <2>2. ASSUME NEW fd \in Fds, SemClose(p, fd) \/ SemWait(p, fd) \/ SemPost(p, fd)
        PROVE  KernelInv'
    BY <1>8, <2>2, KernelSemClose, KernelSemWait, KernelSemPost
  <2> QED BY <1>8, <2>1, <2>2 DEF SemaphoreCall
<1>9. ASSUME NEW p \in Procs, ResourceCall(p) /\ UNCHANGED <<treeVars, semVars>>
      PROVE  KernelInv'
  BY <1>9, KernelResourceCall
<1> QED BY <1>1, <1>2, <1>3, <1>4, <1>5, <1>6, <1>7, <1>8, <1>9 DEF KernelNext

\* A PCB that is given out keeps the descriptors of its last user: the handles
\* and the queues of SemaphoreSpec stay as they are.
LEMMA AllocRefines ==
  ASSUME KernelInv, NEW p, AllocDescriptors(p)
  PROVE  UNCHANGED Abstract!absVars
<1>1. UNCHANGED <<semaphores, count, waiting_descriptors, descriptor>>
  BY DEF AllocDescriptors
<1>2. QueuesStay
  BY <1>1, QueuesSame DEF KernelInv
<1> QED BY <1>1, <1>2, Stutters

\* Every step of the kernel is a step of SemaphoreSpec, or none: the exits, the
\* reuse of PCBs and the second start among them.
LEMMA KernelRefines ==
  ASSUME KernelInv, [KernelNext]_kernelVars
  PROVE  [Abstract!Next]_(Abstract!absVars)
<1>1. ASSUME UNCHANGED semVars
      PROVE  [Abstract!Next]_(Abstract!absVars)
  BY <1>1, FailedRefines DEF KernelInv
<1>2. ASSUME NEW p, AllocDescriptors(p)
      PROVE  [Abstract!Next]_(Abstract!absVars)
  BY <1>2, AllocRefines
<1>3. CASE UNCHANGED kernelVars
  BY <1>1, <1>3 DEF kernelVars
<1>4. CASE Next /\ UNCHANGED <<treeVars, semVars, resVars>>
  BY <1>1, <1>4
<1>5. CASE Restart
  BY <1>1, <1>2, <1>5 DEF Restart
<1>6. ASSUME NEW p \in Procs, KernelSpawn(p)
      PROVE  [Abstract!Next]_(Abstract!absVars)
  <2>1. CASE fault'
    BY <1>1, <1>6, <2>1 DEF KernelSpawn
  <2>2. CASE ~fault'
    <3>1. free_pcbs # <<>> /\ AllocDescriptors(Head(free_pcbs))
      BY <1>6, <2>2 DEF KernelSpawn, Spawn, SpawnChild, SpawnFails, Crash
    <3> QED BY <1>2, <3>1
  <2> QED BY <2>1, <2>2
<1>7. ASSUME NEW p \in Procs, KernelExit(p)
      PROVE  [Abstract!Next]_(Abstract!absVars)
  BY <1>1, <1>7 DEF KernelExit
<1>8. ASSUME NEW p \in Procs, SemaphoreCall(p)
      PROVE  [Abstract!Next]_(Abstract!absVars)
  <2>1. running = p
    BY <1>8 DEF SemaphoreCall, SemOpen, SemClose, SemWait, SemPost, Syscall
  <2>2. p \notin SemWaiters /\ QueueInv
    BY <2>1, RunningWaitsForNothing DEF KernelInv
  <2> QED BY <1>8, <2>2, CallRefines
<1> QED BY <1>1, <1>3, <1>4, <1>5, <1>6, <1>7, <1>8 DEF KernelNext

\* The invariants of the processes, of the semaphores and of the resources hold
\* together over the whole kernel.
THEOREM KernelInvariant == KernelSpec => [](KernelInv /\ ResourcesInv)
  BY KernelInitInv, KernelStep, PTL DEF KernelSpec

\* Each blocked process has one of the three ways to be woken, and one place in
\* one queue, so that exit, semPost and the timers never wake a process that waits
\* for another of them: not even after a second start.
THEOREM KernelBlocked == KernelSpec => []BlockedForOneReason
  BY KernelInvariant, ReasonsGive, PTL

\* No PCB is lost or in two places, with the semaphores and the second start.
THEOREM KernelPlaces == KernelSpec => []OnePlaceEach
  BY KernelInvariant, PTL DEF KernelInv, ProcInv

\* Each semaphore descriptor that is allocated is on the list of one PCB and of
\* one semaphore, although the PCB may be another process by now.
THEOREM KernelDescriptors == KernelSpec => []DescriptorsConsistent
  BY KernelInvariant, PTL DEF KernelInv, QueueInv

\* No parent sleeps through the exit of its own child, whatever it waited for
\* before.
THEOREM KernelWake == KernelSpec => []NoWaitForZombie
  BY KernelInvariant, PTL DEF KernelInv, ProcInv

\* A wait for a child that has blocked can end, or is one of the two that the
\* property names, over semaphores, the reuse of PCBs and a second start: the new
\* init takes no children from a process of before that waits.
THEOREM KernelWaits == KernelSpec => []WaitCanEnd
<1>1. KernelInit => WaitersAreParents
  BY DEF KernelInit, ProcInit, WaitersAreParents
<1>2. KernelInv /\ WaitersAreParents /\ [KernelNext]_kernelVars => WaitersAreParents'
  BY KernelWaitersStep DEF KernelInv
<1>3. KernelInv /\ WaitersAreParents => WaitCanEnd
  BY WaitersGive DEF KernelInv
<1> QED BY <1>1, <1>2, <1>3, KernelInvariant, PTL DEF KernelSpec

\* A resource and its descriptors agree: exit, close, destroy and the reuse of a
\* PCB free no descriptor that is on a list, and no resource goes that has one.
THEOREM KernelResources == KernelSpec => []ResourcesConsistent
  BY KernelInvariant, ResourcesInvGives, PTL

\* close finds the descriptor that open gave the number to.
THEOREM KernelNumbers == KernelSpec => []NumbersDistinct
  BY KernelInvariant, ResourcesInvGives, PTL

\* The descriptors that a step loses were on the list of the PCB that it gives out,
\* and a PCB that comes back with descriptors on its list comes from a zombie.
THEOREM KernelLost == KernelSpec => LostOnlyByReuse
<1> DEFINE Lost == /\ \A d \in LostDescriptors' \ LostDescriptors :
                        \E p \in Procs : GivenOut(p) /\ d \in Range(pcb_descriptors[p])
                   /\ \A p \in Range(free_pcbs') \ Range(free_pcbs) :
                        p \in zombie_list \/ pcb_descriptors'[p] = <<>>
<1>1. KernelInv /\ ResourcesInv /\ [KernelNext]_kernelVars => [Lost]_kernelVars
  <2> SUFFICES ASSUME KernelInv, ResourcesInv, KernelNext PROVE Lost
    OBVIOUS
  <2>1. ProcInv /\ (GivesOut \/ LostStay)
    BY ResourcesStep DEF KernelInv
  <2> QED BY <2>1, GivesOutLoses, ComesBackStep DEF LostStay, ComesBackEmpty
<1> QED BY <1>1, KernelInvariant, PTL DEF KernelSpec, LostOnlyByReuse

\* The kernel keeps the promise of SemaphoreSpec through exits that close no
\* semaphore, through the reuse of the PCBs and through a second start.
THEOREM KernelImplements == KernelSpec => Implements
<1>1. KernelInit => Abstract!Init
  BY NoSemaphoresInit DEF KernelInit
<1>2. KernelInv /\ [KernelNext]_kernelVars => [Abstract!Next]_(Abstract!absVars)
  BY KernelRefines
<1> QED BY <1>1, <1>2, KernelInvariant, PTL DEF KernelSpec, Implements, Abstract!Spec

=============================================================================
