----------------------------- MODULE Resources -----------------------------
(***************************************************************************)
(* The resources of disastrOS on top of its scheduler: open, close and     *)
(* destroy, the list of resources and the descriptors each process holds.  *)
(*                                                                         *)
(* A Descriptor and its DescriptorPtr are one object here, as in           *)
(* Semaphores. A resource is known by its id, which is only compared: the  *)
(* ids are any set here, and the calls do not keep them as an argument.    *)
(***************************************************************************)
EXTENDS Scheduler

CONSTANTS
  ResIds,       \* the resource ids passed to the calls
  ResTypes,     \* the types passed to open
  Modes,        \* the open modes, sums of the DSOS_* bits
  ResFds,       \* the file descriptors passed to close
  ResDescs,     \* the blocks of the two descriptor pools
  MaxResources  \* MAX_NUM_RESOURCES, the size of the resource pool

Descriptor == [pcb : Procs, fd : Int, res : ResIds]

ASSUME ResourcesAssumption ==
  /\ ResTypes \subseteq Int
  /\ Modes \subseteq Nat
  /\ ResFds \subseteq Int
  /\ IsFiniteSet(ResDescs) /\ NULL \notin ResDescs
  /\ NULL \notin ResTypes /\ NULL \notin Descriptor
  /\ MaxResources \in Nat

VARIABLES
  resource_type,    \* Resource.type, NULL outside resources_list
  res_descriptors,  \* Resource.descriptors: nothing reads their order
  pcb_descriptors,  \* PCB.descriptors, in the order of the list
  last_fd,          \* PCB.last_fd
  res_descriptor    \* the content of each pool block, NULL when free

resVars == <<resource_type, res_descriptors, pcb_descriptors, last_fd, res_descriptor>>

DSOS_ERESOURCECREATE == -8
DSOS_ERESOURCEOPEN   == -9
DSOS_ERESOURCENOEXCL == -10
DSOS_ERESOURCENOFD   == -11
DSOS_ERESOURCECLOSE  == -12
DSOS_ERESOURCEINUSE  == -13

\* open_mode & DSOS_CREATE: so DSOS_WRITE, which is 3, creates as well.
Creates(mode) == mode % 2 = 1
\* open_mode & DSOS_EXCL.
Exclusive(mode) == mode \div 4 % 2 = 1

resources_list == {r \in ResIds : resource_type[r] # NULL}

\* No resource exists.
NoResources ==
  /\ resource_type = [r \in ResIds |-> NULL]
  /\ res_descriptors = [r \in ResIds |-> {}]
  /\ pcb_descriptors = [p \in Procs |-> <<>>]
  /\ last_fd = [p \in Procs |-> 0]
  /\ res_descriptor = [d \in ResDescs |-> NULL]

-----------------------------------------------------------------------------
(***************************************************************************)
(* open.                                                                   *)
(***************************************************************************)

OpenExists(p, id, mode) ==
  /\ Creates(mode)
  /\ id \in resources_list
  /\ Answer(p, DSOS_ERESOURCECREATE)
  /\ UNCHANGED resVars

\* The resource pool is empty: List_insert gets the null pointer.
OpenNoResource(id, mode) ==
  /\ Creates(mode)
  /\ id \notin resources_list
  /\ Cardinality(resources_list) >= MaxResources
  /\ Crash
  /\ UNCHANGED resVars

OpenUnknown(p, id, type, mode) ==
  /\ ~Creates(mode)
  /\ resource_type[id] # type
  /\ Answer(p, DSOS_ERESOURCEOPEN)
  /\ UNCHANGED resVars

OpenInUse(p, id, type, mode) ==
  /\ ~Creates(mode)
  /\ resource_type[id] = type
  /\ Exclusive(mode)
  /\ res_descriptors[id] # {}
  /\ Answer(p, DSOS_ERESOURCENOEXCL)
  /\ UNCHANGED resVars

\* The resource is in the list after this, as the call asks for: new, or found
\* with its type, and free if the caller wants it alone.
ResourceReady(id, type, mode) ==
  \/ /\ Creates(mode)
     /\ id \notin resources_list
     /\ Cardinality(resources_list) < MaxResources
     /\ resource_type' = [resource_type EXCEPT ![id] = type]
  \/ /\ ~Creates(mode)
     /\ resource_type[id] = type
     /\ Exclusive(mode) => res_descriptors[id] = {}
     /\ UNCHANGED resource_type

\* The descriptor pool is empty. A resource made for this call stays.
OpenNoDescriptor(p, id, type, mode) ==
  /\ \A d \in ResDescs : res_descriptor[d] # NULL
  /\ ResourceReady(id, type, mode)
  /\ Answer(p, DSOS_ERESOURCENOFD)
  /\ UNCHANGED <<res_descriptors, pcb_descriptors, last_fd, res_descriptor>>

OpenDescriptor(p, id, type, mode) ==
  /\ ResourceReady(id, type, mode)
  /\ \E d \in ResDescs :
       /\ res_descriptor[d] = NULL
       /\ res_descriptor' = [res_descriptor EXCEPT
                               ![d] = [pcb |-> p, fd |-> last_fd[p], res |-> id]]
       /\ pcb_descriptors' = [pcb_descriptors EXCEPT ![p] = Append(@, d)]
       /\ res_descriptors' = [res_descriptors EXCEPT ![id] = @ \union {d}]
  /\ last_fd' = [last_fd EXCEPT ![p] = @ + 1]
  /\ Answer(p, last_fd[p])

OpenResource(p, id, type, mode) ==
  /\ Syscall(p, "OPEN_RESOURCE", 0)
  /\ \/ OpenExists(p, id, mode)
     \/ OpenNoResource(id, mode)
     \/ OpenUnknown(p, id, type, mode)
     \/ OpenInUse(p, id, type, mode)
     \/ OpenNoDescriptor(p, id, type, mode)
     \/ OpenDescriptor(p, id, type, mode)

-----------------------------------------------------------------------------
(***************************************************************************)
(* close and destroy.                                                      *)
(***************************************************************************)

\* The descriptors ds leave the lists of their resources and their blocks go
\* back to the pool.
FreeDescriptors_OnList(ds) ==  \* a bug: the resource keeps the pointer
  /\ res_descriptor' = [d \in ResDescs |-> IF d \in ds THEN NULL ELSE res_descriptor[d]]
  /\ UNCHANGED res_descriptors
FreeDescriptors(ds) ==
  /\ res_descriptor' = [d \in ResDescs |-> IF d \in ds THEN NULL ELSE res_descriptor[d]]
  /\ res_descriptors' = [r \in ResIds |-> res_descriptors[r] \ ds]

\* Unlike semClose, close never gives a number back: last_fd stays.
LastFdAfterClose_Back(p) == [last_fd EXCEPT ![p] = @ - 1]  \* a bug: as in semClose
LastFdAfterClose(p) == last_fd

CloseFound(p, fd) ==
  /\ \E i \in DOMAIN pcb_descriptors[p] :
       LET d == pcb_descriptors[p][i]
       IN  /\ res_descriptor[d].fd = fd
           /\ pcb_descriptors' = [pcb_descriptors EXCEPT ![p] = RemoveAt(@, i)]
           /\ FreeDescriptors({d})
  /\ last_fd' = LastFdAfterClose(p)
  /\ Answer(p, 0)
  /\ UNCHANGED resource_type

CloseUnknown(p, fd) ==
  /\ \A i \in DOMAIN pcb_descriptors[p] : res_descriptor[pcb_descriptors[p][i]].fd # fd
  /\ Answer(p, DSOS_ERESOURCECLOSE)
  /\ UNCHANGED resVars

CloseResource(p, fd) ==
  /\ Syscall(p, "CLOSE_RESOURCE", fd)
  /\ CloseFound(p, fd) \/ CloseUnknown(p, fd)

DestroyUnknown(p, id) ==
  /\ id \notin resources_list
  /\ Answer(p, DSOS_ERESOURCECLOSE)
  /\ UNCHANGED resVars

DestroyInUse(p, id) ==
  /\ id \in resources_list
  /\ res_descriptors[id] # {}
  /\ Answer(p, DSOS_ERESOURCEINUSE)
  /\ UNCHANGED resVars

DestroyFound(p, id) ==
  /\ id \in resources_list
  /\ res_descriptors[id] = {}
  /\ resource_type' = [resource_type EXCEPT ![id] = NULL]
  /\ Answer(p, 0)
  /\ UNCHANGED <<res_descriptors, pcb_descriptors, last_fd, res_descriptor>>

DestroyResource(p, id) ==
  /\ Syscall(p, "DESTROY_RESOURCE", 0)
  /\ DestroyUnknown(p, id) \/ DestroyInUse(p, id) \/ DestroyFound(p, id)

ResourceCall(p) ==
  \/ \E id \in ResIds, t \in ResTypes, mode \in Modes : OpenResource(p, id, t, mode)
  \/ \E fd \in ResFds : CloseResource(p, fd)
  \/ \E id \in ResIds : DestroyResource(p, id)

-----------------------------------------------------------------------------
(***************************************************************************)
(* Properties.                                                             *)
(***************************************************************************)

\* A resource's list holds exactly the descriptors that are allocated for it,
\* and only a resource that exists has any: no descriptor is freed on a list,
\* and a destroyed resource leaves no descriptor that points to it.
ResourcesConsistent ==
  /\ \A r \in ResIds :
       /\ res_descriptors[r] = {d \in ResDescs : /\ res_descriptor[d] # NULL
                                                 /\ res_descriptor[d].res = r}
       /\ res_descriptors[r] # {} => r \in resources_list
  /\ \A p \in Procs : \A i \in DOMAIN pcb_descriptors[p] :
       /\ res_descriptor[pcb_descriptors[p][i]] # NULL
       /\ res_descriptor[pcb_descriptors[p][i]].pcb = p

\* The descriptors of a process have distinct numbers: close takes the first
\* that has the number.
NumbersDistinct ==
  \A p \in Procs : \A i, j \in DOMAIN pcb_descriptors[p] :
    res_descriptor[pcb_descriptors[p][i]].fd = res_descriptor[pcb_descriptors[p][j]].fd
      => i = j

=============================================================================
