-------------------------------- MODULE Sdi --------------------------------
(***************************************************************************)
(* Drivers and their interrupts: the registry (module Registry), the host  *)
(* calls of kernel/src/sdi/host.c, the vectors of kernel/src/cpu/idt.c,    *)
(* the I/O APIC of kernel/src/sys/apic.c, and drivers that behave like     *)
(* drivers/ps2/main.c.                                                     *)
(*                                                                         *)
(*   g         the registry                                                *)
(*   insts     instance to [driver, handle, irq, running]: what attach     *)
(*             allocated, the handle it came from, kbd->irq, and whether   *)
(*             the last start or stop of it returned from a start          *)
(*   bindings  sdi_irq_bindings: line to the instance, 0 if not used       *)
(*   vectors   the lines whose vector has sdi_irq_dispatch as callback     *)
(*   masked    the lines whose redirection entry is masked                 *)
(*   task      where the thread that makes the calls is                    *)
(*   sti       interrupts are enabled on the CPU                           *)
(*   full      the devices with a byte in their output buffer              *)
(*   missed    those whose byte came while the line was masked             *)
(*   pending   the lines with an interrupt requested at the local APIC     *)
(*   stuck     an interrupt has not been acknowledged: irq_dispatch_vector *)
(*             sends no EOI for a vector that has no callback, and the     *)
(*             lines' vectors have one priority class                      *)
(*                                                                         *)
(* Calls come from one thread on the CPU that takes the interrupts, which  *)
(* run between its steps.  It starts an instance that is not running,      *)
(* stops one that is and detaches one that is not: the drivers are written *)
(* for that order.                                                         *)
(***************************************************************************)
EXTENDS Registry

CONSTANTS
    Drivers,      \* the drivers there are
    Lines,        \* interrupt lines
    Instances,    \* addresses for instances
    Requested,    \* host->max_drivers
    MaxHandle     \* bound: handles given out

ASSUME CapacityNat == SDI_REGISTRY_CAPACITY \in Nat

\* The drivers that can come into the registry, the children included.
Registrable == Drivers \cup UNION {{d.child[i] : i \in DOMAIN d.child} : d \in Drivers}

\* As drivers/ps2: what can be started can be stopped and detached, and binds
\* a line that there is.  A driver registers at most one other.
ASSUME DriversComplete ==
    /\ \A d \in Drivers : d.child = <<>> \/ \E c \in Registrable : d.child = <<c>>
    /\ \A d \in Registrable : d.supported /\ "start" \in d.hooks =>
          {"attach", "stop", "detach"} \subseteq d.hooks /\ d.line \in Lines

\* NULL is no instance, and a line is named by its handle, the line plus one.
ASSUME NotNull == 0 \notin Instances /\ 0 \notin Lines

VARIABLES g, insts, bindings, vectors, masked, task, sti, full, missed, pending, stuck

host   == <<bindings, vectors, masked>>
device == <<full, missed>>
vars   == <<g, insts, host, task, sti, device, pending, stuck>>

IDLE == [at |-> "idle"]
At(step, i) == [at |-> step, inst |-> i]
Loading(step, h) == [at |-> step, handle |-> h]

Init ==
    /\ g = Empty(0, FALSE)
    /\ insts = [i \in {} |-> 0]
    /\ bindings = [l \in Lines |-> 0]
    /\ vectors = {} /\ masked = Lines
    /\ task = IDLE
    /\ sti = FALSE
    /\ full = {} /\ missed = {} /\ pending = {}
    /\ stuck = FALSE

Calls == task = IDLE
Known(i) == sdi_entry_from_handle(g, insts[i].handle) # 0
Has(i, hook) == hook \in insts[i].driver.hooks
LineOf(i) == insts[i].driver.line

-----------------------------------------------------------------------------
(* The registry.                                                           *)

Registers(n) == g' = n /\ UNCHANGED <<insts, host, sti, device, pending, stuck>>

sdi_kernel_init == Calls /\ ~g.up /\ Registers(sdi_init(Requested)) /\ UNCHANGED task

\* Nobody uses a handle from before: sdi_init starts again at 1.
Shutdown ==
    /\ Calls /\ g.up
    /\ g' = sdi_shutdown(g)
    /\ insts' = [i \in DOMAIN insts |-> [insts[i] EXCEPT !.handle = 0]]
    /\ UNCHANGED <<host, task, sti, device, pending, stuck>>

Unregister ==
    /\ Calls
    /\ \E h \in 1..g.next, ok \in BOOLEAN : Registers(sdi_unregister_driver(g, h, ok))
    /\ UNCHANGED task

-----------------------------------------------------------------------------
(* sdi_kernel_register_loaded_driver.                                      *)

Load(d) ==
    /\ Calls /\ g.next < MaxHandle
    /\ \E init \in {"ok", "fails", "fails late"} :
         \E n \in {sdi_register_driver(g, d, init)} :
            /\ Registers(n)
            /\ task' = IF init # "ok" \/ sdi_find_driver(n, d.name) \in {0, sdi_find_driver(g, d.name)}
                       THEN IDLE ELSE Loading("probe", sdi_find_driver(n, d.name))

Entry == g.slots[sdi_entry_from_handle(g, task.handle)].driver

\* An error, no hook or a score of 0 end the load; the driver stays registered.
Probe ==
    /\ task.at = "probe"
    /\ \E matches \in BOOLEAN :
           task' = IF "probe" \in Entry.hooks /\ matches THEN Loading("attach", task.handle)
                   ELSE IDLE
    /\ UNCHANGED <<g, insts, host, sti, device, pending, stuck>>

\* ps2_keyboard_attach: SDI_ERR_NOMEM when there is no room.
Attach ==
    /\ task.at = "attach"
    /\ IF "attach" \notin Entry.hooks \/ Instances \subseteq DOMAIN insts
       THEN task' = IDLE /\ UNCHANGED insts
       ELSE \E i \in {CHOOSE j \in Instances \ DOMAIN insts : TRUE} :
              /\ insts' = [j \in DOMAIN insts \cup {i} |->
                              IF j = i THEN [driver |-> Entry, handle |-> task.handle,
                                             irq |-> 0, running |-> FALSE]
                              ELSE insts[j]]
              /\ task' = IF "start" \in Entry.hooks THEN At("start", i) ELSE IDLE
    /\ UNCHANGED <<g, host, sti, device, pending, stuck>>

-----------------------------------------------------------------------------
(* Starting and stopping.                                                  *)

\* sdi_start_driver of an instance that is attached.
sdi_start_driver(i) ==
    /\ Calls /\ Known(i) /\ Has(i, "start") /\ ~insts[i].running
    /\ task' = At("start", i)
    /\ UNCHANGED <<g, insts, host, sti, device, pending, stuck>>

\* ps2_keyboard_start up to sdi_irq_bind: the output buffer is drained.
Drain ==
    /\ task.at = "start"
    /\ full' = full \ {LineOf(task.inst)}
    /\ missed' = missed \ {LineOf(task.inst)}
    /\ task' = At("bind", task.inst)
    /\ UNCHANGED <<g, insts, host, sti, pending, stuck>>

\* Variant: a line that is in use is taken over.
BindTakesOver ==
    /\ task.at = "bind"
    /\ bindings' = [bindings EXCEPT ![LineOf(task.inst)] = task.inst]
    /\ task' = At("vector", task.inst)
    /\ UNCHANGED <<g, insts, vectors, masked, sti, device, pending, stuck>>

\* sdi_host_irq_bind; SDI_ERR_BUSY leaves the instance attached.
Bind ==
    /\ task.at = "bind"
    /\ IF bindings[LineOf(task.inst)] # 0 THEN task' = IDLE /\ UNCHANGED bindings
       ELSE /\ bindings' = [bindings EXCEPT ![LineOf(task.inst)] = task.inst]
            /\ task' = At("vector", task.inst)
    /\ UNCHANGED <<g, insts, vectors, masked, sti, device, pending, stuck>>

\* irq_install: the vector, then the redirection entry, which is unmasked.
InstallVector ==
    /\ task.at = "vector"
    /\ vectors' = vectors \cup {LineOf(task.inst)}
    /\ task' = At("route", task.inst)
    /\ UNCHANGED <<g, insts, bindings, masked, sti, device, pending, stuck>>

\* ioapic_write_red, ioapic_set_irq_mask and sdi_irq_unmask; kbd->irq.
Route ==
    /\ task.at = "route"
    /\ masked' = masked \ {LineOf(task.inst)}
    /\ insts' = [insts EXCEPT ![task.inst].irq = LineOf(task.inst), ![task.inst].running = TRUE]
    /\ task' = IDLE
    /\ UNCHANGED <<g, bindings, vectors, sti, device, pending, stuck>>

\* Variant: kbd->irq is cleared, the line stays bound.
StopKeepsLine(i) ==
    /\ Calls /\ Known(i) /\ insts[i].running
    /\ insts' = [insts EXCEPT ![i].irq = 0, ![i].running = FALSE]
    /\ UNCHANGED <<g, host, task, sti, device, pending, stuck>>

\* ps2_keyboard_stop, up to the mask of sdi_host_irq_unbind, which fails when
\* the line is not bound.
sdi_stop_driver(i) ==
    /\ Calls /\ Known(i) /\ insts[i].running
    /\ IF bindings[insts[i].irq] # 0
       THEN masked' = masked \cup {insts[i].irq} /\ task' = At("unvector", i) /\ UNCHANGED insts
       ELSE /\ insts' = [insts EXCEPT ![i].irq = 0, ![i].running = FALSE]
            /\ UNCHANGED <<masked, task>>
    /\ UNCHANGED <<g, bindings, vectors, sti, device, pending, stuck>>

\* irq_uninstall.
UninstallVector ==
    /\ task.at = "unvector"
    /\ vectors' = vectors \ {insts[task.inst].irq}
    /\ task' = At("unbind", task.inst)
    /\ UNCHANGED <<g, insts, bindings, masked, sti, device, pending, stuck>>

\* The binding is cleared, and kbd->irq.
Unbind ==
    /\ task.at = "unbind"
    /\ bindings' = [bindings EXCEPT ![insts[task.inst].irq] = 0]
    /\ insts' = [insts EXCEPT ![task.inst].irq = 0, ![task.inst].running = FALSE]
    /\ task' = IDLE
    /\ UNCHANGED <<g, vectors, masked, sti, device, pending, stuck>>

\* ps2_keyboard_detach.
sdi_detach_driver(i) ==
    /\ Calls /\ Known(i) /\ Has(i, "detach") /\ ~insts[i].running
    /\ insts' = [j \in DOMAIN insts \ {i} |-> insts[j]]
    /\ UNCHANGED <<g, host, task, sti, device, pending, stuck>>

-----------------------------------------------------------------------------
(* Calls on an irq handle, which is the line plus one: a handle from       *)
(* before the line was bound again is as good as the new one.              *)

irq_call(l) == Calls /\ g.up /\ bindings[l] # 0

sdi_irq_mask(l) ==
    /\ irq_call(l)
    /\ masked' \in {masked \cup {l}, masked \ {l}}
    /\ UNCHANGED <<g, insts, bindings, vectors, task, sti, device, pending, stuck>>

\* sdi_irq_ack: an EOI, whichever interrupt it is for.
sdi_irq_ack(l) ==
    /\ irq_call(l)
    /\ stuck' = FALSE
    /\ UNCHANGED <<g, insts, host, task, sti, device, pending>>

-----------------------------------------------------------------------------
(* Interrupts.                                                             *)

\* kmain enables interrupts, after boot; a switch to a thread that had them
\* enabled does it as well.
EnableInterrupts ==
    /\ ~sti /\ sti' = TRUE
    /\ UNCHANGED <<g, insts, host, task, device, pending, stuck>>

\* context_switch does not save the flag: from the timer interrupt the CPU can
\* come to a thread that gave it up by itself, and runs it with interrupts off.
ResumeWithoutInterrupts ==
    /\ sti /\ sti' = FALSE
    /\ UNCHANGED <<g, insts, host, task, device, pending, stuck>>

\* A device has a byte to give: an edge on its line, which a masked entry
\* does not remember.
Byte(l) ==
    /\ l \notin full
    /\ full' = full \cup {l}
    /\ missed' = IF l \in masked THEN missed \cup {l} ELSE missed
    /\ pending' = IF l \in masked THEN pending ELSE pending \cup {l}
    /\ UNCHANGED <<g, insts, host, task, sti, stuck>>

\* Variant: the handler returns without reading the byte.
InterruptUnread(l) ==
    /\ sti /\ ~stuck /\ l \in pending
    /\ pending' = pending \ {l}
    /\ stuck' = (l \notin vectors)
    /\ UNCHANGED <<g, insts, host, task, sti, device>>

\* The driver's handler reads the byte, if there is one.
ps2_keyboard_irq(l) == full' = full \ {l} /\ missed' = missed \ {l}

\* The callback of the vector: the handler of the line, then the EOI.
sdi_irq_dispatch(l) ==
    /\ IF bindings[l] # 0 THEN ps2_keyboard_irq(l) ELSE UNCHANGED device
    /\ UNCHANGED stuck

\* isr_common_handler and irq_dispatch_vector.
isr_common_handler(l) ==
    /\ sti /\ ~stuck /\ l \in pending
    /\ pending' = pending \ {l}
    /\ IF l \in vectors THEN sdi_irq_dispatch(l) ELSE stuck' = TRUE /\ UNCHANGED device
    /\ UNCHANGED <<g, insts, host, task, sti>>

Next ==
    \/ sdi_kernel_init \/ Shutdown \/ Unregister
    \/ \E d \in Drivers : Load(d)
    \/ Probe \/ Attach \/ Drain \/ Bind \/ InstallVector \/ Route
    \/ UninstallVector \/ Unbind
    \/ \E i \in DOMAIN insts : sdi_start_driver(i) \/ sdi_stop_driver(i) \/ sdi_detach_driver(i)
    \/ \E l \in Lines : sdi_irq_mask(l) \/ sdi_irq_ack(l) \/ Byte(l) \/ isr_common_handler(l)
    \/ EnableInterrupts \/ ResumeWithoutInterrupts

\* An interrupt that is pending, and not blocked, whenever interrupts are
\* enabled is taken: the processor does so before the next instruction.
Fairness == \A l \in Lines : SF_vars(isr_common_handler(l))

Spec == Init /\ [][Next]_vars /\ Fairness

-----------------------------------------------------------------------------
(* Properties.                                                             *)

\* Entries have handles and names of their own that sdi_find_driver leads
\* to, sdi_get_driver_at gives them all, and the count is theirs and that of
\* the entries written over while an init hook registered a driver.
\* (sdi_register_driver, sdi_unregister_driver, sdi_init, sdi_shutdown)
RegistrySound ==
    LET used == {g.slots[i] : i \in Used(g)}
        handles == {e.handle : e \in used}
    IN  /\ Cardinality(handles) = Cardinality(Used(g)) /\ handles \subseteq 1..(g.next - 1)
        /\ \A e \in used : sdi_find_driver(g, e.driver.name) = e.handle
        /\ {sdi_get_driver_at(g, k) : k \in 0..(Cardinality(Used(g)) - 1)} = handles
        /\ g.count = Cardinality(Used(g)) + g.lost
        /\ \A i \in 1..SDI_REGISTRY_CAPACITY : i > g.max => g.slots[i] = FREE

\* An interrupt never calls a handler for an instance that is freed or of a
\* driver of another line, at any point of a start or stop.
\* (sdi_host_irq_bind, sdi_host_irq_unbind, sdi_irq_dispatch,
\* ps2_keyboard_stop, ps2_keyboard_detach)
HandlerLive ==
    \A l \in vectors : bindings[l] \in DOMAIN insts /\ LineOf(bindings[l]) = l

\* Between calls, a line is bound to the instance that has its handle and to
\* no other, and a line that is not bound is masked: a failed start keeps
\* nothing, and a stop or a second user of the line harms no one else.
\* (sdi_host_irq_bind, sdi_host_irq_unbind, ps2_keyboard_start,
\* ps2_keyboard_stop, sdi_kernel_register_loaded_driver)
LinesSound ==
    Calls =>
        /\ \A l \in Lines :
              /\ bindings[l] # 0 <=> l \in vectors
              /\ bindings[l] = 0 => l \in masked
              /\ bindings[l] # 0 => insts[bindings[l]].irq = l
        /\ \A i \in DOMAIN insts :
              /\ insts[i].running <=> insts[i].irq # 0
              /\ insts[i].running => bindings[insts[i].irq] = i

\* If the CPU's interrupts are enabled again and again, a byte whose edge was
\* not lost at a masked line is read, unless the driver is stopped first or an
\* interrupt without a handler has blocked the local APIC.
\* (sdi_irq_dispatch, ps2_keyboard_irq, irq_dispatch_vector)
IrqServed ==
    \A l \in Lines : []<>sti => ((l \in vectors /\ l \in full \ missed)
                                  ~> (l \notin full \ missed \/ l \notin vectors \/ stuck))
=============================================================================
