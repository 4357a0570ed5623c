# The Senate: a verification of the process kernel and its virtual memory

The repository holds four programs that simulate an operating system over TCP: the **Kernel**
schedules processes, the **CPU** interprets their programs, **Memoria** gives them paged and swapped
memory, and each **Consola** brings one program and serves its screen and keyboard.  This directory
models five parts of it: the threads of the Kernel; the quantum, with the clocks of the Kernel and the
interruption of the CPU; the instruction cycle; the virtual memory that the CPU and Memoria build
together; and the consoles, with the accept loop and the packets of the library.  TLC checks the
models on small instances; TLAPS proves theorems about all five, and about the arithmetic of addresses,
for every instance.

## 1. The system

| Component | State it keeps | Operations | What is hard |
|---|---|---|---|
| Kernel, console thread (`consola_routine.c`), one per console | its PCB, the socket | create the PCB, push to NEW, serve screen and keyboard, end the process | shares the PCB with three other threads; frees it |
| Kernel, long-term planner (`planificador_routine.c`) | `cola_estado_new`, the multiprogramming degree | admit: wait for NEW and the degree, create in Memoria, push to READY | semaphores and queues are updated separately |
| Kernel, dispatcher (`cpu_dispatch_routine.c`) | the process the CPU runs | DESALOJO, EXIT, SEG_FAULT, BLOQUEO, PAGE_FAULT, next process | looks PCBs up by id while others free them |
| Kernel, blocked processes (`blocked_routine.c`), one thread per I/O | `sem_dispositivos_IO` | take, use and give back a device | the `pipeline` field is a mailbox without a lock |
| Kernel, Memoria client (`memoria_routine.c`) | three semaphores and two globals | one request to Memoria at a time | a hand-made monitor with four kinds of callers |
| Kernel, algorithms (`fifo.c`, `round_robin.c`, `feedback.c`) | READY queues, `last_clock_id`, `is_rr` | push, pop, start a clock with a turn and cancel it at its end | a clock that ended, or that is past its last cancellation point |
| Kernel, clocks and interruption thread (`cpu_interrupt_routine.c`) | a global with the pid to interrupt, two semaphores | leave a notice, copy it, send it to the CPU | one mailbox for clocks that are cancelled while they wait for it |
| CPU, cycle (`ciclo.c`) | `mi_contexto`, the decoded words, the flags of the cycle | fetch, decode, six instructions, check_interrupt | keeps the codes of the last line decoded, of any process |
| CPU, MMU and TLB (`mmu.c`, `tlb.c`) | the TLB | translate an address, look it up, clean the entries of a process | the TLB is never told of a replacement |
| CPU, dispatch, interruption and memory threads | the context, the pid and flag of the interruption | receive and return contexts, receive notices | flag and context change independently |
| Memoria, Kernel thread (`kernel_routine.c`, `swap.c`, `paginacion.c`) | page tables, bitmaps, TablaFrames, queues, swap file | NUEVO_PROCESO, PAGE_FAULT, EXIT_PROCESO | four structures that must agree |
| Memoria, CPU thread (`cpu_routine.c`) | shares all of them | MMU_MARCO, MOV_IN, MOV_OUT | answers before it marks the access |
| Consola (`consola.c`) | its program, the last word typed and shown | send the program, answer INPUT and OUTPUT, end with EXIT | either side may leave at any moment |
| Libreria (`tcp_server.c`, `tcp_serializacion.c`, `tcp_client.c`) | the parameters of the next thread, the statuses of all | accept, create a thread, send and receive packets | one block of parameters for all threads; `recv` may fail and its result is not looked at |

The Kernel's threads communicate through semaphores, two kinds of queues, `pcb_list`, the `pipeline`
of each PCB and the memory globals.  Kernel and CPU exchange one context at a time over the dispatch
socket; Kernel and Memoria, and CPU and Memoria, one request and its answer.  The two connections of
Memoria are served by two threads that run at the same time.  Each console has its connection, served
by the thread that the accept loop created for it, and the interruption socket goes one way only.

What makes each part correct: no process is in two places or lost; every semaphore counts what it
stands for; the dialogue through `pipeline` never leaves an unexpected code; one request at a time
reaches Memoria, for a process that it has; the degree bounds the processes in memory; a device has
one user; every process ends.  Of the quantum: notices
arrive all, once and in order; a clock belongs to a turn; a process loses the CPU for its own quantum
and nobody starves.  Of the cycle: a well-formed program runs as if it were alone.  Of the consoles:
each thread serves its own, what one side reads is what the other sent, and all end when the Kernel
does.  Of the memory: tables, frames, slots and queues agree; a page keeps
what its process wrote in it; no process reaches the pages of another; a fault is solved; Memoria only
goes down for lack of resources.  `PROJECT.json` lists the hazards behind each of these, at its line.

## 2. Modules

| Module | Models | Lines of correspondence |
|---|---|---|
| `EstadosProceso` | the five-state process diagram, as the Kernel's log announces it | abstract specification of the Kernel |
| `Kernel` | all the threads of the Kernel | one action between two waits of a thread; a push and the post that announces it are two actions |
| `KernelPropiedades` | its invariants, the refinement mapping, the liveness property | |
| `KernelProofs`, `KernelSeguridad` | theorems about `Kernel`: types and READY; the other invariants and the diagram | |
| `Quantum` | the clocks, the interruption thread, and the three threads of the CPU that meet their notices | one action between two waits, or between two accesses to what threads share |
| `QuantumPropiedades` | its invariants, what an eviction, a notice and a cancellation may do, the liveness property | |
| `QuantumProofs` | theorems about `Quantum` | |
| `Interprete` | what the author of a program expects of it | abstract specification of the cycle |
| `Traduccion` | the arithmetic of addresses and the check of the segment | operators |
| `TraduccionProofs` | theorems about `Traduccion` | |
| `Ciclo` | decode and every instruction, the interruption and the faults, the way of a context from the PCB to the CPU and back | one action per instruction, check, fault and exchange |
| `CicloPropiedades` | the refinement mapping, what no process does to another, the end of programs | |
| `CicloProofs` | theorems about `Ciclo` | |
| `Servidor` | the accept loop and the reading of its parameters by the threads | one action per access to a parameter |
| `Dialogo` | `Servidor` with the consoles, the threads that serve them and the packets between them | one action per packet sent and per field received |
| `DialogoPropiedades` | who serves whom, what each side reads, why the Kernel falls, the end of the consoles | |
| `DialogoProofs` | theorems about `Dialogo` | |
| `MemoriaLogica` | the memory that a program may count on: it reads what it wrote, and anything where it did not write | abstract specification of the virtual memory |
| `Memoria` | page tables, frames, slots, swap, the two clock algorithms, the two threads | one action per request, and one per iteration of a replacement loop |
| `MemoriaVirtual` | `Memoria` composed with the CPU's MMU, TLB and MOV instructions, and with the Kernel as Memoria sees it | one action per exchange between CPU and Memoria |
| `MemoriaPropiedades` | its invariants and the liveness property | |
| `MemoriaEscrituras` | `MemoriaVirtual` with a history of the pages written; isolation and the refinement mapping | the history is read by no action |
| `MemoriaProofs`, `MemoriaAislamiento` | theorems about `MemoriaVirtual`: its tables; what is in its pages | |
| `MCKernel`, `MCQuantum`, `MCCiclo`, `MCDialogo`, `MCMemoria`, `MCMemoriaEscrituras` | instances for TLC | |

State and code, for the Kernel: each thread has a variable with the step it is in (`consola`, `plan`,
`despacho`, `hilo`, `canal`); the others are the program's own (`semX` is the semaphore, `colaX` the
queue, `pipeline` the field, `globalOp` and `globalPcb` the globals).  `porAvisar` counts the threads
that pushed a woken process to READY and have not posted yet: their order does not matter.  `caido`
is TRUE after an `exit(EXIT_FAILURE)` that one of these threads caused to itself, a NULL or a destroyed PCB,
and nothing is said of what follows.  The exits that come from outside are in `salida`: a program that names
a device that is not configured (`HiloDesconoce`), a console whose packet is not the expected one or that
left (`ConsolaFalla`, a choice here: `Dialogo` models both sides).  `cancelados` has the threads that
`sale_de_exec` cancelled in the place of a clock that had ended: a cancelled thread may still go on up to its next
cancellation point, so it is only excused from going on, and the safety properties hold with what it
owed still owed.  A PCB is *nada*, *creado* (by its console), *listado* (in `pcb_list`) or *liberado*.

For the memory: `presente`, `usado`, `modificado`, `marco` and `slot` are the fields of `t_pagina`;
`presentes` is the queue `paginasPresentes`; `mapaFrames`, `mapaSwap` and `tablaFrames` have the names
of the code; `rutina`, `pedida`, `victima`, `paso` and `vuelta` are the locals of a replacement, and
`marca` the `marcarPaginaUsada` that the CPU's thread owes after it answered.  That function looks the page up
with the lock and sets its bits without it; `MarcarPaginaUsada` is one step because the only thing that
undoes a page, the end of its process, would in between leave the bits to be written in freed memory, which is the
same fall as finding no entry (*sin entrada*).  On the CPU, `tlb` is
`colaTLB`, `acceso` the MOV about to be sent (the `pedido` of `MemoriaLogica`, so that only the process that
asked can change a page, and only its own), and `falta` the instruction to execute again.

For the quantum: `hilo` is the step of each thread by its `pthread_t`, which a new thread may take when
its owner ends; `ultimo` is `last_clock_id`.  A clock is *duerme* (usleep), *espera* (sem_wait), *tarde*
(the same, cancelled when it was past its last cancellation point) or *escribe*; *otro* is any thread
that is not a clock.  `vencido`, `heredado`, `avisada` and `enCamino` are history: no action reads them.

For the cycle: `contexto` and `operacion` are `mi_contexto`, `aux`, `devolver` and `falta` the variables
of `ciclo_instruccion`, and `turno` says which thread has the context, that is in one place because of
`ContextoExclusivo`.  A word of the memory is named by its `Casilla`, the segment, page and place that
`traducciones` computes; the segments that the author sees are those of `DireccionesDe`.

For the consoles: `param` is the block of two integers that every thread of a console is given, `leido`
what it read in it, and `red` both directions of each connection and how it ends for each side: *viva*,
*fin* (the other side closed), *rst* (it closed with something unread) or *roto* (the reset was already
told, so that the next `send` is a SIGPIPE).  `pipeline` is the mailbox that `Kernel` models with its
other two threads.  `cancelados` has, as in the Kernel, threads that a late `sale_de_exec` cancelled.

Abstractions.  A page is one value and the segments of a process are one table.  The contents of
registers, programs and messages are left out of `Kernel` and of the memory, except for the value of a
MOV.  In the Kernel the CPU
returns the process it has with any of its messages at any moment, so the quantum is a choice;
SEG_FAULT is the same as EXIT for the Kernel and joins it in one action.  In the memory the Kernel
creates a process, asks for the page of a fault and ends a process, each once and in that order, with
one request at a time: those are the properties `MonitorMemoria` and `PedidosAMemoria` of the Kernel.
An undefined access (a NULL page, the position UINT32_MAX) ends the model, with its cause in `caida`.
In `Quantum` what a process executes is a choice, and a push to READY is one step with its post, as
`AvisosReady` allows.  In `Ciclo` an interruption and a page fault of an address inside a segment are
choices at any instruction, and words are aligned.  In `Dialogo` a packet is put in the socket whole; a text is its
length; a `recv` that asks for other than the next field leaves its thread *perdido*, of which nothing is
said; and the process asks for the screen or the keyboard a few times and ends.
The swap file starts empty (`swap_inicializar` opens it for reading, so that `ftruncate` fails): reading past its
end gives any value, the contents of the buffer that `malloc` gave, and a write fills what is before it with
zeros (`Guardado`).  A page that was never written may then change each time it is replaced, and
`escritas` keeps the pages of which something can be said.  The bitmaps start with any of the contents
that the instance lists, because they come from `malloc`.  The Kernel and the CPU are assumed to stay
connected to Memoria, which ends when one of them leaves.

Definitions marked as *mutant* are the code with a plausible bug.  No specification uses them: they
are there to be put in the place of the definition that follows, and then the property that
`PROJECT.json` names must fail.

## 3. What TLC checks

| Run | Instance | States | Shows |
|---|---|---|---|
| `kernel_feedback` | 3 processes, degree 2, FEEDBACK, a device, the screen and a name that is no device, one thread cancelled in the place of a clock | 508 thousand | type, `NuncaCae`, `AvisosReady`, `SemaforosExactos` (NEW, degree, devices), `MonitorMemoria`, `UnSoloLugar`, `PedidosAMemoria`, `RegistroLeeVivo`; `ImplementaEstados` |
| `kernel_rr_termina` | 3 processes, degree 2, RR, a device, the keyboard and a name that is no device, with fairness | 313 thousand | `TodosTerminan` |
| `quantum_feedback` | 2 processes, FEEDBACK, 2 values of `pthread_t`, a thread that is not a clock, a socket of one notice, quanta of any length | 1.3 million | type, `ContextoExclusivo`, `BuzonExclusivo`, `AvisosEnOrden`, `RelojDelTurno`; `DesalojoJustificado`, `ObedeceAviso`, `CancelaSuReloj` |
| `quantum_rr` | the same with RR and a long quantum, with fairness | 217 thousand | `NadieEspera` |
| `ciclo_interprete` | 2 well-formed programs, 2 registers, words of one bit, two pages of a word, any garbage, with fairness | 45 thousand | type, `NadaAfuera`; `ImplementaInterprete`, `TodosTerminan` |
| `ciclo_floja` | a well-formed program beside one whose lines lack words, name things that do not exist and have no EXIT | 854 thousand | `ImplementaInterprete` for the first, `SoloElPropio` |
| `consolas` | 2 consoles, one with two segments and two lines (one empty) that asks twice for screen or keyboard, the other with no segment and no line; two words to type and one to show; both may be killed, `accept` and `pthread_create` may fail, the thread of the second may be cancelled; with fairness | 618,000 | type, `CadaUnoLoSuyo`, `DialogoFiel`, `CaidaConCausa`, `ConsolaVeraz`; `TodasTerminan` |
| `memoria_tablas` | 3 processes of 2 pages, 2 frames, 4 slots, CLOCK-M, TLB of 2 (LRU), dirty bitmaps | 1.2 million | type, `TablasCoherentes` (frames and slots), `ColaCoherente`, `TLBPropia`, `ReintentoNoFalla`, `CausasDeCaida` |
| `memoria_logica` | 2 processes of 2 pages with one frame each, values 0 and 1, CLOCK, no TLB | 2.6 million | `ImplementaLogica` |
| `memoria_aislamiento` | the same with a TLB of 1 (FIFO) | 3.5 million | `AislamientoContenido` |
| `memoria_reemplazo` | 2 processes over 3 frames, up to 2 each, CLOCK-M, with fairness | 417 thousand | `ReemplazoTermina` |
| `memoria_tlb` | 2 processes with one frame each and a TLB of 2 | | a **violation** of `AccesoVigente` |

Why the bounds are enough.  Three processes with a degree of two leave one process in NEW while the
others run, end and give the degree back; two processes at once reach every pair of threads that
share a semaphore, a queue or the memory monitor.  So does
`kernel_rr_termina`, where one process always waits for the degree and two contend for what they ask.
`MaxCancelados` bounds the threads that are cancelled in the place of a clock, and `Cancelables` says which of
`Dialogo` may be.  A cancellation changes nothing but what is fair: one is enough for the safety properties to meet
it (`kernel_feedback`), and `TodosTerminan`, which promises nothing of a behaviour that has one, is checked on the
others (`MaxCancelados` is 0 in `kernel_rr_termina`).  In the memory, two pages and one frame make every
access to the other page a replacement; two frames and three processes fill the memory, so that a
process with no page in it faults; slots for two make the third wait for the slots of one that ended.
A file that is empty at the start has every page read before it is written, before and after another
write extends the file.  There no counter needs a bound: semaphores are bounded by the invariants.

Two processes and two values of `pthread_t` are enough for a clock to be late while the next one runs,
for a notice to arrive in a later turn of the same process, and for `last_clock_id` to name another
thread.  `MaxOtros` bounds the threads that are not clocks and `MaxAvisos` the socket: a full socket makes
the interruption thread wait, so that every queue of the way of a notice fills.  The two programs of
`Ciclo` use every instruction, a segment of two pages, an empty one and a device; with `Floja` the second
one also keeps words of the first.  Two consoles are enough for the accept loop to overtake a thread
between its two readings; `MaxPedidos` bounds the requests of each process.

The last run is the one disagreement found between code and text.  A comment in `cpu_routine.c` says
that an access through the TLB to a frame that was replaced is a page fault.  Nothing does that: the
CPU uses the entry, and Memoria reads or writes whatever page is now in the frame.  What remains true
is `TLBPropia` and `AislamientoContenido`: replacement is local and the TLB is cleaned when a process
ends, so the page belongs to the same process, which may corrupt its own data but no other's.

Some properties say where a promise stops.  `RegistroLeeVivo`: the planner logs the id of a PCB after
its push, and the PCB may have been freed; only if the degree is above one and the dispatcher took it
with the token of another process, that is then left in READY.  `DesalojoJustificado`: a process may pay
for the quantum of an earlier turn of its own, when the notice was on its way, but not for that of
another.  `CancelaSuReloj`: when the clock of the turn went off, its `pthread_t` may be that of a console,
blocked or page-fault thread, which is cancelled instead; `TodosTerminan` and `TodasTerminan` promise
nothing after that, nor `TodosTerminan` after the exits of `salida`.  `CadaUnoLoSuyo`: a thread that is overtaken
by the accept loop may serve the console of another connection, always a later one.  `CaidaConCausa`: a
console that leaves before its process ended takes the Kernel with it.  `Perturbada`: a connection is harmed when
its parameters were overwritten before its thread read them, or another thread read its socket or its
identifier, since two PCBs with one identifier are one for the dispatcher; the properties of `Dialogo` that speak
of one connection leave those out.  `TodasTerminan` promises nothing to anybody once some connection is harmed
or some thread cancelled: its process may keep the screen or the keyboard.

`ImplementaLogica` needs whole pages and no TLB: pages that a segment fills only in part
share one position of the swap file.

Fairness.  `Kernel!SpecJusta` assumes that a thread that can go on, and was not cancelled, does (the scheduler
of the host): with RR and FEEDBACK `sale_de_exec` calls `pthread_cancel(last_clock_id)` even if that clock went
off, and the identifier may be that of a console, blocked or page-fault thread, which is then owed no step.  It
also assumes that a program that is given the CPU again and again ends (strong fairness of `DespachoFinaliza`):
programs are finite lists of instructions without jumps.  `MemoriaVirtual!SpecJusta` assumes only
that the two threads of Memoria go on with what they have started.  `Quantum!SpecJusta` assumes that every
thread goes on, that devices and pages wake their processes and that other threads end; programs may
run for ever.  `NadieEspera` needs `QuantumLargo` besides: a quantum that outlasts the trip of a context
and of a notice, since the CPU forgets a notice that comes before the context it is for.
`Ciclo!SpecJusta` is strong for the dispatcher, which takes each process of READY in its turn, and for
an access, which is not answered with a page fault for ever (`ReintentoNoFalla`).  `Dialogo!SpecJusta`
assumes that consoles and the threads that nobody cancelled go on and that a process asks or ends; nothing has
to fail.

## 4. What TLAPS proves

`KernelProofs`, for any finite set of processes, degree, set of devices and algorithm, from
`SupuestosKernel` (the processes are finitely many, the degree positive, the screen and the keyboard
are not configured as devices, `MaxCancelados` is a natural and `Nulo` is no process, device or name that a
program may write; programs may name devices that do not exist):

* `TipoCorrecto`: `Spec => []TypeOK`.  `TypeOK` alone is not inductive: the planner, the dispatcher
  and the blocked threads index the PCBs with a local variable that may hold none.  The invariant
  `TipoInv` adds `EnManos`: unless the Kernel is down, those variables hold a process in the steps
  that use them, and the request on its way to Memoria names one.
* `AvisosReadyCorrecto`: `Spec => [](AvisosReady)`.  It is inductive relative to `TipoInv`, since a
  push and a pop change the lengths by one (`LargosReady`) and each post moves a unit from a thread
  that owes it to the semaphore.

`QuantumProofs`, for any set of processes, any finite set of `pthread_t`, the three algorithms, any quantum
and any size of the socket, from `SupuestosQuantum`: all the safety properties that TLC checks of the
quantum.

* `TipoCorrecto`, `ContextoCorrecto`, `BuzonCorrecto` and `AvisosCorrectos` come from one inductive
  invariant, `TipoInv`, since none of them stands alone.  `EnManos` says which steps hold a process;
  that a context returns with a reason needs `ContextoExclusivo`; that the history of notices is a sequence
  needs `AvisosEnOrden`, which in turn needs `BuzonExclusivo`: while a clock writes, the mailbox is empty.
  The number of clocks that write is a cardinality, so each `TomaBuzon` and `Escribe` adds or removes one
  element of `Escritores`.
* `RelojCorrecto`, `DesalojoCorrecto`, `ObedeceCorrecto` and `CancelaCorrecto` come from `TurnoInv`, relative
  to `TipoInv`.  `Viaje` says where the context is in each step of the dispatcher; `Motivo`, that a notice
  for the process of the turn has a cause; `Pendiente`, that the flag stays up until the context goes
  back.  Notices are followed through the late clocks, the mailbox and the socket by `SinAvisosNuevos`.

`TraduccionProofs`, for any size of page and of table, from `SupuestosTraduccion` (both positive): the
translation gives a page of the table and an offset of the page (`PartesDeDireccion`), two addresses never
share a place (`CasillaInyectiva`), the check of the segment lets through the addresses of the segments and
no other (`ChequeoExacto`; they are those of `DireccionesDe`), frames are disjoint (`MarcosDisjuntos`) and an
aligned word does not leave its frame (`PalabraEnMarco`).  They rest on what quotient and remainder are
(`Division`) and on their being unique (`Unica`).

`KernelSeguridad` proves the rest of what TLC checks of the Kernel, from the same assumptions: `NuncaCae`,
`SemaforosExactos`, `MonitorMemoria`, `UnSoloLugar`, `PedidosAMemoria` and `RegistroLeeVivo`.  `NuncaCae` is about what the threads do to each other, not about the exits of `salida`.  They lean on
each other: no thread meets a destroyed PCB because each process is in one place, which is so because
the `pipeline` says whose turn it is, and that in turn needs that nobody went down.  The inductive
`Inv` joins them with what each lacks.  `Conversa`: of the two semaphores of a PCB one carries
a token, and which one is told by the `pipeline` and the steps of the two threads.  `PcbCoherente`: the state of
the PCB by the step of its console thread.  `LugarPrevio` and `LugarAdmitido`: the occurrences of a process in the
queues, the locals of the planner and the dispatcher and the threads add up to one, or to none before
its creation and after its end.  `EnMemoria`: what Memoria holds, by the step of the request.  `GradoVuelve`: a
process that ended before the planner announced it has given its degree back.  The semaphores are
cardinalities of sets of processes, followed by `Conteo`.  It proves `ImplementaEstados` too,
from `Inv`: a step of a thread changes the places of one process, and `UnLugar` says which
transition of the diagram that is.

`MemoriaProofs` proves all the invariants of the memory, for any numbers of processes, pages, frames and
slots, any size of the TLB, both algorithms, both policies and any initial bitmaps, from
`SupuestosMemoria` and `SupuestosTLB` (processes are finitely many, each may have one frame, zero is a value,
`Nulo` is no process, frame or entry).  Its `Inv` adds to them:

* `FaseCoherente`, what the Kernel's view of a process says of its pages and its fault; `PaginasUbicadas`, that
  pages in memory have a frame and whole pages a slot; `RutinaCoherente`, that a replacement is for the page
  that its process asked for and that there was no frame; `AccesoPropio` and `MarcaConEntrada`, that the frame of a
  MOV is of the process that runs, and is freed before its mark only by an end.
* That two pages never get one slot is a matter of order: the slots are taken by rank among the free
  ones (`Menores`, `Enesimo`), and each rank is that of one slot (`EnesimoExiste`).
* `CausasDeCaida` counts: pages in memory go injectively to the pairs of a process and a place in its
  queue, so a full memory with nothing to replace has a cause, the frames given to others.

`MemoriaAislamiento` proves what is in the pages that were written, of the specification with that history
(`SpecE`, whose steps are those of `Spec`: `PasoDeEscrituras`).  `AislamientoContenido` and `ImplementaLogica` have the hypothesis
`PaginasEnteras = Paginas`, without which pages that are filled in part share a position of the swap file and both
are false; `ImplementaLogica` and `AccesoVigente` have `EntradasTLB = 0` besides, since with a TLB the CPU reads the
frame of another page (the run `memoria_tlb`).  Both are configurations of the system and instances of the runs.
The invariant `Contenidos` says where the last value of a page that was written is: in its slot, unless the page is
modified or the CPU's thread owes the mark of the write (`CopiasAlDia`); that the file reaches the slot when the page
is not in memory (`Guardadas`), and the others are not touched by a write that extends it (`GuardadoDeja`); that this
mark comes before any fault of the process that wrote (`MarcaSinFalta`); and that a process that begins has
written nothing (`EscritasVivas`).

`CicloProofs`, for any programs, registers, devices and leftovers of `malloc`, from `SupuestosCiclo` (`Nulo` is no word of
a program, registers and numerals are naturals) and `SupuestosTraduccion`: `TypeOK`, `SoloElPropio` and
`ImplementaInterprete`, and `NadaAfuera` when all programs are well formed (`BienFormados = Procesos`), which the code
does not check.  `Inv` says what each turn of the context leaves for the next one (`CanalCoherente`,
`ExecUnico`, `TurnoCoherente`) and, for a well-formed program, that its counter is at one of its lines and the device
and units on their way are those of the line executed (`Sano`): the words kept from other programs
are then never read.  The refinement needs two theorems of the addresses: `ChequeoExacto`, so that the
fault of the check is that of the author's segments, and `CasillaInyectiva`, so that a word written is
no other word.  A program is well formed if its lines have their words, name registers and
devices that exist, the last one is `EXIT`, and its segments fit in their tables.

`DialogoProofs`, for any consoles, segments, lines, words and requests, from `SupuestosServidor` and `SupuestosDialogo`
(`Nulo` is no connection; lines have lengths, sizes and words are integers; any threads may be cancelled): `TypeOK`, `CadaUnoLoSuyo`,
`DialogoFiel`, `CaidaConCausa` and `ConsolaVeraz`.  Its `Base` says what the loop, the shared parameters and each thread have of the identifiers (`Parametros`: the
parameters are those of the last connection, and a thread that nobody overtook finds its own there); that
what waits for a console is whole packets (`EnPaquetes`), without which it would take a field that is not
there; and which ends of a connection are alive (`ExtremosCoherentes`).  The other three need to know what
each stream carries: `Conexion(c)`, for a connection that no other thread touches, says that the PCB holds
the fields taken and the stream those that follow (`PcbParcial`, `Carga`); that the bytes still to be
counted are those of the fields left, which is what ends the loop over the lines with none read twice
(`RestoCampo`, `RestoTodo`, `RestoFin`: the size of the packet counted field by field); and where a request and
its answer are at each step of the thread and of the console, alive or dead (`Previo`, `Calla`, `Conversa`,
`Despide`).  After the Kernel fell, only the word that its process already has matters (`Abandonada`).
Each step is proved once for the thread and the console of the connection, and once for all the others,
which do not touch it unless they end the Kernel (`HiloAjeno`, `ConexionCae`).

Every safety property and every refinement of the passing runs is then proved, under the assumptions named
above for each.  Model-checked only: liveness
under fairness (`TodosTerminan` of the Kernel and of the programs, `NadieEspera`, `ReemplazoTermina`, `TodasTerminan`),
which is out of the prover's reach.

## 5. Plan

1. Done: the Kernel, its abstract specification and its first theorems; the virtual memory, its
   abstract specification and its composition with the CPU.
2. Done: the quantum, with its theorems; the instruction cycle, with its abstract specification; the
   addresses, with theirs; the consoles, the accept loop and the packets.
3. Done: theorems for the safety of the Kernel, the memory, the cycle and the consoles, and the three
   refinements.
4. Theorems: `ContextoExclusivo` composed with `Ciclo`; the refinement of `MemoriaLogica` with partial
   pages, once the promise about them is stated.

Not modelled, and why:

* The reading of configuration and program files, the log and the deployment scripts: input and output
  with no state that others see.
* The shutdown of the Kernel: the accept loop does not return, so nothing reaches it.
* `iniciar_servidor`, with which Memoria and the CPU accept one or two connections: the loop of
  `Servidor` without the identifier.
* The end of Memoria when the Kernel or the CPU disconnect, and theirs when Memoria does: each just exits.
* Pages that a segment fills only in part and words that cross the end of a page: all such pages share
  one position of the swap file, and such words touch the next frame, so that nothing is promised.
* The data races on the dictionary `TablaFrames`, which the commons library would turn into arbitrary
  behaviour.
