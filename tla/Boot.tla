-------------------------------- MODULE Boot --------------------------------
(***************************************************************************)
(* The boot path of src/kernel/main.c (kernel_main) with the security      *)
(* initialisation it runs first: security_init_comprehensive of            *)
(* src/security/security_init.c, sme_init of src/security/sme.c,          *)
(* kaslr_init of src/security/kaslr.c and mm_enable_smep/mm_enable_smap    *)
(* of src/kernel/mm/memory.c.                                              *)
(*                                                                         *)
(* Boot is one thread with interrupts off, so each function kernel_main    *)
(* or security_init_comprehensive calls is one step, in the code's order.  *)
(* What varies is the machine: the CPU's features, the firmware's value of *)
(* the SYSCFG MSR, whether a wrmsr to it sticks, the initial CR0.WP, the   *)
(* multiboot magic and the random value kaslr_random returns.  Functions   *)
(* that only log or read CPUID (cpu_init, verify_secure_boot,              *)
(* init_entropy_pool, enforce_security_policies, init_security_audit,      *)
(* security_status_report) change no state and are folded into the step   *)
(* around them.                                                            *)
(*                                                                         *)
(* No IDT is ever loaded (idt_init is declared in kernel.h and defined     *)
(* nowhere), so a #GP or #UD during boot is a triple fault: the machine    *)
(* resets.  The architectural rules used: setting a CR4 bit the CPU does   *)
(* not support raises #GP; setting CR4.CET while CR0.WP = 0 raises #GP;    *)
(* executing rdrand or rdseed on a CPU without it raises #UD.              *)
(***************************************************************************)
EXTENDS Integers

CONSTANTS
  Required,      \* the CPU features every machine booted has
  Magics,        \* multiboot magic values the loader may pass
  PageArrayFits, \* subset of BOOLEAN: whether mm_init's page array fits
  KaslrUnit      \* the unit KASLR offsets are counted in (bytes per unit)

VARIABLES
  cpu,      \* the machine: fixed at power-on
  pc,       \* the next call of kernel_main / security_init_comprehensive
  exc,      \* the exception that reset the machine, or "none"
  cr0,      \* bits of CR0 the model tracks
  cr4,      \* bits of CR4 the model tracks
  syscfg,   \* bits of MSR_K8_SYSCFG (AMD only)
  sme,      \* sme_state
  kaslr,    \* kaslr_state
  initialized \* kernel_state.initialized

vars == <<cpu, pc, exc, cr0, cr4, syscfg, sme, kaslr, initialized>>

MULTIBOOT2 == 906192521   \* 0x36d76289

\* kaslr.c's constants, counted in KaslrUnit bytes.  All three are multiples
\* of 1 MiB; the offset depends on random_value % range only through how
\* many 2 MiB steps the aligned-up sum lies above KASLR_MIN_OFFSET.
KASLR_MIN_OFFSET == 16777216 \div KaslrUnit     \* 0x1000000
KASLR_MAX_OFFSET == 1073741824 \div KaslrUnit   \* 0x40000000
KASLR_ALIGN      == 2097152 \div KaslrUnit      \* 0x200000

Features == {"smep", "smap", "umip", "cet", "rdrand", "rdseed", "amd", "sme"}
CpuType == [Features -> BOOLEAN]
\* SME is an AMD feature (check_sme_support reads it only on AuthenticAMD).
Cpus == {c \in CpuType : (c.sme => c.amd) /\ \A f \in Required : c[f]}

Steps == {"entry", "hwsec", "sme", "kaslr", "canary", "cfi", "mm", "subsys",
          "loop", "panic", "reset"}

\* The firmware hands over with CR0.WP in whatever state it left it; the
\* SYSCFG MSR exists only on AMD parts with SME.  The other variables are
\* the zeroed static state of sme.c, kaslr.c and main.c.
Init ==
  /\ cpu \in Cpus
  /\ pc = "entry"
  /\ exc = "none"
  /\ cr0 \in SUBSET {"WP"}
  /\ cr4 = {}
  /\ syscfg \in IF cpu.amd /\ cpu.sme THEN SUBSET {"EN", "LOCK"} ELSE {{}}
  /\ sme = [supported |-> FALSE, enabled |-> FALSE, locked |-> FALSE,
            initialized |-> FALSE]
  /\ kaslr = [offset |-> 0, enabled |-> FALSE, initialized |-> FALSE]
  /\ initialized = FALSE

\* A triple fault: the step that raised exception e resets the machine.
Reset(e) == pc' = "reset" /\ exc' = e

-----------------------------------------------------------------------------
(* kernel_main up to security_init: early console, banner, the multiboot  *)
(* magic check (PANIC halts), cpu_init (CPUID and logging only).          *)
KernelEntry ==
  /\ pc = "entry"
  /\ \E magic \in Magics :
       pc' = IF magic = MULTIBOOT2 THEN "hwsec" ELSE "panic"
  /\ UNCHANGED <<cpu, exc, cr0, cr4, syscfg, sme, kaslr, initialized>>

\* The CR4 bits the CPU implements; CET can be set only while CR0.WP = 1.
Implements == [SMEP |-> cpu.smep, SMAP |-> cpu.smap, UMIP |-> cpu.umip,
               CET |-> cpu.cet /\ "WP" \in cr0]
Cr4Supported == {b \in DOMAIN Implements : Implements[b]}

\* mov to CR4 setting bits, then on to step next: #GP, and a reset, when
\* a bit set is not implemented.
Cr4Write(bits, next) ==
  IF bits \subseteq Cr4Supported
    THEN cr4' = cr4 \cup bits /\ pc' = next /\ exc' = exc
    ELSE Reset("GP") /\ UNCHANGED cr4

\* Mutation: CR0.WP is never set.
EnableHardwareSecurityNoWP ==
  /\ pc = "hwsec"
  /\ cr0' = cr0
  /\ Cr4Write({"SMEP", "SMAP"} \cup (IF cpu.umip THEN {"UMIP"} ELSE {}), "sme")
  /\ UNCHANGED <<cpu, syscfg, sme, kaslr, initialized>>

\* enable_hardware_security (after verify_secure_boot and init_entropy_pool,
\* which only log): mm_enable_smep and mm_enable_smap set their CR4 bit
\* with no CPUID check, then CR0.WP, then UMIP if CPUID 7 ECX bit 2 says so.
EnableHardwareSecurity ==
  /\ pc = "hwsec"
  /\ cr0' = IF {"SMEP", "SMAP"} \subseteq Cr4Supported THEN cr0 \cup {"WP"} ELSE cr0
  /\ Cr4Write({"SMEP", "SMAP"} \cup (IF cpu.umip THEN {"UMIP"} ELSE {}), "sme")
  /\ UNCHANGED <<cpu, syscfg, sme, kaslr, initialized>>

\* check_sme_support: an AMD vendor string and CPUID 0x8000001F EAX bit 0.
CheckSmeSupport == cpu.amd /\ cpu.sme

\* Mutation: EN is written and trusted without reading SYSCFG back.
EnableSmeNoReadBack(stick1, stick2) ==
  LET en == syscfg \cup (IF stick1 THEN {"EN"} ELSE {})
  IN IF "LOCK" \in syscfg
       THEN [ok |-> "EN" \in syscfg, locked |-> TRUE, msr |-> syscfg]
       ELSE [ok |-> TRUE, locked |-> TRUE,
             msr |-> en \cup (IF stick2 THEN {"LOCK"} ELSE {})]

\* enable_sme: if firmware locked SYSCFG, report whether it also enabled
\* encryption.  Otherwise set EN, read it back, and if it stuck set LOCK.
\* Each wrmsr may or may not stick (stick1, stick2); only the first is read
\* back.
EnableSme(stick1, stick2) ==
  LET en    == syscfg \cup (IF stick1 THEN {"EN"} ELSE {})
      final == en \cup (IF stick2 THEN {"LOCK"} ELSE {})
  IN IF "LOCK" \in syscfg
       THEN [ok |-> "EN" \in syscfg, locked |-> TRUE, msr |-> syscfg]
     ELSE IF "EN" \notin en
       THEN [ok |-> FALSE, locked |-> FALSE, msr |-> en]
     ELSE [ok |-> TRUE, locked |-> TRUE, msr |-> final]

\* sme_init.
SmeInit ==
  /\ pc = "sme"
  /\ IF ~CheckSmeSupport
       THEN /\ sme' = [sme EXCEPT !.supported = FALSE, !.initialized = TRUE]
            /\ UNCHANGED syscfg
       ELSE \E stick1, stick2 \in BOOLEAN :
              LET r == EnableSme(stick1, stick2)
              IN /\ syscfg' = r.msr
                 /\ sme' = [supported |-> TRUE, enabled |-> r.ok,
                            locked |-> sme.locked \/ r.locked,
                            initialized |-> TRUE]
  /\ pc' = "kaslr"
  /\ UNCHANGED <<cpu, exc, cr0, cr4, kaslr, initialized>>

\* calculate_random_offset: MIN + random % range, aligned up to 2 MiB
\* ((x + A - 1) & ~(A - 1) for the power of two A).
CalculateRandomOffset(residue) ==
  LET offset == KASLR_MIN_OFFSET + residue
  IN ((offset + KASLR_ALIGN - 1) \div KASLR_ALIGN) * KASLR_ALIGN

\* Mutation: the range is taken as KASLR_MAX_OFFSET instead of MAX - MIN.
ResiduesWholeMax == 0 .. KASLR_MAX_OFFSET - 1

\* The values random_value % range can take.  kaslr_random's LCG runs
\* modulo 2^64 from a seed of TSC reads, so every residue is possible.
Residues == 0 .. (KASLR_MAX_OFFSET - KASLR_MIN_OFFSET) - 1

\* collect_entropy: rdseed, rdrand and rdtsc eight times each, with no
\* CPUID check (init_entropy_pool only logs what CPUID says).  The pool's
\* value matters only through kaslr_random (see Residues); what can change
\* the boot is the #UD of an instruction the CPU lacks.
CollectEntropyFaults == ~cpu.rdseed \/ ~cpu.rdrand

\* kaslr_init: collect_entropy, then the offset, and KASLR marked on.
KaslrInit ==
  /\ pc = "kaslr"
  /\ IF CollectEntropyFaults
       THEN Reset("UD") /\ UNCHANGED kaslr
       ELSE /\ \E off \in {CalculateRandomOffset(x) : x \in Residues} :
                 kaslr' = [offset |-> off, enabled |-> TRUE, initialized |-> TRUE]
            /\ pc' = "canary" /\ exc' = exc
  /\ UNCHANGED <<cpu, cr0, cr4, syscfg, sme, initialized>>

\* init_stack_canary: rdrand with no CPUID check; the guard it sets (or
\* xors with the TSC when rdrand reports no value) is read only by
\* create_process, so only the #UD is modelled.
InitStackCanaryFaults == ~cpu.rdrand

\* setup_stack_protection -> init_stack_canary.
SetupStackProtection ==
  /\ pc = "canary"
  /\ IF InitStackCanaryFaults
       THEN Reset("UD")
       ELSE pc' = "cfi" /\ exc' = exc
  /\ UNCHANGED <<cpu, cr0, cr4, syscfg, sme, kaslr, initialized>>

\* enable_cfi: CR4.CET if CPUID 7 ECX bit 7 says CET; then
\* enforce_security_policies and init_security_audit, which only log.
EnableCfi ==
  /\ pc = "cfi"
  /\ Cr4Write(IF cpu.cet THEN {"CET"} ELSE {}, "mm")
  /\ UNCHANGED <<cpu, cr0, syscfg, sme, kaslr, initialized>>

\* mm_init: early_kmalloc PANICs when the page array does not fit the early
\* heap (the Memory module models why).
MmInit ==
  /\ pc = "mm"
  /\ \E fits \in PageArrayFits : pc' = IF fits THEN "subsys" ELSE "panic"
  /\ UNCHANGED <<cpu, exc, cr0, cr4, syscfg, sme, kaslr, initialized>>

\* scheduler_init and drivers_init (modelled in Scheduler and Keyboard),
\* then kernel_state.initialized, security_status_report and the hlt loop.
FinishBoot ==
  /\ pc = "subsys"
  /\ pc' = "loop"
  /\ initialized' = TRUE
  /\ UNCHANGED <<cpu, exc, cr0, cr4, syscfg, sme, kaslr>>

Next ==
  \/ KernelEntry
  \/ EnableHardwareSecurity
  \/ SmeInit
  \/ KaslrInit
  \/ SetupStackProtection
  \/ EnableCfi
  \/ MmInit
  \/ FinishBoot

\* The main loop, PANIC and a reset all halt: boot really stops there.
Spec == Init /\ [][Next]_vars

-----------------------------------------------------------------------------
(* Properties.                                                             *)

\* Spec section 2 enables the CPU protections "where supported": on a CPU
\* the kernel supports, no instruction of the boot path (the CR4 writes of
\* mm_enable_smep, mm_enable_smap, UMIP and CET, rdrand and rdseed in
\* collect_entropy and init_stack_canary) raises an exception, whatever
\* CR0.WP the firmware left and whatever order the steps set bits in.
NoCpuException == exc = "none"

\* sme_init reports SME enabled exactly when the SYSCFG encryption bit is
\* set: when a write of it did not stick, or firmware locked it off,
\* sme_state.enabled stays false.
SmeEnabledMatchesMsr ==
  sme.initialized /\ sme.supported => (sme.enabled <=> "EN" \in syscfg)

\* sme_init reports SYSCFG locked (sme_get_status, security_status_report)
\* only when the lock bit is set: enable_sme writes SYSCFG_MEM_ENCRYPT_LOCK
\* and never reads it back, unlike the encryption bit.
SmeLockedMatchesMsr == sme.locked => "LOCK" \in syscfg

\* The offset kaslr_init computes lies in [16 MiB, 1 GiB] (KASLR_MIN_OFFSET
\* and KASLR_MAX_OFFSET) and is 2 MiB aligned, for every random value.
KaslrOffsetInWindow ==
  kaslr.initialized =>
    /\ kaslr.offset \in KASLR_MIN_OFFSET .. KASLR_MAX_OFFSET
    /\ kaslr.offset % KASLR_ALIGN = 0
=============================================================================
