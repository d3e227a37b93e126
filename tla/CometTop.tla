------------------------------ MODULE CometTop ------------------------------
(***************************************************************************)
(* comet2/top.v: the state machine that loads the firmware and starts and  *)
(* resets the CPU, and the write half of the bus between the CPU, the      *)
(* memory and spi_mm.  The SPRAM banks are one memory indexed by address.  *)
(***************************************************************************)
EXTENDS SpiMm

CONSTANTS
  AddrSpace,    \* 2^16 in the source: the range of counter_firmware_address
  NoWrite       \* memory_wr_req is low

ASSUME AddrSpaceAssumption == AddrSpace \in Nat \ {0}

Address == 0..AddrSpace - 1

(* A memory word is the number of the firmware packet it came from; 0 is a *)
(* word that is not written yet or that the program computed.              *)
MemWord  == 0..MaxPackets
MemWrite == [addr : Address, data : MemWord]

ASSUME NoWriteAssumption == NoWrite \notin MemWrite

LoaderStates == {"REQ_READ_SPI_STATUS", "WRITE_MEMORY", "START_CPU", "INIT_CPU"}

VARIABLES
  state,
  counter_firmware_address,
  spi_firm_ack,
  spi_cpu_start_ack,
  spi_cpu_init_ack,
  cpu_reset,
  spi_wr_req,       \* "none", "ack" (address 0x8) or "out" (address 0xC)
  spi_wr_data,
  memory_wr,        \* memory_wr_req with its address and data
  memory

loaderVars == <<state, counter_firmware_address, spi_firm_ack,
                spi_cpu_start_ack, spi_cpu_init_ack, cpu_reset>>
busVars    == <<spi_wr_req, spi_wr_data, memory_wr, memory>>
topVars    == <<loaderVars, busVars>>

TopTypeOK ==
  /\ state \in LoaderStates
  /\ counter_firmware_address \in Address
  /\ spi_firm_ack \in BOOLEAN
  /\ spi_cpu_start_ack \in BOOLEAN
  /\ spi_cpu_init_ack \in BOOLEAN
  /\ cpu_reset \in BOOLEAN
  /\ spi_wr_req \in {"none", "ack", "out"}
  /\ spi_wr_data \in Word
  /\ memory_wr \in MemWrite \cup {NoWrite}
  /\ memory \in [Address -> MemWord]

TopInit ==
  /\ state = "REQ_READ_SPI_STATUS"
  /\ counter_firmware_address = 0
  /\ spi_firm_ack = FALSE
  /\ spi_cpu_start_ack = FALSE
  /\ spi_cpu_init_ack = FALSE
  /\ cpu_reset = TRUE
  /\ spi_wr_req = "none"
  /\ spi_wr_data = 0
  /\ memory_wr = NoWrite
  /\ memory = [a \in Address |-> 0]

-----------------------------------------------------------------------------
(* The acknowledgements default to 0 at every edge.                        *)
Acks(firm, start, init) ==
  /\ spi_firm_ack' = firm
  /\ spi_cpu_start_ack' = start
  /\ spi_cpu_init_ack' = init

SeeInit ==
  /\ state = "REQ_READ_SPI_STATUS"
  /\ cpu_init
  /\ state' = "INIT_CPU"
  /\ Acks(FALSE, FALSE, TRUE)
  /\ UNCHANGED <<counter_firmware_address, cpu_reset>>

SeeFirm ==
  /\ state = "REQ_READ_SPI_STATUS"
  /\ ~cpu_init
  /\ firm_wr
  /\ state' = "WRITE_MEMORY"
  /\ Acks(TRUE, FALSE, FALSE)
  /\ UNCHANGED <<counter_firmware_address, cpu_reset>>

SeeStart ==
  /\ state = "REQ_READ_SPI_STATUS"
  /\ ~cpu_init
  /\ ~firm_wr
  /\ cpu_start
  /\ state' = "START_CPU"
  /\ Acks(FALSE, TRUE, FALSE)
  /\ UNCHANGED <<counter_firmware_address, cpu_reset>>

SeeNothing ==
  /\ state = "REQ_READ_SPI_STATUS"
  /\ ~cpu_init
  /\ ~firm_wr
  /\ ~cpu_start
  /\ Acks(FALSE, FALSE, FALSE)
  /\ UNCHANGED <<state, counter_firmware_address, cpu_reset>>

WriteMemory ==
  /\ state = "WRITE_MEMORY"
  /\ counter_firmware_address' = (counter_firmware_address + 1) % AddrSpace
  /\ state' = "REQ_READ_SPI_STATUS"
  /\ Acks(TRUE, FALSE, FALSE)
  /\ UNCHANGED cpu_reset

StartCpu ==
  /\ state = "START_CPU"
  /\ cpu_reset' = FALSE
  /\ state' = "REQ_READ_SPI_STATUS"
  /\ Acks(FALSE, FALSE, FALSE)
  /\ UNCHANGED counter_firmware_address

(* Mutants of InitCpu: the load address, or the CPU, is left as it is.     *)
InitCpuKeepsAddress ==
  /\ state = "INIT_CPU"
  /\ cpu_reset' = TRUE
  /\ state' = "REQ_READ_SPI_STATUS"
  /\ Acks(TRUE, FALSE, FALSE)
  /\ UNCHANGED counter_firmware_address

InitCpuKeepsRunning ==
  /\ state = "INIT_CPU"
  /\ counter_firmware_address' = 0
  /\ state' = "REQ_READ_SPI_STATUS"
  /\ Acks(TRUE, FALSE, FALSE)
  /\ UNCHANGED cpu_reset

InitCpu ==
  /\ state = "INIT_CPU"
  /\ cpu_reset' = TRUE
  /\ counter_firmware_address' = 0
  /\ state' = "REQ_READ_SPI_STATUS"
  /\ Acks(TRUE, FALSE, FALSE)

LoaderTick ==
  SeeInit \/ SeeFirm \/ SeeStart \/ SeeNothing \/ WriteMemory \/ StartCpu \/ InitCpu

(* The CPU's request, a register of comet2_cpu, is decoded after the state *)
(* machine: a CPU write to the memory replaces the loader's.               *)
BusTick(cpuReq, cpuAddr, cpuData) ==
  /\ spi_wr_req' = IF cpuReq \in {"ack", "out"} THEN cpuReq ELSE "none"
  /\ spi_wr_data' = IF cpuReq = "out" THEN cpuData ELSE 0
  /\ memory_wr' = IF cpuReq = "mem" THEN [addr |-> cpuAddr, data |-> 0]
                  ELSE IF state = "WRITE_MEMORY"
                    THEN [addr |-> counter_firmware_address, data |-> firm_data]
                  ELSE NoWrite
  /\ memory' = IF memory_wr = NoWrite THEN memory
               ELSE [memory EXCEPT ![memory_wr.addr] = memory_wr.data]

TopTick(cpuReq, cpuAddr, cpuData) ==
  /\ LoaderTick
  /\ BusTick(cpuReq, cpuAddr, cpuData)

=============================================================================
