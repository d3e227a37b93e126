-------------------------------- MODULE SpiMm --------------------------------
(***************************************************************************)
(* comet2/spi_mm.v: the memory-mapped registers between spi_slave and the  *)
(* rest of the chip.  Each edge looks at the packet spi_slave presents and *)
(* turns it into a request to the loader in top.v (cpu_init, firm_wr,      *)
(* cpu_start) or into the mailbox the CPU reads (read_data_register, with  *)
(* bit 0 of the status register).                                          *)
(***************************************************************************)
EXTENDS SpiSlave

VARIABLES
  status0,              \* status_register[0]: a command waits for the CPU
  status1,              \* status_register[1]: the transmit side is busy
  read_data_register,
  rd_ack,
  wr_en,
  spi_module_wr_data,
  firm_wr,
  firm_data,            \* the packet's number stands for its 16-bit word
  cpu_start,
  cpu_init

mmVars == <<status0, status1, read_data_register, rd_ack, wr_en,
            spi_module_wr_data, firm_wr, firm_data, cpu_start, cpu_init>>

MmTypeOK ==
  /\ status0 \in BOOLEAN
  /\ status1 \in BOOLEAN
  /\ read_data_register \in Packet
  /\ rd_ack \in BOOLEAN
  /\ wr_en \in BOOLEAN
  /\ spi_module_wr_data \in Word
  /\ firm_wr \in BOOLEAN
  /\ firm_data \in 0..MaxPackets
  /\ cpu_start \in BOOLEAN
  /\ cpu_init \in BOOLEAN

MmInit ==
  /\ status0 = FALSE
  /\ status1 = FALSE
  /\ read_data_register = ZeroPacket
  /\ rd_ack = FALSE
  /\ wr_en = FALSE
  /\ spi_module_wr_data = 0
  /\ firm_wr = FALSE
  /\ firm_data = 0
  /\ cpu_start = FALSE
  /\ cpu_init = FALSE

-----------------------------------------------------------------------------
Presents(op) == rd_data_available /\ rd_data.op = op

(* Mutants: INIT waits for the mailbox, or a command does not.             *)
TakesInitWhenEmpty == Presents("INIT") /\ ~status0
TakesCmdAlways     == Presents("CMD")

(* INIT is served whatever the mailbox holds; the other packets wait until *)
(* the CPU has emptied it.                                                 *)
TakesInit  == Presents("INIT")
TakesNop   == Presents("NOP") /\ ~status0
TakesFirm  == Presents("FIRM") /\ ~status0 /\ ~firm_wr
TakesStart == Presents("START") /\ ~status0 /\ ~firm_wr
TakesCmd   == Presents("CMD") /\ ~status0

(* One clock edge.  wrReq: "ack" for a write to 0x8, "out" for a write of  *)
(* wrData to 0xC; the other parameters are the acknowledgements of top.v.  *)
MmTick(wrReq, wrData, firmAck, startAck, initAck) ==
  /\ rd_ack' = (TakesInit \/ TakesNop \/ TakesFirm \/ TakesStart \/ TakesCmd)
  /\ status0' = (wrReq # "ack" /\ (TakesCmd \/ (status0 /\ ~TakesInit)))
  /\ status1' = ~wr_buffer_free(wr_en)
  /\ read_data_register' = IF TakesCmd THEN rd_data ELSE read_data_register
  /\ firm_wr' = (TakesFirm \/ (firm_wr /\ ~TakesInit /\ ~firmAck))
  /\ firm_data' = IF TakesFirm THEN rd_data.id ELSE firm_data
  /\ cpu_start' = ((TakesStart \/ cpu_start) /\ ~(startAck /\ cpu_start))
  /\ cpu_init' = ((TakesInit \/ cpu_init) /\ ~(initAck /\ cpu_init))
  /\ wr_en' = (wrReq = "out")
  /\ spi_module_wr_data' = IF wrReq = "out" THEN wrData ELSE spi_module_wr_data

=============================================================================
