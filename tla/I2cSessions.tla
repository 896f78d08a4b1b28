---------------------------- MODULE I2cSessions ----------------------------
(***************************************************************************)
(* LinuxI2cSession and LinuxI2cControllerSession: calls as transfers on the *)
(* wire.  An adapter that only speaks SMBus refuses plain transfers, and    *)
(* the transport falls back to SMBus ones, byte by byte where it must.      *)
(*                                                                         *)
(* The devices are memories behind a pointer that both reads and writes     *)
(* advance; register numbers have a width and wrap.                         *)
(***************************************************************************)
EXTENDS DeviceSessions, SequencesExt

CONSTANTS
    RegisterCount,  \* 2^8
    BlockMax        \* 32, what an SMBus block holds

\* "i2c" does every transfer, "smbus" no plain ones, "bytes" no blocks either.
Adapters == {"i2c", "smbus", "bytes"}

Registers == 0 .. RegisterCount - 1

I2cDevices ==
    [adapter : Adapters, memory : [Addresses -> [Registers -> Registers]],
     pointer : [Addresses -> Registers], selected : [Sessions -> Addresses \cup {NoBook}]]

\* I2cRequest: a transaction is a list of reads and writes, of bytes.
IsI2cRequest(r) ==
    /\ r \in [op : I2cOperations, address : Addresses,
              messages : Seq([write : Seq(Registers), read : Nat])]
    /\ IF r.op = "transaction"
       THEN \A k \in DOMAIN r.messages : r.messages[k].read > 0 => r.messages[k].write = <<>>
       ELSE /\ Len(r.messages) = 1
            /\ r.op = "read" => r.messages[1].write = <<>>
            /\ r.op = "write" => r.messages[1].read = 0

ASSUME I2cAssumption ==
    /\ RegisterCount \in Nat \ {0} /\ BlockMax \in Nat
    /\ NoBook \notin I2cDevices
    /\ \A s \in Sessions : \A r \in Requests[s].i2c : IsI2cRequest(r)

StoreByte(memory, register, byte) == [memory EXCEPT ![register % RegisterCount] = byte]

\* Bytes are stored one after the other, each in the register behind the last.
Stored(memory, start, bytes) ==
    LET Written[k \in 0 .. Len(bytes)] ==
            IF k = 0 THEN memory
            ELSE StoreByte(Written[k - 1], start + k - 1, bytes[k])
    IN  Written[Len(bytes)]

\* What a device does with a message: the first byte written sets the pointer.
MessageDone(memory, pointer, m) ==
    LET start == IF m.write = <<>> THEN pointer ELSE m.write[1]
        bytes == IF m.write = <<>> THEN <<>> ELSE Tail(m.write)
        after == (start + Len(bytes)) % RegisterCount
        written == Stored(memory, start, bytes)
    IN  [memory |-> written, pointer |-> (after + m.read) % RegisterCount,
         read |-> [k \in 1 .. m.read |-> written[(after + k - 1) % RegisterCount]]]

-----------------------------------------------------------------------------
(* Transfers                                                                *)

\* carries: the bytes of the request that the transfer writes
Transfer(write, read, carries) ==
    [kind |-> "transfer", write |-> write, read |-> read, carries |-> carries]

Block(register, read) ==
    [kind |-> "block", write |-> <<register>>, read |-> read, carries |-> 1]

\* A transfer the adapter refuses, or a message the transport refuses.
Refusal == [kind |-> "refusal"]

\* Faulty variant: every value goes to the first register.
WriteSameRegister(bytes) ==
    [k \in 1 .. Len(bytes) - 1 |->
        Transfer(<<bytes[1], bytes[k + 1]>>, 0, IF k = 1 THEN 2 ELSE 1)]

\* smbus_write_byte_data_sequence
WriteSequence(bytes) ==
    [k \in 1 .. Len(bytes) - 1 |->
        Transfer(<<(bytes[1] + k - 1) % RegisterCount, bytes[k + 1]>>, 0, IF k = 1 THEN 2 ELSE 1)]

\* smbus_write_fallback
WriteFallback(adapter, bytes) ==
    IF Len(bytes) <= 2 \/ (adapter = "smbus" /\ Len(bytes) - 1 <= BlockMax)
    THEN <<Transfer(bytes, 0, Len(bytes))>>
    ELSE WriteSequence(bytes)

\* smbus_read_register_data_sequence without its first attempt
ReadSequence(register, read) ==
    [k \in 1 .. read |->
        Transfer(<<(register + k - 1) % RegisterCount>>, 1, IF k = 1 THEN 1 ELSE 0)]

\* smbus_write_read_fallback
ReadFallback(adapter, bytes, read) ==
    IF Len(bytes) # 1 THEN <<Refusal>>
    ELSE IF adapter = "smbus" /\ read <= BlockMax THEN <<Block(bytes[1], read)>>
    ELSE ReadSequence(bytes[1], read)

\* linux_i2c_read
KernelRead(adapter, read) ==
    IF adapter = "i2c" THEN <<Transfer(<<>>, read, 0)>> ELSE <<Refusal>>

\* linux_i2c_write
KernelWrite(adapter, bytes) ==
    IF bytes = <<>> THEN <<Refusal>>
    ELSE IF adapter = "i2c" THEN <<Transfer(bytes, 0, Len(bytes))>>
    ELSE WriteFallback(adapter, bytes)

\* linux_i2c_write_read
KernelWriteRead(adapter, bytes, read) ==
    IF bytes = <<>> THEN <<Refusal>>
    ELSE IF adapter = "i2c" THEN <<Transfer(bytes, read, Len(bytes))>>
    ELSE ReadFallback(adapter, bytes, read)

\* linux_i2c_transaction: the messages one by one, each a read or a write
KernelTransaction(adapter, messages) ==
    FlattenSeq([k \in DOMAIN messages |->
                    IF messages[k].read > 0 THEN KernelRead(adapter, messages[k].read)
                                            ELSE KernelWrite(adapter, messages[k].write)])

\* Faulty variant: a controller that selected an address stays with it.
SelectOnce(s, address) ==
    IF s \in Controllers /\ book[s] = NoBook
    THEN <<[kind |-> "select", address |-> address]>> ELSE <<>>

\* ensure_address
Select(s, address) ==
    IF s \in Controllers /\ book[s] # address
    THEN <<[kind |-> "select", address |-> address]>> ELSE <<>>

I2cSteps(r) ==
    CASE r.op = "read" -> KernelRead(device.adapter, r.messages[1].read)
      [] r.op = "write" -> KernelWrite(device.adapter, r.messages[1].write)
      [] r.op = "write_read" ->
            KernelWriteRead(device.adapter, r.messages[1].write, r.messages[1].read)
      [] r.op = "transaction" -> KernelTransaction(device.adapter, r.messages)

-----------------------------------------------------------------------------
OnI2c == interface = "i2c" /\ backend = "linux"

\* LinuxI2cSession::open: the kernel is given the address of the device.
BindDevice(s) ==
    /\ OnI2c /\ s \notin Controllers
    /\ Bind(s, [device EXCEPT !.selected[s] = OwnAddress], OwnAddress)
    /\ UNCHANGED unsure

\* LinuxI2cControllerSession::open: nothing is opened or selected yet.
BindController(s) ==
    /\ OnI2c /\ s \in Controllers
    /\ Bind(s, device, NoBook)
    /\ UNCHANGED unsure

\* A session that may not write may read, by itself and in transactions.
MayTransfer(s, r) ==
    \/ CanWrite(s)
    \/ r.op = "read"
    \/ r.op = "transaction" /\ \A k \in DOMAIN r.messages : r.messages[k].read > 0

BeginDeviceCall(s, r) ==
    /\ OnI2c /\ s \notin Controllers
    /\ r.address = OwnAddress
    /\ MayTransfer(s, r)
    /\ BeginCall(s, r, I2cSteps(r))

BeginControllerCall(s, r) ==
    /\ OnI2c /\ s \in Controllers
    /\ MayTransfer(s, r)
    /\ BeginCall(s, r, Select(s, r.address) \o I2cSteps(r))

\* The address is remembered once the kernel took it.
SelectAddress(s) ==
    /\ OnI2c /\ AtStep(s, "select")
    /\ device' = [device EXCEPT !.selected[s] = NextStep(s).address]
    /\ book' = [book EXCEPT ![s] = NextStep(s).address]
    /\ call' = [call EXCEPT ![s] = Rest(s)]
    /\ UNCHANGED <<fixedVars, state, driverVars, faults>>

MakeTransfer(s) ==
    /\ OnI2c /\ (AtStep(s, "transfer") \/ AtStep(s, "block"))
    /\ LET address == device.selected[s]
           done == MessageDone(device.memory[address], device.pointer[address], NextStep(s))
       IN  Touch(s, [device EXCEPT !.memory[address] = done.memory,
                                   !.pointer[address] = done.pointer],
                 NextStep(s).carries, [Rest(s) EXCEPT !.read = @ \o done.read])
    /\ UNCHANGED <<book, unsure>>

\* A block read that fails, for whatever reason, is made byte by byte.
BlockGivesWay(s) ==
    /\ OnI2c /\ AtStep(s, "block")
    /\ call' = [call EXCEPT ![s].steps =
                    ReadSequence(NextStep(s).write[1], NextStep(s).read) \o Tail(@)]
    /\ UNCHANGED <<fixedVars, device, state, book, driverVars, faults>>

I2cStep(s) ==
    \/ BindDevice(s) \/ BindController(s)
    \/ \E r \in Requests[s].i2c : BeginDeviceCall(s, r) \/ BeginControllerCall(s, r)
    \/ SelectAddress(s) \/ MakeTransfer(s) \/ BlockGivesWay(s)
    \/ OnI2c /\ Succeed(s, book[s]) /\ UNCHANGED unsure
    \/ OnI2c /\ MarkClosed(s)
    \/ OnI2c /\ Drop(s, [device EXCEPT !.selected[s] = NoBook])

I2cInit ==
    /\ interface = "i2c" /\ backend = "linux"
    /\ \E adapter \in Adapters :
        device = [adapter |-> adapter,
                  memory |-> [a \in Addresses |-> [i \in Registers |-> 0]],
                  pointer |-> [a \in Addresses |-> 0],
                  selected |-> [s \in Sessions |-> NoBook]]

-----------------------------------------------------------------------------
\* What a plain transfer of each message would do, one after the other.
PlainResult(memory, pointer, messages) ==
    LET Result[k \in 0 .. Len(messages)] ==
            IF k = 0 THEN [memory |-> memory, pointer |-> pointer, read |-> <<>>]
            ELSE LET before == Result[k - 1]
                     done == MessageDone(before.memory, before.pointer, messages[k])
                 IN  [done EXCEPT !.read = before.read \o @]
    IN  Result[Len(messages)]

(* A call that nobody disturbed leaves the device it addressed, and returns, *)
(* what plain transfers of its messages would have: whatever the adapter     *)
(* refuses, however many transfers it took, with registers that wrap         *)
(* (smbus.rs), and by whichever session (ensure_address).                    *)
TransfersAreExact ==
    \A s \in Sessions :
        OnI2c /\ Done(s) /\ call[s].sole =>
            LET r == call[s].request
                plain == PlainResult(call[s].before.memory[r.address],
                                     call[s].before.pointer[r.address], r.messages)
            IN  /\ device.memory = [call[s].before.memory EXCEPT ![r.address] = plain.memory]
                /\ call[s].read = plain.read
=============================================================================
