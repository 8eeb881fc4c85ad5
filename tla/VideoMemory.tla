---------------------------- MODULE VideoMemory ----------------------------
(***************************************************************************)
(* What the ports 98h and 99h promise to a program: video memory behind    *)
(* one address that goes up with every access, over all pages in the       *)
(* bitmap modes and within a page in the others.  A read returns what was  *)
(* fetched by the access before it.  VdpPorts implements this.             *)
(***************************************************************************)
EXTENDS Integers

CONSTANTS
  Pages,    \* pages of video memory
  PageSize, \* bytes in a page
  Bytes     \* what a byte of video memory holds

VARIABLES
  memory,  \* video memory
  address, \* of the next access
  ahead,   \* the byte that the next read returns
  linear,  \* the address counts over all pages
  port     \* what the last access was to
vars == <<memory, address, ahead, linear, port>>

Addresses == 0 .. Pages * PageSize - 1

TypeOK == /\ memory \in [Addresses -> Bytes]
          /\ address \in Addresses
          /\ ahead \in Bytes
          /\ linear \in BOOLEAN
          /\ port \in {"data", "address", "register", "reset", "load"}

PageOf(a) == a \div PageSize
Following(a) ==
  IF linear THEN (a + 1) % (Pages * PageSize)
  ELSE PageOf(a) * PageSize + ((a + 1) % PageSize)

Init == TypeOK

FetchAt(a) == /\ ahead' = memory[a]
              /\ address' = Following(a)
              /\ UNCHANGED memory

\* Port 98h: the byte goes to the address, or the one fetched before is returned and
\* the next one fetched.
Data == /\ port' = "data"
        /\ UNCHANGED linear
        /\ \/ /\ \E b \in Bytes : memory' = [memory EXCEPT ![address] = b] /\ ahead' = b
              /\ address' = Following(address)
           \/ FetchAt(address)

\* Port 99h, as an address: a new place within the page, to write from or to read from.
Address == /\ port' = "address"
           /\ UNCHANGED linear
           /\ \E a \in Addresses :
                /\ PageOf(a) = PageOf(address)
                /\ \/ address' = a /\ UNCHANGED <<memory, ahead>>
                   \/ FetchAt(a)

\* A register: the same place in another page, or another screen mode.
Register == /\ port' = "register"
            /\ UNCHANGED <<memory, ahead>>
            /\ \/ /\ \E a \in Addresses : a % PageSize = address % PageSize /\ address' = a
                  /\ UNCHANGED linear
               \/ linear' \in BOOLEAN /\ UNCHANGED address

\* A reset keeps the memory, a loaded state brings its own.
Reset == port' = "reset" /\ TypeOK' /\ UNCHANGED memory
Load  == port' = "load" /\ TypeOK'

Next == Data \/ Address \/ Register \/ Reset \/ Load
Spec == Init /\ [][Next]_vars
=============================================================================
