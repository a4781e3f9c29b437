------------------------------ MODULE MCLoader ------------------------------
(* Loader for TLC, with files that take every path through the loader. *)
EXTENDS Loader

Load(paddr, filesz, memsz) ==
    [type |-> "LOAD", paddr |-> paddr, filesz |-> filesz, memsz |-> memsz]
Other(type) == [type |-> type, paddr |-> 0, filesz |-> 0, memsz |-> 0]

Text == Load(0, 1, 1)
Data == Load(1, 3, 4)

Elf(headers, got, rela) == [elf |-> TRUE, phdr |-> headers, got |-> got, rela |-> rela]

MCProgram ==
    [good    |-> Elf(<<Text, Other("NOTE"), Data>>, {1, 2}, {3}),
     no_got  |-> Elf(<<Text, Data>>, {}, {3}),
     one     |-> Elf(<<Text>>, {}, {}),
     three   |-> Elf(<<Text, Load(1, 1, 1), Load(2, 1, 1)>>, {1}, {}),
     dynamic |-> Elf(<<Text, Other("DYNAMIC")>>, {}, {}),
     foreign |-> [elf |-> FALSE, phdr |-> << >>, got |-> {}, rela |-> {}]]
=============================================================================
