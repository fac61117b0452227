----------------------------- MODULE CharDevice -----------------------------
(***************************************************************************)
(* The life cycle of the kernel modules of "Kernel Modules/hw4/modules"    *)
(* and "hw5/modules": the init function asks the kernel for one thing      *)
(* after the other, a failed call jumps into a ladder that gives back what *)
(* was obtained before, and the exit function gives back everything.       *)
(*                                                                         *)
(* Each driver is a table: what init gets and where a failure leads to,    *)
(* the ladder, what init returns at its end, and what exit gives back.     *)
(***************************************************************************)
EXTENDS Integers, SequencesExt

CONSTANT MaxFiles       \* how many files are open at the same time, at most

Parameters == MaxFiles \in Nat

VARIABLES
    driver,             \* the module that is loaded
    stage,
    at,                 \* next step of init, of the ladder or of exit
    thing,              \* what became of everything init asks for
    failed,             \* the calls that failed
    files               \* how often the device is open

vars == <<driver, stage, at, thing, failed, files>>

-----------------------------------------------------------------------------
(* The drivers *)

\* A call whose failure leads to a label of the ladder, or out of init
\* ("return"), or is not noticed ("ignore"); a use of what was obtained.
Get(what, failure) == [op |-> "get", what |-> what, failure |-> failure]
Use(what) == [op |-> "use", what |-> what, failure |-> "ignore"]

\* Mutant: a failed cdev_add jumps to the wrong label.
RegisterWrongLabel(class, device) ==
    <<Get("numbers", "return"), Get("cdev", "numbers"), Get("added", "numbers"),
      Get("class", class), Get("device", device)>>

\* alloc_chrdev_region, cdev_alloc, cdev_add, class_create, device_create
Register(class, device) ==
    <<Get("numbers", "return"), Get("cdev", "numbers"), Get("added", "cdev"),
      Get("class", class), Get("device", device)>>

Unregister == <<"device", "class", "added", "numbers">>

simple_chardev ==
    [init |-> Register("ignore", "ignore"), ladder |-> <<"cdev", "numbers">>,
     end |-> "loaded", exit |-> Unregister]

\* hw5's copy is the same file.
simple_chardev5 == simple_chardev

hello_kworld == simple_chardev

hello ==
    [init |-> Register("class", "numbers"), ladder |-> <<"cdev", "numbers", "class">>,
     end |-> "refused", exit |-> Unregister]

mynull == hello
myzero == hello
hello_counted == hello

\* 257 numbers are reserved; what exit unregisters is one number, which is not
\* what was reserved, and the kernel ignores it.
openclose == [simple_chardev EXCEPT !.exit = <<"device", "class", "added">>]

\* Mutant: the buffers are made after the device is there.
MyBufferLate ==
    [init |-> Register("ignore", "ignore")
              \o <<Get("struct", "ignore"), Get("storage", "ignore"), Use("struct")>>,
     ladder |-> <<"cdev", "numbers", "storage", "struct">>, end |-> "loaded",
     exit |-> <<"storage", "struct">> \o Unregister]

\* A pointer is never < 0: a failed kmalloc goes unnoticed.
mybuffer ==
    [init |-> <<Get("struct", "ignore"), Get("storage", "ignore"), Use("struct")>>
              \o Register("ignore", "ignore"),
     ladder |-> <<"cdev", "numbers", "storage", "struct">>, end |-> "loaded",
     exit |-> <<"storage", "struct">> \o Unregister]

\* exit does not free kernelmem.
mybuffer_sync ==
    [init |-> <<Get("storage", "ignore")>> \o Register("cdev", "ignore"),
     ladder |-> <<"cdev", "numbers", "storage">>, end |-> "refused",
     exit |-> Unregister]

\* A thread that could not be made is an error pointer, not 0.
mykthread ==
    [init |-> Register("ignore", "ignore") \o <<Get("thread", "ignore"), Use("thread")>>,
     ladder |-> <<"cdev", "numbers">>, end |-> "loaded",
     exit |-> <<"thread">> \o Unregister]

mysemaphore ==
    [init |-> Register("ignore", "ignore")
              \o <<Get("thread", "ignore"), Get("thread2", "ignore"),
                   Use("thread"), Use("thread2")>>,
     ladder |-> <<"cdev", "numbers">>, end |-> "loaded",
     exit |-> <<"thread", "thread2">> \o Unregister]

Driver ==
    [hello |-> hello, hello_kworld |-> hello_kworld, mybuffer |-> mybuffer,
     mynull |-> mynull, myzero |-> myzero, openclose |-> openclose,
     simple_chardev |-> simple_chardev, hello_counted |-> hello_counted,
     simple_chardev5 |-> simple_chardev5, mykthread |-> mykthread,
     mysemaphore |-> mysemaphore, mybuffer_sync |-> mybuffer_sync]

-----------------------------------------------------------------------------
(* The kernel: insmod, rmmod, and processes that open the device *)

Things == {"struct", "storage", "numbers", "cdev", "added", "class", "device",
           "thread", "thread2"}

\* insmod
Init ==
    /\ driver \in DOMAIN Driver
    /\ stage = "init" /\ at = 1
    /\ thing = [w \in Things |-> "never"]
    /\ failed = {} /\ files = 0

Steps == Driver[driver].init
Ladder == Driver[driver].ladder
Exit == Driver[driver].exit

\* Nothing can be made for a class that is an error pointer.
Obtain ==
    /\ stage = "init" /\ at <= Len(Steps) /\ Steps[at].op = "get"
    /\ Steps[at].what = "device" => thing["class"] = "held"
    /\ thing' = [thing EXCEPT ![Steps[at].what] = "held"]
    /\ at' = at + 1
    /\ UNCHANGED <<driver, stage, failed, files>>

\* What comes back from these is an error pointer, from the others NULL or
\* a number.
ErrorPointers == {"class", "device", "thread", "thread2"}

Fail ==
    /\ stage = "init" /\ at <= Len(Steps) /\ Steps[at].op = "get"
    /\ LET w == Steps[at].what
           f == Steps[at].failure
       IN  /\ failed' = failed \cup {w}
           /\ thing' = IF w \in ErrorPointers THEN [thing EXCEPT ![w] = "error"] ELSE thing
           /\ \/ f = "ignore" /\ at' = at + 1 /\ UNCHANGED stage
              \/ f = "return" /\ stage' = "refused" /\ UNCHANGED at
              \/ /\ f \notin {"ignore", "return"}
                 /\ stage' = "ladder" /\ at' = SelectInSeq(Ladder, LAMBDA l : l = f)
    /\ UNCHANGED <<driver, files>>

UseThing ==
    /\ stage = "init" /\ at <= Len(Steps) /\ Steps[at].op = "use"
    /\ IF thing[Steps[at].what] = "held" THEN UNCHANGED stage ELSE stage' = "undefined"
    /\ at' = at + 1
    /\ UNCHANGED <<driver, thing, failed, files>>

\* kfree and class_destroy ignore what was never made, and device_destroy
\* finds no device, unless it has to look for it in an error pointer.
Tolerated(w) ==
    \/ w \in {"struct", "storage"} /\ thing[w] = "never"
    \/ w = "class" /\ thing[w] \in {"never", "error"}
    \/ w = "device" /\ thing[w] # "held" /\ thing["class"] # "error"

\* cdev_del gives back the cdev as well.  Whatever else is given back without
\* being held is an invalid pointer, or somebody else's by now.
GiveBack(w) ==
    \/ /\ thing[w] = "held"
       /\ thing' = IF w = "added" THEN [thing EXCEPT !["added"] = "back", !["cdev"] = "back"]
                   ELSE [thing EXCEPT ![w] = "back"]
       /\ UNCHANGED stage
    \/ /\ Tolerated(w)
       /\ UNCHANGED <<thing, stage>>
    \/ /\ thing[w] # "held" /\ ~Tolerated(w)
       /\ stage' = "undefined" /\ UNCHANGED thing

Undo ==
    /\ stage = "ladder" /\ at <= Len(Ladder)
    /\ GiveBack(Ladder[at])
    /\ at' = at + 1
    /\ UNCHANGED <<driver, failed, files>>

\* 0 keeps the module, -EIO does not.
InitReturns ==
    /\ \/ stage = "init" /\ at > Len(Steps) /\ stage' = "loaded"
       \/ stage = "ladder" /\ at > Len(Ladder) /\ stage' = Driver[driver].end
    /\ UNCHANGED <<driver, at, thing, failed, files>>

\* From cdev_add on the device can be opened, before init has returned.
Open ==
    /\ stage \in {"init", "ladder", "loaded"} /\ thing["added"] = "held"
    /\ files < MaxFiles
    /\ files' = files + 1
    /\ UNCHANGED <<driver, stage, at, thing, failed>>

Close ==
    /\ files > 0
    /\ files' = files - 1
    /\ UNCHANGED <<driver, stage, at, thing, failed>>

\* The owner field: an open file keeps the module.
Rmmod ==
    /\ stage = "loaded" /\ files = 0
    /\ stage' = "exit" /\ at' = 1
    /\ UNCHANGED <<driver, thing, failed, files>>

ExitStep ==
    /\ stage = "exit" /\ at <= Len(Exit)
    /\ GiveBack(Exit[at])
    /\ at' = at + 1
    /\ UNCHANGED <<driver, failed, files>>

ExitReturns ==
    /\ stage = "exit" /\ at > Len(Exit)
    /\ stage' = "gone"
    /\ UNCHANGED <<driver, at, thing, failed, files>>

Done == stage \in {"refused", "gone", "undefined"} /\ UNCHANGED vars

Next ==
    \/ Obtain \/ Fail \/ UseThing \/ Undo \/ InitReturns
    \/ Open \/ Close \/ Rmmod \/ ExitStep \/ ExitReturns \/ Done

Spec == Init /\ [][Next]_vars

-----------------------------------------------------------------------------
Held == {w \in Things : thing[w] = "held"}
Buffers == {"struct", "storage"}

\* What a module that insmod refuses leaves behind.  Up to cdev_add the ladders
\* are right, except that a failed alloc_chrdev_region skips the buffers; a
\* failure after cdev_add always leaves the device registered, with operations
\* in a module that is gone.
CleanRefusal ==
    stage = "refused" =>
        LET late == failed \cap {"class", "device"} # {}
        IN  /\ ("added" \in Held) = late
            /\ ~late => Held \subseteq Buffers
            /\ Held \cap Buffers # {} => "numbers" \in failed

\* rmmod gives back everything once, for every driver and whatever failed
\* unnoticed, but for 257 numbers and for kernelmem; it works on what is not
\* there only if init answered 0 although a call failed.
CleanUnload ==
    /\ stage = "gone" =>
          Held = CASE driver = "openclose" -> {"numbers"}
                   [] driver = "mybuffer_sync" -> {"storage"} \ failed
                   [] OTHER -> {}
    /\ stage = "undefined" => Driver[driver].end = "loaded" /\ failed # {}

\* The operations of an open file find the buffers they work on, in every stage
\* of the module and while it is on its ladder.  There are two exceptions, and
\* they are the code's: an allocation that failed unnoticed left a null pointer,
\* and a failed class_create lets mybuffer_sync free kernelmem behind a device
\* that stays registered.
BuffersOutliveFiles ==
    files > 0 =>
        \A w \in Buffers :
            Get(w, "ignore") \in ToSet(Steps) /\ thing[w] # "held" =>
                \/ w \in failed
                \/ driver = "mybuffer_sync" /\ "class" \in failed /\ stage \in {"ladder", "refused"}

=============================================================================
