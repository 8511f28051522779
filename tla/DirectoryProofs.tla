--------------------------- MODULE DirectoryProofs ---------------------------
(***************************************************************************)
(* Theorems about Directory, for any departments, positions, employees,    *)
(* workers and edit forms: while every write goes through a service        *)
(* (ServiceSpec), and what is left of that with PUT (Spec).                *)
(***************************************************************************)
EXTENDS DirectoryHistory, FiniteSetTheorems, WellFoundedInduction, TLAPS

\* What a request remembers from before its commit still has a row then:
\* departments are never deleted and nobody loses a workplace.
TasksAreGrounded ==
  \A w \in Workers :
    /\ task[w].op \in {"placing", "placed"} =>
         /\ task[w].department \in departments \cup {None}
         /\ task[w].parent \in departments \cup {None}
    /\ task[w].op = "moving" => task[w].department \in departments
    /\ task[w].op = "rehiring" => workplace[task[w].employee] # None

\* Only employees with a row hold a position.
PostsAreHeld == \A e \in Employees : post[e] # None => workplace[e] # None

\* Nothing but what was read without a lock begins to use a unit that is being
\* closed: neither an employee in service nor an active position.
Unused(x) ==
  /\ \A e \in inService \ unchecked : workplace[e] # x /\ post[e] # x
  /\ \A p \in (Positions \cap openUnits) \ unchecked : unitOf[p] # x

ClosingStaysUnused == \A w \in Workers : task[w].op = "closing" => Unused(task[w].unit)

RowInv == TypeOK /\ TasksAreGrounded /\ PostsAreHeld /\ PostsAgree
UnitInv == UnitsInUseAreOpen /\ ClosingStaysUnused

IInv == RowInv /\ UnitInv /\ FormsShowTheRow
-----------------------------------------------------------------------------
\* A task has the fields of the record of its operation.
LEMMA TaskShape ==
  ASSUME TypeOK, NEW w \in Workers
  PROVE  /\ task[w].op \in {"placing", "placed"} =>
              /\ task[w].department \in MaybeDepartment /\ task[w].parent \in MaybeDepartment
              /\ task[w].above \in MaybeDepartment
         /\ task[w].op = "closing" => task[w].unit \in Departments \cup Positions
         /\ task[w].op = "rehiring" => task[w].employee \in Employees
         /\ task[w].op = "moving" => /\ task[w].position \in Positions
                                     /\ task[w].department \in Departments
<1>1. task[w] \in Task
  BY DEF TypeOK
<1> QED
  BY <1>1 DEF Task, Idle

LEMMA Tasks ==
  /\ Idle \in Task
  /\ \A d, p, a \in MaybeDepartment, op \in {"placing", "placed"} :
       [op |-> op, department |-> d, parent |-> p, above |-> a] \in Task
  /\ \A x \in Departments \cup Positions : [op |-> "closing", unit |-> x] \in Task
  /\ \A e \in Employees : [op |-> "rehiring", employee |-> e] \in Task
  /\ \A p \in Positions, d \in Departments :
       [op |-> "moving", position |-> p, department |-> d] \in Task
BY DEF Task

\* A step of one worker leaves the tasks of the others alone.
LEMMA TaskMoves ==
  ASSUME TypeOK, NEW w \in Workers, NEW t \in Task, task' = [task EXCEPT ![w] = t]
  PROVE  /\ task' \in [Workers -> Task]
         /\ task'[w] = t
         /\ \A v \in Workers \ {w} : task'[v] = task[v]
BY DEF TypeOK

LEMMA InitIInv == Init => IInv
<1> SUFFICES ASSUME Init
             PROVE  IInv
  OBVIOUS
<1>1. RowInv
  BY Tasks DEF Init, RowInv, TypeOK, TasksAreGrounded, PostsAreHeld, PostsAgree, Idle, FormStates
<1>2. UnitInv /\ FormsShowTheRow
  BY DEF Init, UnitInv, UnitsInUseAreOpen, ClosingStaysUnused, FormsShowTheRow, Idle, NoForm
<1> QED
  BY <1>1, <1>2 DEF IInv

-----------------------------------------------------------------------------
(***************************************************************************)
(* Requests that only read so far, or that end without a write.            *)
(***************************************************************************)
LEMMA TaskKeeps ==
  ASSUME IInv, NEW w \in Workers, NEW t \in Task, task' = [task EXCEPT ![w] = t],
         UNCHANGED <<departmentVars, openUnits, unitOf, staffVars, unchecked>>,
         t.op \in {"placing", "placed"} => /\ t.department \in departments \cup {None}
                                           /\ t.parent \in departments \cup {None},
         t.op = "moving" => t.department \in departments,
         t.op = "rehiring" => workplace[t.employee] # None,
         t.op = "closing" => Unused(t.unit)
  PROVE  IInv'
<1>1. TypeOK
  BY DEF IInv, RowInv
<1>2. /\ task' \in [Workers -> Task] /\ task'[w] = t
      /\ \A v \in Workers \ {w} : task'[v] = task[v]
  BY <1>1, TaskMoves
<1>3. TypeOK'
  BY <1>1, <1>2 DEF TypeOK, departmentVars, staffVars
<1>4. TasksAreGrounded' /\ PostsAreHeld' /\ PostsAgree'
  <2>1. ASSUME NEW v \in Workers \ {w}
        PROVE  /\ task[v].op \in {"placing", "placed"} =>
                    /\ task[v].department \in departments \cup {None}
                    /\ task[v].parent \in departments \cup {None}
               /\ task[v].op = "moving" => task[v].department \in departments
               /\ task[v].op = "rehiring" => workplace[task[v].employee] # None
    BY DEF IInv, RowInv, TasksAreGrounded
  <2> QED
    BY <1>2, <2>1
    DEF IInv, RowInv, TasksAreGrounded, PostsAreHeld, PostsAgree, departmentVars, staffVars
<1>5. UnitsInUseAreOpen' /\ FormsShowTheRow'
  BY DEF IInv, UnitInv, UnitsInUseAreOpen, FormsShowTheRow, departmentVars, staffVars
<1>6. ClosingStaysUnused'
  <2>1. \A v \in Workers \ {w} : task[v].op = "closing" => Unused(task[v].unit)
    BY DEF IInv, UnitInv, ClosingStaysUnused
  <2> QED
    BY <1>2, <2>1 DEF ClosingStaysUnused, Unused, staffVars
<1> QED
  BY <1>3, <1>4, <1>5, <1>6 DEF IInv, RowInv, UnitInv

LEMMA ReadsKeep ==
  ASSUME IInv, NEW w \in Workers,
         \/ \E d, p \in MaybeDepartment : ParentRead(w, d, p)
         \/ ParentCheck(w)
         \/ \E x \in Departments \cup Positions : DeactivateCheck(w, x)
         \/ \E p \in Positions, d \in Departments : MovePositionRead(w, p, d)
         \/ \E e \in Employees : ReactivateCheck(w, e)
         \/ Refuse(w)
  PROVE  IInv'
<1>0. TypeOK /\ TasksAreGrounded /\ UnitsInUseAreOpen
  BY DEF IInv, RowInv, UnitInv
<1>1. ASSUME NEW d \in MaybeDepartment, NEW p \in MaybeDepartment, ParentRead(w, d, p)
      PROVE  IInv'
  <2> DEFINE above == IF p = None THEN None ELSE parent[p]
             t == [op |-> "placing", department |-> d, parent |-> p, above |-> above]
  <2>1. above \in MaybeDepartment
    BY <1>0 DEF TypeOK, MaybeDepartment
  <2>2. t \in Task
    BY <2>1, Tasks
  <2>3. d \in departments \cup {None} /\ p \in departments \cup {None}
    BY <1>1 DEF ParentRead
  <2>4. task' = [task EXCEPT ![w] = t]
    BY <1>1 DEF ParentRead, Begin
  <2>5. UNCHANGED <<departmentVars, openUnits, unitOf, staffVars, unchecked>>
    BY <1>1 DEF ParentRead
  <2> QED
    BY <2>2, <2>3, <2>4, <2>5, TaskKeeps
<1>2. CASE ParentCheck(w)
  <2> DEFINE t == [op |-> "placed", department |-> task[w].department,
                   parent |-> task[w].parent, above |-> task[w].above]
  <2>1. t \in Task
    BY <1>0, <1>2, TaskShape, Tasks DEF ParentCheck
  <2>2. task[w].department \in departments \cup {None} /\ task[w].parent \in departments \cup {None}
    BY <1>0, <1>2 DEF ParentCheck, TasksAreGrounded
  <2>3. /\ task' = [task EXCEPT ![w] = t]
        /\ UNCHANGED <<departmentVars, openUnits, unitOf, staffVars, unchecked>>
    BY <1>2 DEF ParentCheck
  <2> QED
    BY <2>1, <2>2, <2>3, TaskKeeps
<1>3. ASSUME NEW x \in Departments \cup Positions, DeactivateCheck(w, x)
      PROVE  IInv'
  <2> DEFINE t == [op |-> "closing", unit |-> x]
  <2>1. t \in Task
    BY Tasks
  <2>2. /\ task' = [task EXCEPT ![w] = t]
        /\ UNCHANGED <<departmentVars, openUnits, unitOf, staffVars, unchecked>>
    BY <1>3 DEF DeactivateCheck, Begin
  <2>3. Unused(x)
    <3>1. CASE x \in Departments
      BY <1>0, <1>3, <3>1, NoneIsNoRow, KindsAreDistinct
      DEF DeactivateCheck, DepartmentUnused, Unused, TypeOK
    <3>2. CASE x \in Positions
      BY <1>0, <1>3, <3>2, NoneIsNoRow, KindsAreDistinct
      DEF DeactivateCheck, PositionUnused, Unused, TypeOK
    <3> QED
      BY <3>1, <3>2
  <2> QED
    BY <2>1, <2>2, <2>3, TaskKeeps
<1>4. ASSUME NEW p \in Positions, NEW d \in Departments, MovePositionRead(w, p, d)
      PROVE  IInv'
  <2> DEFINE t == [op |-> "moving", position |-> p, department |-> d]
  <2>1. t \in Task /\ d \in departments
    BY <1>0, <1>4, Tasks, KindsAreDistinct DEF MovePositionRead, TypeOK
  <2>2. /\ task' = [task EXCEPT ![w] = t]
        /\ UNCHANGED <<departmentVars, openUnits, unitOf, staffVars, unchecked>>
    BY <1>4 DEF MovePositionRead, Begin
  <2> QED
    BY <2>1, <2>2, TaskKeeps
<1>5. ASSUME NEW e \in Employees, ReactivateCheck(w, e)
      PROVE  IInv'
  <2> DEFINE t == [op |-> "rehiring", employee |-> e]
  <2>1. t \in Task /\ workplace[e] # None
    BY <1>5, Tasks DEF ReactivateCheck
  <2>2. /\ task' = [task EXCEPT ![w] = t]
        /\ UNCHANGED <<departmentVars, openUnits, unitOf, staffVars, unchecked>>
    BY <1>5 DEF ReactivateCheck, Begin
  <2> QED
    BY <2>1, <2>2, TaskKeeps
<1>6. CASE Refuse(w)
  <2>1. /\ task' = [task EXCEPT ![w] = Idle] /\ Idle.op = "idle"
        /\ UNCHANGED <<departmentVars, openUnits, unitOf, staffVars, unchecked>>
    BY <1>6 DEF Refuse, Finish, Idle
  <2> QED
    BY <2>1, Tasks, TaskKeeps
<1> QED
  BY <1>1, <1>2, <1>3, <1>4, <1>5, <1>6

-----------------------------------------------------------------------------
(***************************************************************************)
(* Edit forms: a save makes the forms of its employee stale, so an open    *)
(* form keeps showing the row.                                             *)
(***************************************************************************)
RowUnchanged(e) ==
  workplace'[e] = workplace[e] /\ post'[e] = post[e] /\ (e \in inService' <=> e \in inService)

FormsOK == form \in [Forms -> FormStates] /\ FormsShowTheRow

LEMMA FormShape ==
  ASSUME FormsOK, NEW f \in Forms
  PROVE  form[f].at = "open" =>
           /\ form[f].employee \in Employees
           /\ form[f].department = workplace[form[f].employee]
           /\ form[f].post = post[form[f].employee]
           /\ form[f].serving = (form[f].employee \in inService)
           /\ form[f].department \in Departments
<1>1. form[f] \in FormStates
  BY DEF FormsOK
<1>2. form[f].at = "open" => form[f].employee \in Employees /\ form[f].department \in Departments
  BY <1>1 DEF FormStates, NoForm, StaleForm
<1> QED
  BY <1>2 DEF FormsOK, FormsShowTheRow

LEMMA FormsKept ==
  ASSUME FormsOK, DOMAIN form' = Forms, form' = [f \in Forms |-> form'[f]],
         \A f \in Forms :
           \/ form'[f] \in {NoForm, StaleForm}
           \/ form'[f] = form[f] /\ (form[f].at = "open" => RowUnchanged(form[f].employee))
  PROVE  FormsOK'
<1>1. form' \in [Forms -> FormStates]
  <2>1. \A f \in Forms : form'[f] \in FormStates
    BY DEF FormsOK, FormStates
  <2> QED
    BY <2>1
<1>2. ASSUME NEW f \in Forms, form'[f].at = "open"
      PROVE  /\ form'[f].department = workplace'[form'[f].employee]
             /\ form'[f].post = post'[form'[f].employee]
             /\ form'[f].serving = (form'[f].employee \in inService')
  <2>1. form'[f] = form[f] /\ form[f].at = "open" /\ RowUnchanged(form[f].employee)
    BY <1>2 DEF NoForm, StaleForm
  <2> QED
    BY <2>1, FormShape DEF RowUnchanged
<1> QED
  BY <1>1, <1>2 DEF FormsOK, FormsShowTheRow

\* A save of the row of e alone.
LEMMA SaveKeepsForms ==
  ASSUME FormsOK, NEW e \in Employees, \A g \in Employees \ {e} : RowUnchanged(g),
         \/ form' = Saved(e)
         \/ \E f \in Forms : form' = [Saved(e) EXCEPT ![f] = NoForm]
  PROVE  FormsOK'
<1>1. form' = [f \in Forms |-> form'[f]] /\ DOMAIN form' = Forms
      /\ \A f \in Forms : form'[f] \in {NoForm, Saved(e)[f]}
  BY DEF Saved
<1>2. ASSUME NEW f \in Forms, form'[f] = Saved(e)[f]
      PROVE  \/ form'[f] \in {NoForm, StaleForm}
             \/ form'[f] = form[f] /\ (form[f].at = "open" => RowUnchanged(form[f].employee))
  BY <1>2, FormShape DEF Saved
<1> QED
  BY <1>1, <1>2, FormsKept

\* A step that changes no row may close forms.
LEMMA QuietKeepsForms ==
  ASSUME FormsOK, \A e \in Employees : RowUnchanged(e),
         form' = form \/ \E f \in Forms : form' = [form EXCEPT ![f] = NoForm]
  PROVE  FormsOK'
<1>1. /\ form' = [f \in Forms |-> form'[f]] /\ DOMAIN form' = Forms
      /\ \A f \in Forms : form'[f] \in {NoForm, form[f]}
  BY DEF FormsOK
<1>2. \A f \in Forms : form[f].at = "open" => RowUnchanged(form[f].employee)
  BY FormShape
<1> QED
  BY <1>1, <1>2, FormsKept

LEMMA EmployeeForms ==
  ASSUME TypeOK, FormsShowTheRow, EmployeeStep
  PROVE  FormsOK'
<1>0. FormsOK
  BY DEF FormsOK, TypeOK
<1>1. ASSUME NEW e \in Employees, NEW d \in Departments, NEW p \in Positions \cup {None},
             CreateEmployee(e, d, p)
      PROVE  FormsOK'
  <2>1. workplace[e] = None /\ form' = form /\ \A g \in Employees \ {e} : RowUnchanged(g)
    BY <1>1 DEF CreateEmployee, RowUnchanged, TypeOK
  <2>2. ASSUME NEW f \in Forms, form[f].at = "open"
        PROVE  RowUnchanged(form[f].employee)
    BY <1>0, <2>1, <2>2, FormShape, NoneIsNoRow
  <2>3. form' = [f \in Forms |-> form'[f]] /\ DOMAIN form' = Forms
    BY <1>0, <2>1 DEF FormsOK
  <2> QED
    BY <1>0, <2>1, <2>2, <2>3, FormsKept
<1>2. ASSUME NEW e \in Employees, NEW d \in Departments, NEW p \in Positions \cup {None},
             ApplyUpdate(e, d, p)
      PROVE  /\ \A g \in Employees \ {e} : RowUnchanged(g)
             /\ <<d, p>> = <<workplace[e], post[e]>> => RowUnchanged(e)
  BY <1>2 DEF ApplyUpdate, RowUnchanged, TypeOK
<1>3. ASSUME NEW e \in Employees, NEW d \in Departments, NEW p \in Positions \cup {None},
             UpdateEmployee(e, d, p)
      PROVE  FormsOK'
  <2>1. CASE <<d, p>> = <<workplace[e], post[e]>>
    BY <1>0, <1>2, <1>3, <2>1, QuietKeepsForms DEF UpdateEmployee
  <2>2. CASE <<d, p>> # <<workplace[e], post[e]>>
    BY <1>0, <1>2, <1>3, <2>2, SaveKeepsForms DEF UpdateEmployee
  <2> QED
    BY <2>1, <2>2
<1>4. ASSUME NEW f \in Forms, NEW d \in Departments, NEW p \in Positions \cup {None},
             SubmitForm(f, d, p)
      PROVE  FormsOK'
  <2>0. PICK e \in Employees : e = form[f].employee
    BY <1>0, <1>4, FormShape DEF SubmitForm
  <2>1. /\ ApplyUpdate(e, d, p)
        /\ form' = [(IF <<d, p>> = <<workplace[e], post[e]>> THEN form ELSE Saved(e))
                      EXCEPT ![f] = NoForm]
    BY <1>4, <2>0 DEF SubmitForm
  <2>2. CASE <<d, p>> = <<workplace[e], post[e]>>
    BY <1>0, <1>2, <2>1, <2>2, QuietKeepsForms
  <2>3. CASE <<d, p>> # <<workplace[e], post[e]>>
    BY <1>0, <1>2, <2>1, <2>3, SaveKeepsForms
  <2> QED
    BY <2>2, <2>3
<1>5. ASSUME NEW f \in Forms, NEW e \in Employees, OpenForm(f, e)
      PROVE  FormsOK'
  <2> DEFINE opened == [at |-> "open", employee |-> e, department |-> workplace[e],
                        post |-> post[e], serving |-> e \in inService]
  <2>1. /\ form' = [form EXCEPT ![f] = opened] /\ workplace[e] # None
        /\ UNCHANGED <<workplace, post, inService>>
    BY <1>5 DEF OpenForm
  <2>2. opened \in FormStates
    <3>1. workplace[e] \in Departments /\ post[e] \in Positions \cup {None}
          /\ (e \in inService) \in BOOLEAN
      BY <2>1 DEF TypeOK
    <3> QED
      BY <3>1 DEF FormStates
  <2>3. /\ form' \in [Forms -> FormStates] /\ form'[f] = opened
        /\ \A g \in Forms \ {f} : form'[g] = form[g]
    <3> HIDE DEF opened
    <3> QED
      BY <2>1, <2>2 DEF TypeOK
  <2> QED
    BY <1>0, <2>1, <2>3 DEF FormsOK, FormsShowTheRow
<1>6. ASSUME NEW f \in Forms, RefuseForm(f)
      PROVE  FormsOK'
  BY <1>0, <1>6, QuietKeepsForms DEF RefuseForm, RowUnchanged
<1>7. ASSUME NEW e \in Employees, DepartEmployee(e)
      PROVE  FormsOK'
  <2>1. form' = Saved(e) /\ \A g \in Employees \ {e} : RowUnchanged(g)
    BY <1>7 DEF DepartEmployee, RowUnchanged
  <2> QED
    BY <1>0, <2>1, SaveKeepsForms
<1>8. ASSUME NEW w \in Workers, NEW e \in Employees, ReactivateCheck(w, e)
      PROVE  FormsOK'
  BY <1>0, <1>8, QuietKeepsForms DEF ReactivateCheck, RowUnchanged, staffVars
<1>9. ASSUME NEW w \in Workers, ReactivateCommit(w)
      PROVE  FormsOK'
  <2>1. PICK e \in Employees : e = task[w].employee
    BY <1>9, TaskShape DEF ReactivateCommit
  <2>2. form' = Saved(e) /\ \A g \in Employees \ {e} : RowUnchanged(g)
    BY <1>9, <2>1 DEF ReactivateCommit, RowUnchanged
  <2> QED
    BY <1>0, <2>2, SaveKeepsForms
<1> QED
  BY <1>1, <1>3, <1>4, <1>5, <1>6, <1>7, <1>8, <1>9 DEF EmployeeStep

-----------------------------------------------------------------------------
(***************************************************************************)
(* Requests that write.                                                    *)
(***************************************************************************)

\* A write starts no task, and what the others wait for stays in place.
LEMMA GroundedKept ==
  ASSUME TasksAreGrounded, TypeOK, \A v \in Workers : task'[v] \in {Idle, task[v]},
         departments \subseteq departments',
         \A e \in Employees : workplace[e] # None => workplace'[e] # None
  PROVE  TasksAreGrounded'
<1>1. ASSUME NEW v \in Workers, task'[v] = task[v]
      PROVE  /\ task[v].op \in {"placing", "placed"} =>
                  /\ task[v].department \in departments' \cup {None}
                  /\ task[v].parent \in departments' \cup {None}
             /\ task[v].op = "moving" => task[v].department \in departments'
             /\ task[v].op = "rehiring" => workplace'[task[v].employee] # None
  BY TaskShape DEF TasksAreGrounded
<1> QED
  BY <1>1 DEF TasksAreGrounded, Idle

\* While a unit is being closed its row is locked.
LEMMA ClosingKept ==
  ASSUME ClosingStaysUnused, TypeOK, \A v \in Workers : task'[v] \in {Idle, task[v]},
         \A x \in Departments \cup Positions : Unused(x) /\ ~UnitFree(x) => Unused(x)'
  PROVE  ClosingStaysUnused'
<1>1. ASSUME NEW v \in Workers, task'[v] = task[v], task[v].op = "closing",
             NEW x, x = task[v].unit
      PROVE  Unused(x)'
  BY <1>1, TaskShape DEF ClosingStaysUnused, UnitFree
<1>2. ASSUME NEW v \in Workers, task'[v].op = "closing"
      PROVE  task'[v] = task[v]
  BY <1>2 DEF Idle
<1>3. ASSUME NEW v \in Workers, task'[v].op = "closing", NEW x, x = task'[v].unit
      PROVE  Unused(x)'
  BY <1>1, <1>2, <1>3
<1> QED
  BY <1>3 DEF ClosingStaysUnused, Unused

LEMMA FinishMoves ==
  ASSUME TypeOK, NEW w \in Workers, Finish(w)
  PROVE  task' \in [Workers -> Task] /\ \A v \in Workers : task'[v] \in {Idle, task[v]}
BY Tasks, TaskMoves DEF Finish

LEMMA TasksKept ==
  ASSUME TypeOK, task' = task
  PROVE  task' \in [Workers -> Task] /\ \A v \in Workers : task'[v] \in {Idle, task[v]}
BY DEF TypeOK

\* The rows of departments.
LEMMA DepartmentWritesKeep ==
  ASSUME RowInv, UnitInv,
         \/ \E w \in Workers, d \in Departments : DepartmentInsert(w, d)
         \/ \E w \in Workers : DepartmentMove(w) \/ DeactivateCommit(w)
         \/ \E d \in Departments : ActivateDepartment(d)
  PROVE  RowInv' /\ UnitInv'
<1>0. /\ TypeOK /\ TasksAreGrounded /\ PostsAreHeld /\ PostsAgree
      /\ UnitsInUseAreOpen /\ ClosingStaysUnused
  BY DEF RowInv, UnitInv
<1>1. /\ task' \in [Workers -> Task]
      /\ \A v \in Workers : task'[v] \in {Idle, task[v]}
  BY <1>0, FinishMoves, TasksKept
  DEF DepartmentInsert, DepartmentMove, DeactivateCommit, ActivateDepartment
<1>2. UNCHANGED <<unitOf, workplace, post, inService, form, unchecked>>
  BY DEF DepartmentInsert, DepartmentMove, DeactivateCommit, ActivateDepartment, staffVars
<1> DEFINE Writes ==
             /\ departments \subseteq departments' /\ departments' \subseteq Departments
             /\ parent' \in [Departments -> departments' \cup {None}]
             /\ openUnits' \subseteq departments' \cup Positions
             /\ openUnits' \cap Positions \subseteq openUnits
<1>3. Writes
  <2>1. ASSUME NEW w \in Workers, NEW d \in Departments, DepartmentInsert(w, d)
        PROVE  Writes
    BY <1>0, <2>1, KindsAreDistinct DEF DepartmentInsert, TasksAreGrounded, TypeOK
  <2>2. ASSUME NEW w \in Workers, DepartmentMove(w)
        PROVE  Writes
    BY <1>0, <2>2 DEF DepartmentMove, TasksAreGrounded, TypeOK
  <2>3. ASSUME NEW w \in Workers, DeactivateCommit(w)
        PROVE  Writes
    BY <1>0, <2>3 DEF DeactivateCommit, departmentVars, TypeOK
  <2>4. ASSUME NEW d \in Departments, ActivateDepartment(d)
        PROVE  Writes
    BY <1>0, <2>4, KindsAreDistinct DEF ActivateDepartment, departmentVars, TypeOK
  <2> QED
    BY <2>1, <2>2, <2>3, <2>4
<1>4. TypeOK'
  BY <1>0, <1>1, <1>2, <1>3 DEF TypeOK
<1>5. TasksAreGrounded'
  BY <1>0, <1>1, <1>2, <1>3, GroundedKept
<1>6. PostsAreHeld' /\ PostsAgree'
  BY <1>0, <1>2 DEF PostsAreHeld, PostsAgree
<1>7. ClosingStaysUnused'
  <2>1. \A x \in Departments \cup Positions : Unused(x) => Unused(x)'
    BY <1>2, <1>3 DEF Unused
  <2> QED
    BY <1>0, <1>1, <2>1, ClosingKept
<1>8. UnitsInUseAreOpen'
  <2>1. CASE openUnits \subseteq openUnits'
    BY <1>0, <1>2, <1>3, <2>1 DEF UnitsInUseAreOpen
  <2>2. ASSUME NEW w \in Workers, DeactivateCommit(w)
        PROVE  UnitsInUseAreOpen'
    <3>1. PICK x : x = task[w].unit
      OBVIOUS
    <3>2. Unused(x) /\ openUnits' = openUnits \ {x}
      BY <1>0, <2>2, <3>1 DEF DeactivateCommit, ClosingStaysUnused
    <3> QED
      BY <1>0, <1>2, <3>2 DEF UnitsInUseAreOpen, Unused
  <2> QED
    BY <2>1, <2>2 DEF DepartmentInsert, DepartmentMove, ActivateDepartment
<1> QED
  BY <1>4, <1>5, <1>6, <1>7, <1>8 DEF RowInv, UnitInv

\* The rows of positions.
LEMMA PositionWritesKeep ==
  ASSUME RowInv, UnitInv,
         \/ \E p \in Positions : ActivatePosition(p)
         \/ \E p \in Positions, d \in Departments : CreatePosition(p, d)
         \/ \E w \in Workers : MovePositionCommit(w)
  PROVE  RowInv' /\ UnitInv'
<1>0. /\ TypeOK /\ TasksAreGrounded /\ PostsAreHeld /\ PostsAgree
      /\ UnitsInUseAreOpen /\ ClosingStaysUnused
  BY DEF RowInv, UnitInv
<1>1. /\ task' \in [Workers -> Task]
      /\ \A v \in Workers : task'[v] \in {Idle, task[v]}
  BY <1>0, FinishMoves, TasksKept DEF ActivatePosition, CreatePosition, MovePositionCommit
<1>2. UNCHANGED <<departments, parent, workplace, post, inService, form>>
  BY DEF ActivatePosition, CreatePosition, MovePositionCommit, departmentVars, staffVars
<1> DEFINE Writes(p) ==
             /\ openUnits \subseteq openUnits' /\ openUnits' \subseteq openUnits \cup {p}
             /\ unitOf' \in [Positions -> departments \cup {None}]
             /\ \A q \in Positions \ {p} : unitOf'[q] = unitOf[q]
             /\ unchecked \ {p} \subseteq unchecked' /\ unchecked' \subseteq unchecked \cup {p}
             /\ \/ p \in unchecked'
                \/ p \notin openUnits'
                \/ unitOf'[p] \in openUnits /\ UnitFree(unitOf'[p])
                \/ p \in openUnits /\ p \notin unchecked /\ unitOf'[p] = unitOf[p]
             /\ unitOf'[p] = unitOf[p] \/ \A e \in Employees : post[e] # p
<1>3. PICK p \in Positions : Writes(p)
  <2>1. ASSUME NEW p \in Positions, ActivatePosition(p)
        PROVE  Writes(p)
    BY <1>0, <2>1 DEF ActivatePosition, DepartmentAllowsPosition, TypeOK
  <2>2. ASSUME NEW p \in Positions, NEW d \in Departments, CreatePosition(p, d)
        PROVE  Writes(p)
    <3>1. d \in departments /\ d \in openUnits /\ UnitFree(d)
      BY <1>0, <2>2, KindsAreDistinct DEF CreatePosition, TypeOK
    <3>2. \A e \in Employees : post[e] # p
      BY <1>0, <2>2, NoneIsNoRow DEF CreatePosition, PostsAgree, PostsAreHeld, TypeOK
    <3>3. unitOf' = [unitOf EXCEPT ![p] = d] /\ openUnits' = openUnits \cup {p}
          /\ unchecked' = unchecked
      BY <2>2 DEF CreatePosition
    <3>4. unitOf' \in [Positions -> departments \cup {None}] /\ unitOf'[p] = d
          /\ \A q \in Positions \ {p} : unitOf'[q] = unitOf[q]
      BY <1>0, <3>1, <3>3 DEF TypeOK
    <3> QED
      BY <3>1, <3>2, <3>3, <3>4
  <2>3. ASSUME NEW w \in Workers, MovePositionCommit(w)
        PROVE  \E q \in Positions : Writes(q)
    <3>1. PICK p \in Positions, d \in departments :
            p = task[w].position /\ d = task[w].department
      BY <1>0, <2>3, TaskShape DEF MovePositionCommit, TasksAreGrounded
    <3>2. /\ unitOf' = [unitOf EXCEPT ![p] = d] /\ openUnits' = openUnits
          /\ unchecked' = unchecked \cup {p} /\ \A e \in Employees : post[e] # p
      BY <2>3, <3>1 DEF MovePositionCommit, Unstaffed
    <3>3. unitOf' \in [Positions -> departments \cup {None}]
          /\ \A q \in Positions \ {p} : unitOf'[q] = unitOf[q]
      BY <1>0, <3>2 DEF TypeOK
    <3> QED
      BY <3>2, <3>3
  <2> QED
    BY <2>1, <2>2, <2>3
<1>4. TypeOK'
  BY <1>0, <1>1, <1>2, <1>3 DEF TypeOK
<1>5. TasksAreGrounded'
  BY <1>0, <1>1, <1>2, GroundedKept
<1>6. PostsAreHeld' /\ PostsAgree'
  <2>1. ASSUME NEW e \in Employees, post[e] # None
        PROVE  unitOf'[post[e]] = workplace[e]
    BY <1>0, <1>3, <2>1 DEF PostsAgree, TypeOK
  <2> QED
    BY <1>0, <1>2, <2>1 DEF PostsAreHeld, PostsAgree
<1>7. \A e \in Employees : e \in unchecked' <=> e \in unchecked
  BY <1>3, KindsAreDistinct
<1>8. inService \subseteq Employees
  BY <1>0 DEF TypeOK
<1>9. ClosingStaysUnused'
  <2>1. ASSUME NEW x \in Departments \cup Positions, Unused(x), ~UnitFree(x)
        PROVE  Unused(x)'
    <3>1. ASSUME NEW q \in (Positions \cap openUnits') \ unchecked'
          PROVE  unitOf'[q] # x
      BY <1>3, <2>1, <3>1 DEF Unused
    <3> QED
      BY <1>2, <1>7, <1>8, <2>1, <3>1 DEF Unused
  <2> QED
    BY <1>0, <1>1, <2>1, ClosingKept
<1>10. UnitsInUseAreOpen'
  <2>1. ASSUME NEW q \in (Positions \cap openUnits') \ unchecked'
        PROVE  unitOf'[q] \in openUnits'
    BY <1>0, <1>3, <2>1 DEF UnitsInUseAreOpen
  <2> QED
    BY <1>0, <1>2, <1>3, <1>7, <1>8, <2>1 DEF UnitsInUseAreOpen
<1> QED
  BY <1>4, <1>5, <1>6, <1>9, <1>10 DEF RowInv, UnitInv

\* The rows of employees: whoever is read again under the locks of department
\* and position (Placed) uses open units; reactivation reads without them.
LEMMA EmployeeWritesKeep ==
  ASSUME RowInv, UnitInv, form' \in [Forms -> FormStates],
         UNCHANGED <<departmentVars, openUnits, unitOf>>,
         task' \in [Workers -> Task], \A v \in Workers : task'[v] \in {Idle, task[v]},
         NEW e \in Employees, NEW d \in Departments \cup {None}, NEW p \in Positions \cup {None},
         workplace' = [workplace EXCEPT ![e] = d], post' = [post EXCEPT ![e] = p],
         inService' \subseteq inService \cup {e},
         unchecked \ {e} \subseteq unchecked', unchecked' \subseteq unchecked \cup {e},
         \/ /\ d = workplace[e] /\ p = post[e]
            /\ e \in inService' => d # None
            /\ e \in inService' \ unchecked' => e \in inService \ unchecked
         \/ RelationshipsActive(d, p)
  PROVE  RowInv' /\ UnitInv'
<1>0. /\ TypeOK /\ TasksAreGrounded /\ PostsAreHeld /\ PostsAgree
      /\ UnitsInUseAreOpen /\ ClosingStaysUnused
  BY DEF RowInv, UnitInv
<1>1. UNCHANGED <<departments, parent, openUnits, unitOf>>
  BY DEF departmentVars
<1>2. /\ workplace'[e] = d /\ post'[e] = p
      /\ \A g \in Employees \ {e} : workplace'[g] = workplace[g] /\ post'[g] = post[g]
  BY <1>0 DEF TypeOK
<1>3. RelationshipsActive(d, p) => d \in departments /\ d # None
  BY <1>0, NoneIsNoRow, KindsAreDistinct DEF RelationshipsActive, TypeOK
<1>4. d \in departments \cup {None} /\ (workplace[e] # None => d # None)
  BY <1>0, <1>3 DEF TypeOK
<1>5. TypeOK'
  <2>1. /\ workplace' \in [Employees -> departments \cup {None}]
        /\ post' \in [Employees -> Positions \cup {None}]
    BY <1>0, <1>4 DEF TypeOK
  <2>2. inService' \subseteq {g \in Employees : workplace'[g] # None}
    BY <1>0, <1>2, <1>3 DEF TypeOK
  <2>3. unchecked' \subseteq Employees \cup Positions
    BY <1>0 DEF TypeOK
  <2> QED
    BY <1>0, <1>1, <2>1, <2>2, <2>3 DEF TypeOK
<1>6. TasksAreGrounded'
  <2>1. \A g \in Employees : workplace[g] # None => workplace'[g] # None
    BY <1>2, <1>4
  <2> QED
    BY <1>0, <1>1, <2>1, GroundedKept
<1>7. PostsAreHeld' /\ PostsAgree'
  <2>1. p # None => d # None /\ unitOf[p] = d
    BY <1>0, <1>3 DEF PostsAreHeld, PostsAgree, RelationshipsActive
  <2> QED
    BY <1>0, <1>1, <1>2, <2>1 DEF PostsAreHeld, PostsAgree
<1>8. inService \subseteq Employees
      /\ \A q \in Positions : q \in unchecked' <=> q \in unchecked
  BY <1>0, KindsAreDistinct DEF TypeOK
<1>9. ClosingStaysUnused'
  <2>1. ASSUME NEW x \in Departments \cup Positions, Unused(x), ~UnitFree(x)
        PROVE  Unused(x)'
    <3>1. ASSUME e \in inService' \ unchecked'
          PROVE  d # x /\ p # x
      BY <2>1, <3>1, NoneIsNoRow DEF Unused, RelationshipsActive
    <3>2. ASSUME NEW g \in inService' \ unchecked'
          PROVE  workplace'[g] # x /\ post'[g] # x
      <4>1. CASE g = e
        BY <1>2, <3>1, <4>1
      <4>2. CASE g # e
        BY <1>2, <1>8, <2>1, <4>2 DEF Unused
      <4> QED
        BY <4>1, <4>2
    <3> QED
      BY <1>1, <1>8, <2>1, <3>2 DEF Unused
  <2> QED
    BY <1>0, <2>1, ClosingKept
<1>10. UnitsInUseAreOpen'
  <2>1. ASSUME e \in inService' \ unchecked'
        PROVE  d \in openUnits /\ (p # None => p \in openUnits)
    BY <1>0, <2>1 DEF UnitsInUseAreOpen, RelationshipsActive
  <2>2. ASSUME NEW g \in inService' \ unchecked'
        PROVE  workplace'[g] \in openUnits /\ (post'[g] # None => post'[g] \in openUnits)
    <3>1. CASE g = e
      BY <1>2, <2>1, <3>1
    <3>2. CASE g # e
      BY <1>0, <1>2, <1>8, <3>2 DEF UnitsInUseAreOpen
    <3> QED
      BY <3>1, <3>2
  <2> QED
    BY <1>0, <1>1, <1>8, <2>2 DEF UnitsInUseAreOpen
<1> QED
  BY <1>5, <1>6, <1>7, <1>9, <1>10 DEF RowInv, UnitInv

\* An update writes what it found open and unlocked.
LEMMA UpdateKeeps ==
  ASSUME RowInv, UnitInv, form' \in [Forms -> FormStates], NEW e \in Employees,
         NEW d \in Departments, NEW p \in Positions \cup {None}, ApplyUpdate(e, d, p)
  PROVE  RowInv' /\ UnitInv'
<1>1. TypeOK
  BY DEF RowInv
<1>2. /\ UNCHANGED <<departmentVars, openUnits, unitOf>>
      /\ workplace' = [workplace EXCEPT ![e] = d] /\ post' = [post EXCEPT ![e] = p]
      /\ inService' = inService /\ unchecked' = unchecked \ {e} /\ RelationshipsActive(d, p)
      /\ task' = task
  BY DEF ApplyUpdate
<1> QED
  BY <1>1, <1>2, TasksKept, EmployeeWritesKeep

LEMMA EmployeeStepsKeep ==
  ASSUME IInv, EmployeeStep
  PROVE  IInv'
<1>0. RowInv /\ UnitInv /\ TypeOK /\ FormsShowTheRow
  BY DEF IInv, RowInv
<1>1. form' \in [Forms -> FormStates] /\ FormsShowTheRow'
  BY <1>0, EmployeeForms DEF FormsOK
<1>2. ASSUME NEW e \in Employees, NEW d \in Departments, NEW p \in Positions \cup {None},
             CreateEmployee(e, d, p)
      PROVE  RowInv' /\ UnitInv'
  <2>1. /\ UNCHANGED <<departmentVars, openUnits, unitOf>>
        /\ workplace' = [workplace EXCEPT ![e] = d] /\ post' = [post EXCEPT ![e] = p]
        /\ inService' = inService \cup {e} /\ unchecked' = unchecked
        /\ RelationshipsActive(d, p) /\ task' = task
    BY <1>2 DEF CreateEmployee
  <2> QED
    BY <1>0, <1>1, <2>1, TasksKept, EmployeeWritesKeep
<1>3. ASSUME NEW e \in Employees, NEW d \in Departments, NEW p \in Positions \cup {None},
             UpdateEmployee(e, d, p)
      PROVE  RowInv' /\ UnitInv'
  BY <1>0, <1>1, <1>3, UpdateKeeps DEF UpdateEmployee
<1>4. ASSUME NEW f \in Forms, NEW d \in Departments, NEW p \in Positions \cup {None},
             SubmitForm(f, d, p)
      PROVE  RowInv' /\ UnitInv'
  <2>1. PICK e \in Employees : e = form[f].employee
    BY <1>0, <1>4, FormShape DEF SubmitForm, FormsOK, TypeOK
  <2>2. ApplyUpdate(e, d, p)
    BY <1>4, <2>1 DEF SubmitForm
  <2> QED
    BY <1>0, <1>1, <2>2, UpdateKeeps
<1>5. ASSUME NEW e \in Employees,
             UNCHANGED <<departmentVars, openUnits, unitOf, workplace, post>>,
             task' \in [Workers -> Task], \A v \in Workers : task'[v] \in {Idle, task[v]},
             inService' \subseteq inService \cup {e},
             unchecked \ {e} \subseteq unchecked', unchecked' \subseteq unchecked \cup {e},
             e \in inService' => workplace[e] # None,
             e \in inService' \ unchecked' => e \in inService \ unchecked
      PROVE  RowInv' /\ UnitInv'
  <2>1. PICK d \in Departments \cup {None}, p \in Positions \cup {None} :
          d = workplace[e] /\ p = post[e]
    BY <1>0 DEF TypeOK
  <2>2. workplace' = [workplace EXCEPT ![e] = d] /\ post' = [post EXCEPT ![e] = p]
    BY <1>0, <1>5, <2>1 DEF TypeOK
  <2> QED
    BY <1>0, <1>1, <1>5, <2>1, <2>2, EmployeeWritesKeep
<1>6. ASSUME NEW f \in Forms, RefuseForm(f) \/ \E e \in Employees : OpenForm(f, e)
      PROVE  RowInv' /\ UnitInv'
  <2>1. UNCHANGED <<departments, parent, openUnits, unitOf, workplace, post, inService, task,
                    unchecked>>
    BY <1>6 DEF OpenForm, RefuseForm, departmentVars
  <2>2. TypeOK'
    BY <1>0, <1>1, <2>1 DEF TypeOK
  <2> QED
    BY <1>0, <2>1, <2>2
    DEF RowInv, UnitInv, TasksAreGrounded, PostsAreHeld, PostsAgree, UnitsInUseAreOpen,
        ClosingStaysUnused, Unused
<1>7. ASSUME NEW e \in Employees, DepartEmployee(e)
      PROVE  RowInv' /\ UnitInv'
  <2>1. /\ UNCHANGED <<departmentVars, openUnits, unitOf, workplace, post, unchecked>>
        /\ inService' = inService \ {e} /\ task' = task
    BY <1>7 DEF DepartEmployee
  <2> QED
    BY <1>0, <1>5, <2>1, TasksKept
<1>8. ASSUME NEW w \in Workers, ReactivateCommit(w)
      PROVE  RowInv' /\ UnitInv'
  <2>1. PICK e \in Employees : e = task[w].employee
    BY <1>0, <1>8, TaskShape DEF ReactivateCommit
  <2>2. /\ UNCHANGED <<departmentVars, openUnits, unitOf, workplace, post>>
        /\ inService' = inService \cup {e} /\ unchecked' = unchecked \cup {e} /\ Finish(w)
    BY <1>8, <2>1 DEF ReactivateCommit
  <2>3. workplace[e] # None
    BY <1>0, <1>8, <2>1 DEF ReactivateCommit, RowInv, TasksAreGrounded
  <2> QED
    BY <1>0, <1>5, <2>2, <2>3, FinishMoves
<1>9. ASSUME NEW w \in Workers, NEW e \in Employees, ReactivateCheck(w, e)
      PROVE  IInv'
  BY <1>9, ReadsKeep
<1> QED
  BY <1>0, <1>1, <1>2, <1>3, <1>4, <1>6, <1>7, <1>8, <1>9 DEF EmployeeStep, IInv

LEMMA StepKeeps == IInv /\ [Next]_vars => IInv'
<1> SUFFICES ASSUME IInv, [Next]_vars
             PROVE  IInv'
  OBVIOUS
<1>0. RowInv /\ UnitInv /\ FormsOK
  BY DEF IInv, RowInv, FormsOK, TypeOK
<1>1. ASSUME UNCHANGED <<workplace, post, inService, form>>, RowInv', UnitInv'
      PROVE  IInv'
  <2>1. FormsOK'
    BY <1>0, <1>1, QuietKeepsForms DEF RowUnchanged
  <2> QED
    BY <1>1, <2>1 DEF IInv, FormsOK
<1>2. CASE DepartmentStep
  BY <1>0, <1>1, <1>2, DepartmentWritesKeep, ReadsKeep
  DEF DepartmentStep, DepartmentInsert, DepartmentMove, ActivateDepartment, staffVars
<1>3. CASE StatusStep
  BY <1>0, <1>1, <1>3, DepartmentWritesKeep, ReadsKeep DEF StatusStep, DeactivateCommit, staffVars
<1>4. CASE PositionStep
  BY <1>0, <1>1, <1>4, PositionWritesKeep, ReadsKeep
  DEF PositionStep, ActivatePosition, CreatePosition, MovePositionCommit, staffVars
<1>5. CASE UNCHANGED vars
  BY <1>0, <1>1, <1>5
  DEF RowInv, UnitInv, TypeOK, TasksAreGrounded, PostsAreHeld, PostsAgree, UnitsInUseAreOpen,
      ClosingStaysUnused, Unused, departmentVars, staffVars, vars
<1> QED
  BY <1>2, <1>3, <1>4, <1>5, EmployeeStepsKeep, ReadsKeep DEF Next

-----------------------------------------------------------------------------
(***************************************************************************)
(* Numbers and repetition.                                                 *)
(***************************************************************************)
\* Every set of natural numbers that is not empty has a least one.
LEMMA LeastNumber ==
  ASSUME NEW T \in SUBSET Nat, T # {}
  PROVE  \E m \in T : \A k \in T : m <= k
<1> DEFINE R == OpToRel(<, Nat)
<1>1. IsWellFoundedOn(R, Nat)
  BY NatLessThanWellFounded
<1>2. PICK m \in T : \A k \in T : <<k, m>> \notin R
  <2> HIDE DEF R
  <2> QED
    BY <1>1, WFMin
<1>3. \A k \in T : ~(k < m)
  BY <1>2 DEF OpToRel
<1> QED
  BY <1>3

\* Induction, stated for the set of the numbers that have the property.
LEMMA NumbersByStep ==
  ASSUME NEW T, 0 \in T, \A n \in Nat : n \in T => n + 1 \in T
  PROVE  Nat \subseteq T
<1> SUFFICES ASSUME Nat \ T # {}
             PROVE  FALSE
  OBVIOUS
<1>1. PICK m \in Nat \ T : \A k \in Nat \ T : m <= k
  BY LeastNumber
<1>2. m # 0 /\ m - 1 \in Nat /\ (m - 1) + 1 = m
  BY <1>1
<1>3. m - 1 \in T
  BY <1>1, <1>2
<1> QED
  BY <1>1, <1>2, <1>3

\* A function can be applied any number of times.
Iterated(S, f, s) == \E h \in [Nat -> S] : h[0] = s /\ \A n \in Nat : h[n + 1] = f[h[n]]

LEMMA Iterates ==
  ASSUME NEW S, NEW f \in [S -> S], NEW s \in S
  PROVE  Iterated(S, f, s)
<1> DEFINE Upto(h, n) ==
             h \in [0 .. n -> S] /\ h[0] = s /\ \A i \in 0 .. (n - 1) : h[i + 1] = f[h[i]]
<1>1. \A n \in Nat : \E h : Upto(h, n)
  <2> DEFINE T == {n \in Nat : \E h : Upto(h, n)}
  <2>1. 0 \in T
    <3>1. Upto([i \in 0 .. 0 |-> s], 0)
      OBVIOUS
    <3> QED
      BY <3>1
  <2>2. ASSUME NEW n \in Nat, n \in T
        PROVE  n + 1 \in T
    <3>1. PICK h : Upto(h, n)
      BY <2>2
    <3> DEFINE g == [i \in 0 .. (n + 1) |-> IF i \in 0 .. n THEN h[i] ELSE f[h[n]]]
    <3>2. g \in [0 .. (n + 1) -> S] /\ g[0] = s
      BY <3>1
    <3>3. ASSUME NEW i \in 0 .. n
          PROVE  g[i + 1] = f[g[i]]
      BY <3>1
    <3>4. Upto(g, n + 1)
      BY <3>2, <3>3
    <3>5. n + 1 \in Nat /\ \E x : Upto(x, n + 1)
      <4> HIDE DEF Upto, g
      <4> QED
        BY <3>4
    <3> QED
      BY <3>5
  <2> HIDE DEF T
  <2>3. Nat \subseteq T
    BY <2>1, <2>2, NumbersByStep
  <2> QED
    BY <2>3 DEF T
<1>2. ASSUME NEW n \in Nat, NEW g, Upto(g, n), NEW h, Upto(h, n + 1)
      PROVE  g[n] = h[n]
  <2> DEFINE T == {i \in Nat : i <= n => g[i] = h[i]}
  <2>1. 0 \in T
    BY <1>2
  <2>2. ASSUME NEW i \in Nat, i \in T
        PROVE  i + 1 \in T
    BY <1>2, <2>2
  <2> HIDE DEF T
  <2>3. Nat \subseteq T
    BY <2>1, <2>2, NumbersByStep
  <2> QED
    BY <2>3 DEF T
<1> DEFINE upto(n) == CHOOSE h : Upto(h, n)
           whole == [n \in Nat |-> upto(n)[n]]
<1>3. \A n \in Nat : Upto(upto(n), n)
  <2> HIDE DEF Upto
  <2> QED
    BY <1>1
<1> HIDE DEF upto
<1>4. whole \in [Nat -> S] /\ whole[0] = s
  BY <1>3
<1>5. ASSUME NEW n \in Nat
      PROVE  whole[n + 1] = f[whole[n]]
  <2>1. Upto(upto(n), n) /\ Upto(upto(n + 1), n + 1)
    BY <1>3
  <2>2. upto(n)[n] = upto(n + 1)[n]
    BY <1>2, <2>1
  <2>3. upto(n + 1)[n + 1] = f[upto(n + 1)[n]]
    BY <2>1
  <2> QED
    BY <2>2, <2>3
<1> QED
  BY <1>4, <1>5 DEF Iterated

-----------------------------------------------------------------------------
(***************************************************************************)
(* The ancestors of a department, by level.                                *)
(***************************************************************************)
\* Above[x] is the parent; above a root, and above None, is None.
Above == [x \in MaybeDepartment |-> IF x = None THEN None ELSE parent[x]]

\* a[n][x] is the ancestor of x n levels up.
Ancestry(a) ==
  /\ a \in [Nat -> [MaybeDepartment -> MaybeDepartment]]
  /\ \A x \in MaybeDepartment : a[0][x] = x
  /\ \A n \in Nat, x \in MaybeDepartment : a[n + 1][x] = Above[a[n][x]]

LEMMA Ancestors ==
  ASSUME TypeOK
  PROVE  \E a : Ancestry(a)
<1> DEFINE Maps == [MaybeDepartment -> MaybeDepartment]
           f == [m \in Maps |-> [x \in MaybeDepartment |-> Above[m[x]]]]
           id == [x \in MaybeDepartment |-> x]
<1>1. Above \in Maps
  BY DEF Above, TypeOK, MaybeDepartment
<1>2. f \in [Maps -> Maps] /\ id \in Maps
  BY <1>1
<1> HIDE DEF f, id
<1>3. PICK a \in [Nat -> Maps] : a[0] = id /\ \A n \in Nat : a[n + 1] = f[a[n]]
  <2> HIDE DEF Maps
  <2>1. Iterated(Maps, f, id)
    BY <1>2, Iterates
  <2> QED
    BY <2>1 DEF Iterated
<1>4. ASSUME NEW n \in Nat, NEW x \in MaybeDepartment
      PROVE  a[n + 1][x] = Above[a[n][x]]
  <2>1. a[n] \in Maps /\ a[n + 1] = f[a[n]]
    BY <1>3
  <2> QED
    BY <2>1 DEF f
<1>5. \A x \in MaybeDepartment : a[0][x] = x
  BY <1>3 DEF id
<1>6. Ancestry(a)
  BY <1>3, <1>4, <1>5 DEF Ancestry
<1> QED
  BY <1>6

\* i + m levels up is m levels up from i levels up.
LEMMA AncestrySum ==
  ASSUME NEW a, Ancestry(a), NEW i \in Nat, NEW m \in Nat, NEW x \in MaybeDepartment
  PROVE  a[i + m][x] = a[m][a[i][x]]
<1> DEFINE T == {k \in Nat : a[i + k][x] = a[k][a[i][x]]}
<1>y. a[i][x] \in MaybeDepartment
  BY DEF Ancestry
<1>0. \A k \in Nat : a[k + 1][x] = Above[a[k][x]] /\ a[k + 1][a[i][x]] = Above[a[k][a[i][x]]]
  BY <1>y DEF Ancestry
<1>1. 0 \in T
  BY <1>y DEF Ancestry
<1>2. ASSUME NEW k \in Nat, k \in T
      PROVE  k + 1 \in T
  <2>1. a[(i + k) + 1][x] = Above[a[i + k][x]] /\ (i + k) + 1 = i + (k + 1)
    BY <1>0
  <2> QED
    BY <1>0, <1>2, <2>1
<1> HIDE DEF T
<1>3. Nat \subseteq T
  BY <1>1, <1>2, NumbersByStep
<1> QED
  BY <1>3 DEF T

LEMMA AboveTheRoot ==
  ASSUME NEW a, Ancestry(a), NEW n \in Nat, NEW x \in MaybeDepartment, Above[a[n][x]] = None,
         NEW k \in Nat, k > n
  PROVE  a[k][x] = None
<1> DEFINE T == {i \in Nat : a[(n + 1) + i][x] = None}
<1>1. 0 \in T
  BY DEF Ancestry
<1>2. ASSUME NEW i \in Nat, i \in T
      PROVE  i + 1 \in T
  <2>1. (n + 1) + i \in Nat /\ a[((n + 1) + i) + 1][x] = Above[a[(n + 1) + i][x]]
    <3> DEFINE j == (n + 1) + i
    <3>1. j \in Nat
      OBVIOUS
    <3> HIDE DEF j
    <3>2. a[j + 1][x] = Above[a[j][x]]
      BY <3>1 DEF Ancestry
    <3> QED
      BY <3>1, <3>2 DEF j
  <2>2. Above[None] = None
    BY DEF Above, MaybeDepartment
  <2> QED
    BY <1>2, <2>1, <2>2
<1> HIDE DEF T
<1>3. Nat \subseteq T
  BY <1>1, <1>2, NumbersByStep
<1>4. k - (n + 1) \in Nat /\ (n + 1) + (k - (n + 1)) = k
  OBVIOUS
<1> QED
  BY <1>3, <1>4 DEF T

-----------------------------------------------------------------------------
(***************************************************************************)
(* build_department_tree.  What its recursion computes from any department *)
(* with any set of departments seen is what the first step finds that does *)
(* not go on; so the recursion has a solution, and TreeWalk is one.        *)
(***************************************************************************)
\* The walk from c that has visited v, n steps later: what it has seen and what
\* it meets.
Seen(a, c, v, n) == v \cup {a[i][c] : i \in 0 .. (n - 1)}

Verdict(a, c, v, n) ==
  IF Above[a[n][c]] = None THEN "root"
  ELSE IF a[n][c] \in Seen(a, c, v, n) THEN "cycle"
  ELSE IF TooDeep(Cardinality(Seen(a, c, v, n)) + 2) THEN "limit"
  ELSE "on"

GoesOn(a, c, v, n) == \A k \in 0 .. (n - 1) : Verdict(a, c, v, k) = "on"

Ends(a, c, v, verdict) == \E n \in Nat : Verdict(a, c, v, n) = verdict /\ GoesOn(a, c, v, n)

\* The recursion of TreeWalk.
WalkFrom(up, c, v) ==
  IF parent[c] = None THEN "root"
  ELSE IF c \in v THEN "cycle"
  ELSE IF TooDeep(Cardinality(v) + 2) THEN "limit"
  ELSE up[v \cup {c}][parent[c]]

Walks(up) ==
  up = [v \in SUBSET Departments |-> [c \in Departments |-> WalkFrom(up, c, v)]]

\* Without its first step the walk is the walk from the parent.
LEMMA VerdictMoves ==
  ASSUME TypeOK, NEW a, Ancestry(a), NEW c \in Departments, NEW v \in SUBSET Departments,
         parent[c] # None, NEW n \in Nat
  PROVE  Verdict(a, c, v, n + 1) = Verdict(a, parent[c], v \cup {c}, n)
<1>1. ASSUME NEW i \in Nat
      PROVE  a[i + 1][c] = a[i][parent[c]]
  <2>1. a[1 + i][c] = a[i][a[1][c]]
    <3>1. c \in MaybeDepartment /\ 1 \in Nat
      BY DEF MaybeDepartment
    <3> QED
      BY <3>1, AncestrySum
  <2>2. a[0][c] = c /\ a[0 + 1][c] = Above[a[0][c]]
    BY DEF Ancestry, MaybeDepartment
  <2>3. Above[c] = parent[c]
    BY NoneIsNoRow DEF Above, MaybeDepartment
  <2> QED
    BY <2>1, <2>2, <2>3
<1>2. {a[i][c] : i \in 0 .. n} = {c} \cup {a[i][parent[c]] : i \in 0 .. (n - 1)}
  <2>1. a[0][c] = c
    BY DEF Ancestry, MaybeDepartment
  <2>2. ASSUME NEW i \in 0 .. n
        PROVE  a[i][c] \in {c} \cup {a[k][parent[c]] : k \in 0 .. (n - 1)}
    <3>1. CASE i = 0
      BY <2>1, <3>1
    <3>2. CASE i # 0
      <4>1. i - 1 \in 0 .. (n - 1) /\ i - 1 \in Nat /\ (i - 1) + 1 = i
        BY <3>2
      <4> QED
        BY <1>1, <4>1
    <3> QED
      BY <3>1, <3>2
  <2>3. ASSUME NEW k \in 0 .. (n - 1)
        PROVE  a[k][parent[c]] \in {a[i][c] : i \in 0 .. n}
    BY <1>1
  <2>4. c \in {a[i][c] : i \in 0 .. n}
    BY <2>1
  <2> QED
    BY <2>2, <2>3, <2>4
<1>3. Seen(a, c, v, n + 1) = Seen(a, parent[c], v \cup {c}, n)
  <2>1. (n + 1) - 1 = n
    OBVIOUS
  <2> QED
    BY <1>2, <2>1 DEF Seen
<1> QED
  BY <1>1, <1>3 DEF Verdict

LEMMA FirstVerdict ==
  ASSUME NEW a, Ancestry(a), NEW c \in Departments, NEW v \in SUBSET Departments
  PROVE  /\ Verdict(a, c, v, 0) =
              IF parent[c] = None THEN "root"
              ELSE IF c \in v THEN "cycle"
              ELSE IF TooDeep(Cardinality(v) + 2) THEN "limit" ELSE "on"
         /\ Verdict(a, c, v, 0) # "on" =>
              \A x \in {"root", "cycle", "limit"} :
                Ends(a, c, v, x) <=> x = Verdict(a, c, v, 0)
<1>1. a[0][c] = c
  BY DEF Ancestry, MaybeDepartment
<1>2. Above[c] = parent[c]
  BY NoneIsNoRow DEF Above, MaybeDepartment
<1>3. Seen(a, c, v, 0) = v
  BY DEF Seen
<1>4. Verdict(a, c, v, 0) =
        IF parent[c] = None THEN "root"
        ELSE IF c \in v THEN "cycle"
        ELSE IF TooDeep(Cardinality(v) + 2) THEN "limit" ELSE "on"
  BY <1>1, <1>2, <1>3 DEF Verdict
<1>5. ASSUME Verdict(a, c, v, 0) # "on", NEW x \in {"root", "cycle", "limit"}
      PROVE  Ends(a, c, v, x) <=> x = Verdict(a, c, v, 0)
  <2>1. GoesOn(a, c, v, 0)
    BY DEF GoesOn
  <2>2. ASSUME NEW n \in Nat, GoesOn(a, c, v, n)
        PROVE  n = 0
    BY <1>5, <2>2 DEF GoesOn
  <2> QED
    BY <2>1, <2>2 DEF Ends
<1> QED
  BY <1>4, <1>5

LEMMA EndsMove ==
  ASSUME TypeOK, NEW a, Ancestry(a), NEW c \in Departments, NEW v \in SUBSET Departments,
         Verdict(a, c, v, 0) = "on", NEW x \in {"root", "cycle", "limit"}
  PROVE  Ends(a, c, v, x) <=> Ends(a, parent[c], v \cup {c}, x)
<1>1. parent[c] # None
  BY FirstVerdict
<1>2. \A n \in Nat : Verdict(a, c, v, n + 1) = Verdict(a, parent[c], v \cup {c}, n)
  BY <1>1, VerdictMoves
<1>3. ASSUME NEW n \in Nat, Verdict(a, c, v, n) = x, GoesOn(a, c, v, n)
      PROVE  Ends(a, parent[c], v \cup {c}, x)
  <2>1. n # 0 /\ n - 1 \in Nat /\ (n - 1) + 1 = n
    BY <1>3
  <2>2. Verdict(a, parent[c], v \cup {c}, n - 1) = x
    BY <1>2, <1>3, <2>1
  <2>3. ASSUME NEW k \in 0 .. ((n - 1) - 1)
        PROVE  Verdict(a, parent[c], v \cup {c}, k) = "on"
    <3>1. k + 1 \in 0 .. (n - 1) /\ k \in Nat
      BY <2>1
    <3> QED
      BY <1>2, <1>3, <3>1 DEF GoesOn
  <2> QED
    BY <2>1, <2>2, <2>3 DEF Ends, GoesOn
<1>4. ASSUME NEW n \in Nat, Verdict(a, parent[c], v \cup {c}, n) = x,
             GoesOn(a, parent[c], v \cup {c}, n)
      PROVE  Ends(a, c, v, x)
  <2>1. Verdict(a, c, v, n + 1) = x
    BY <1>2, <1>4
  <2>2. ASSUME NEW k \in 0 .. ((n + 1) - 1)
        PROVE  Verdict(a, c, v, k) = "on"
    <3>1. CASE k = 0
      BY <3>1
    <3>2. CASE k # 0
      <4>1. k - 1 \in 0 .. (n - 1) /\ k - 1 \in Nat /\ (k - 1) + 1 = k
        BY <3>2
      <4> QED
        BY <1>2, <1>4, <4>1 DEF GoesOn
    <3> QED
      BY <3>1, <3>2
  <2>3. n + 1 \in Nat
    OBVIOUS
  <2> QED
    BY <2>1, <2>2, <2>3 DEF Ends, GoesOn
<1> QED
  BY <1>3, <1>4 DEF Ends

\* The recursion has a solution, so TreeWalk is one.
LEMMA WalkExists ==
  ASSUME TypeOK
  PROVE  \E up : Walks(up)
<1>1. PICK a : Ancestry(a)
  BY Ancestors
<1> DEFINE Outcome(c, v) ==
             IF Ends(a, c, v, "root") THEN "root"
             ELSE IF Ends(a, c, v, "cycle") THEN "cycle" ELSE "limit"
           g == [v \in SUBSET Departments |-> [c \in Departments |-> Outcome(c, v)]]
<1>2. ASSUME NEW v \in SUBSET Departments, NEW c \in Departments
      PROVE  Outcome(c, v) = WalkFrom(g, c, v)
  <2>1. CASE Verdict(a, c, v, 0) # "on"
    <3>1. Outcome(c, v) = Verdict(a, c, v, 0)
      <4>1. Verdict(a, c, v, 0) \in {"root", "cycle", "limit"}
        BY <2>1 DEF Verdict
      <4> QED
        BY <1>1, <2>1, <4>1, FirstVerdict
    <3>2. WalkFrom(g, c, v) = Verdict(a, c, v, 0)
      <4> HIDE DEF g
      <4> QED
        BY <1>1, <2>1, FirstVerdict DEF WalkFrom
    <3> QED
      BY <3>1, <3>2
  <2>2. CASE Verdict(a, c, v, 0) = "on"
    <3>1. parent[c] \in Departments /\ v \cup {c} \in SUBSET Departments
      <4>1. parent[c] # None
        BY <1>1, <2>2, FirstVerdict
      <4> QED
        BY <4>1 DEF TypeOK
    <3>2. WalkFrom(g, c, v) = g[v \cup {c}][parent[c]]
      <4> HIDE DEF g
      <4> QED
        BY <1>1, <2>2, FirstVerdict DEF WalkFrom
    <3>3. g[v \cup {c}][parent[c]] = Outcome(parent[c], v \cup {c})
      <4> HIDE DEF Outcome
      <4> QED
        BY <3>1
    <3>4. Outcome(parent[c], v \cup {c}) = Outcome(c, v)
      BY <1>1, <2>2, EndsMove
    <3> QED
      BY <3>2, <3>3, <3>4
  <2> QED
    BY <2>1, <2>2
<1>3. Walks(g)
  <2> HIDE DEF Outcome
  <2>1. g = [v \in SUBSET Departments |-> [c \in Departments |-> Outcome(c, v)]]
    OBVIOUS
  <2> HIDE DEF g
  <2>2. \A v \in SUBSET Departments, c \in Departments : Outcome(c, v) = WalkFrom(g, c, v)
    BY <1>2
  <2>3. [v \in SUBSET Departments |-> [c \in Departments |-> Outcome(c, v)]]
          = [v \in SUBSET Departments |-> [c \in Departments |-> WalkFrom(g, c, v)]]
    BY <2>2
  <2> QED
    BY <2>1, <2>3 DEF Walks
<1> QED
  BY <1>3

LEMMA TreeWalks ==
  ASSUME TypeOK, NEW d \in Departments
  PROVE  \E up : Walks(up) /\ TreeWalk(d) = up[{}][d]
<1> DEFINE u == CHOOSE up : Walks(up)
<1>1. TreeWalk(d) = u[{}][d]
  BY DEF TreeWalk, Walks, WalkFrom
<1>2. Walks(u)
  BY WalkExists, Zenon
<1> QED
  BY <1>1, <1>2

\* As long as the walk from d goes on, it is on the line of d.
LEMMA WalkFollows ==
  ASSUME TypeOK, NEW a, Ancestry(a), NEW up, Walks(up), NEW d \in Departments,
         NEW n \in Nat, GoesOn(a, d, {}, n)
  PROVE  /\ a[n][d] \in Departments
         /\ Seen(a, d, {}, n) \in SUBSET Departments
         /\ up[{}][d] = up[Seen(a, d, {}, n)][a[n][d]]
<1> DEFINE At(k) == /\ a[k][d] \in Departments
                    /\ Seen(a, d, {}, k) \in SUBSET Departments
                    /\ up[{}][d] = up[Seen(a, d, {}, k)][a[k][d]]
           T == {k \in Nat : k <= n => At(k)}
<1>1. 0 \in T
  <2>1. a[0][d] = d
    BY DEF Ancestry, MaybeDepartment
  <2>2. Seen(a, d, {}, 0) = {}
    BY DEF Seen
  <2> QED
    BY <2>1, <2>2
<1>2. ASSUME NEW k \in Nat, k \in T
      PROVE  k + 1 \in T
  <2> SUFFICES ASSUME k + 1 <= n
               PROVE  At(k + 1)
    OBVIOUS
  <2> DEFINE c == a[k][d]
             v == Seen(a, d, {}, k)
  <2>1. c \in Departments /\ v \in SUBSET Departments /\ up[{}][d] = up[v][c]
    BY <1>2
  <2>2. Verdict(a, d, {}, k) = "on"
    <3>1. k \in 0 .. (n - 1)
      OBVIOUS
    <3> QED
      BY <3>1 DEF GoesOn
  <2>3. Above[c] # None /\ c \notin v /\ ~TooDeep(Cardinality(v) + 2)
    BY <2>2 DEF Verdict
  <2>4. a[k + 1][d] = Above[c]
    BY DEF Ancestry, MaybeDepartment
  <2>5. Above[c] = parent[c] /\ parent[c] \in Departments
    BY <2>1, <2>3, NoneIsNoRow DEF Above, MaybeDepartment, TypeOK
  <2>6. Seen(a, d, {}, k + 1) = v \cup {c}
    <3>1. 0 .. ((k + 1) - 1) = (0 .. (k - 1)) \cup {k}
      OBVIOUS
    <3> QED
      BY <3>1 DEF Seen
  <2> HIDE DEF c, v
  <2>7. up[v][c] = WalkFrom(up, c, v)
    BY <2>1 DEF Walks
  <2>8. WalkFrom(up, c, v) = up[v \cup {c}][parent[c]]
    BY <2>3, <2>5 DEF WalkFrom
  <2> QED
    BY <2>1, <2>4, <2>5, <2>6, <2>7, <2>8
<1> HIDE DEF T
<1>3. Nat \subseteq T
  BY <1>1, <1>2, NumbersByStep
<1> QED
  BY <1>3 DEF T

\* A walk that meets nobody twice has seen one department for each step.
LEMMA SeenCounts ==
  ASSUME NEW a, NEW d, NEW n \in Nat, \A k \in 0 .. (n - 1) : a[k][d] \notin Seen(a, d, {}, k)
  PROVE  IsFiniteSet(Seen(a, d, {}, n)) /\ Cardinality(Seen(a, d, {}, n)) = n
<1> DEFINE T == {k \in Nat : k <= n => IsFiniteSet(Seen(a, d, {}, k))
                                       /\ Cardinality(Seen(a, d, {}, k)) = k}
<1>1. 0 \in T
  <2>1. Seen(a, d, {}, 0) = {}
    BY DEF Seen
  <2> QED
    BY <2>1, FS_EmptySet
<1>2. ASSUME NEW k \in Nat, k \in T
      PROVE  k + 1 \in T
  <2> SUFFICES ASSUME k + 1 <= n
               PROVE  IsFiniteSet(Seen(a, d, {}, k + 1))
                      /\ Cardinality(Seen(a, d, {}, k + 1)) = k + 1
    OBVIOUS
  <2>1. IsFiniteSet(Seen(a, d, {}, k)) /\ Cardinality(Seen(a, d, {}, k)) = k
    BY <1>2
  <2>2. Seen(a, d, {}, k + 1) = Seen(a, d, {}, k) \cup {a[k][d]}
    <3>1. 0 .. ((k + 1) - 1) = (0 .. (k - 1)) \cup {k}
      OBVIOUS
    <3> QED
      BY <3>1 DEF Seen
  <2>3. a[k][d] \notin Seen(a, d, {}, k)
    <3>1. k \in 0 .. (n - 1)
      OBVIOUS
    <3> QED
      BY <3>1
  <2> QED
    BY <2>1, <2>2, <2>3, FS_AddElement
<1> HIDE DEF T
<1>3. Nat \subseteq T
  BY <1>1, <1>2, NumbersByStep
<1> QED
  BY <1>3 DEF T

\* The root of d is n levels up.
RootAt(a, d, n) == Above[a[n][d]] = None /\ \A k \in 0 .. (n - 1) : Above[a[k][d]] # None

LEMMA RootExists ==
  ASSUME NEW a, NEW d, NEW m \in Nat, Above[a[m][d]] = None
  PROVE  \E n \in 0 .. m : RootAt(a, d, n)
<1> DEFINE T == {n \in Nat : Above[a[n][d]] = None}
<1>1. PICK n \in T : \A k \in T : n <= k
  BY LeastNumber
<1>2. n \in 0 .. m /\ \A k \in 0 .. (n - 1) : k \notin T
  BY <1>1
<1> QED
  BY <1>1, <1>2 DEF RootAt

\* Nobody is twice on a line that ends at a root.
LEMMA LineHasNoRepeat ==
  ASSUME NEW a, Ancestry(a), NEW d \in Departments, NEW n \in Nat, RootAt(a, d, n),
         NEW k \in 0 .. n
  PROVE  a[k][d] \notin Seen(a, d, {}, k)
<1> SUFFICES ASSUME NEW i \in 0 .. (k - 1), a[i][d] = a[k][d]
             PROVE  FALSE
  BY DEF Seen
<1> DEFINE m == n - k
<1>1. m \in Nat /\ k + m = n /\ i + m \in 0 .. (n - 1) /\ i \in Nat /\ k \in Nat
  OBVIOUS
<1>2. d \in MaybeDepartment
  BY DEF MaybeDepartment
<1> HIDE DEF m
<1>s. \A p, q \in Nat : a[p + q][d] = a[q][a[p][d]]
  BY <1>2, AncestrySum
<1>3. a[k + m][d] = a[m][a[k][d]]
  BY <1>1, <1>s
<1>4. a[i + m][d] = a[m][a[i][d]]
  BY <1>1, <1>s
<1>5. a[i + m][d] = a[n][d]
  BY <1>1, <1>3, <1>4
<1> QED
  BY <1>1, <1>5 DEF RootAt

\* The walk from d ends at the root if and only if that is fewer than
\* MaxTreeDepth levels up.
LEMMA WalkMeetsRoot ==
  ASSUME TypeOK, NEW a, Ancestry(a), NEW d \in Departments
  PROVE  TreeWalk(d) = "root" <=> \E n \in 0 .. (MaxTreeDepth - 1) : RootAt(a, d, n)
<1>0. PICK up : Walks(up) /\ TreeWalk(d) = up[{}][d]
  BY TreeWalks
<1>m. MaxTreeDepth \in Nat /\ MaxTreeDepth - 1 \in Nat
  BY MaxTreeDepthIsPositive
<1>1. ASSUME NEW n \in 0 .. (MaxTreeDepth - 1), RootAt(a, d, n)
      PROVE  TreeWalk(d) = "root"
  <2>0. n \in Nat
    BY <1>m
  <2>1. \A k \in 0 .. n : a[k][d] \notin Seen(a, d, {}, k)
    BY <1>1, <2>0, LineHasNoRepeat
  <2>2. ASSUME NEW k \in 0 .. (n - 1)
        PROVE  Verdict(a, d, {}, k) = "on"
    <3>1. k \in Nat /\ k \in 0 .. n /\ \A i \in 0 .. (k - 1) : i \in 0 .. n
      BY <2>0
    <3>2. Cardinality(Seen(a, d, {}, k)) = k
      BY <2>1, <3>1, SeenCounts
    <3>3. ~TooDeep(k + 2)
      BY <1>m, <2>0 DEF TooDeep
    <3>4. Above[a[k][d]] # None
      BY <1>1 DEF RootAt
    <3> QED
      BY <2>1, <3>1, <3>2, <3>3, <3>4 DEF Verdict
  <2>3. GoesOn(a, d, {}, n)
    BY <2>2 DEF GoesOn
  <2> DEFINE c == a[n][d]
             v == Seen(a, d, {}, n)
  <2>4. c \in Departments /\ v \in SUBSET Departments /\ up[{}][d] = up[v][c]
    BY <1>0, <2>0, <2>3, WalkFollows
  <2>5. Above[c] = None
    BY <1>1 DEF RootAt
  <2> HIDE DEF c, v
  <2>6. parent[c] = None
    BY <2>4, <2>5, NoneIsNoRow DEF Above, MaybeDepartment
  <2>7. up[v][c] = WalkFrom(up, c, v)
    BY <1>0, <2>4 DEF Walks
  <2> QED
    BY <1>0, <2>4, <2>6, <2>7 DEF WalkFrom
<1>2. ASSUME ~ \E n \in 0 .. (MaxTreeDepth - 1) : RootAt(a, d, n)
      PROVE  TreeWalk(d) # "root"
  <2>1. ASSUME NEW k \in 0 .. (MaxTreeDepth - 1)
        PROVE  Above[a[k][d]] # None
    <3>1. SUFFICES ASSUME Above[a[k][d]] = None
                   PROVE  FALSE
      OBVIOUS
    <3>2. PICK n \in 0 .. k : RootAt(a, d, n)
      BY <1>m, <3>1, RootExists
    <3> QED
      BY <1>m, <1>2, <3>2
  <2> DEFINE T == {n \in 0 .. (MaxTreeDepth - 1) : Verdict(a, d, {}, n) # "on"}
  <2>2. T # {}
    <3> SUFFICES ASSUME \A n \in 0 .. (MaxTreeDepth - 1) : Verdict(a, d, {}, n) = "on"
                 PROVE  FALSE
      OBVIOUS
    <3> DEFINE n == MaxTreeDepth - 1
    <3>1. n \in Nat /\ n \in 0 .. n
      BY <1>m
    <3>2. \A k \in 0 .. n : a[k][d] \notin Seen(a, d, {}, k)
      BY DEF Verdict
    <3>3. ~TooDeep(Cardinality(Seen(a, d, {}, n)) + 2)
      BY <3>1 DEF Verdict
    <3>4. Cardinality(Seen(a, d, {}, n)) = n
      <4>1. \A k \in 0 .. (n - 1) : k \in 0 .. n
        BY <3>1
      <4> HIDE DEF n
      <4> QED
        BY <3>1, <3>2, <4>1, SeenCounts
    <3> QED
      BY <1>m, <3>3, <3>4 DEF TooDeep
  <2>3. PICK n \in T : \A k \in T : n <= k
    <3>1. T \in SUBSET Nat
      BY <1>m
    <3> HIDE DEF T
    <3> QED
      BY <2>2, <3>1, LeastNumber
  <2>4. n \in Nat /\ GoesOn(a, d, {}, n)
    BY <1>m, <2>3 DEF GoesOn
  <2> DEFINE c == a[n][d]
             v == Seen(a, d, {}, n)
  <2>5. c \in Departments /\ v \in SUBSET Departments /\ up[{}][d] = up[v][c]
    BY <1>0, <2>4, WalkFollows
  <2>6. Above[c] # None /\ (c \in v \/ TooDeep(Cardinality(v) + 2))
    BY <2>1, <2>3 DEF Verdict
  <2> HIDE DEF c, v
  <2>7. parent[c] # None
    BY <2>5, <2>6, NoneIsNoRow DEF Above, MaybeDepartment
  <2>8. up[v][c] = WalkFrom(up, c, v)
    BY <1>0, <2>5 DEF Walks
  <2> QED
    BY <1>0, <2>5, <2>6, <2>7, <2>8 DEF WalkFrom
<1> QED
  BY <1>1, <1>2

-----------------------------------------------------------------------------
(***************************************************************************)
(* Lines and cycles.                                                       *)
(***************************************************************************)
\* A set of departments that has the parents of its members.
Closed(S) == S \subseteq departments /\ \A x \in S : parent[x] \in S \cup {None}

LEMMA ClosedUpwards ==
  ASSUME TypeOK, NEW a, Ancestry(a), NEW S, Closed(S), NEW d \in S, NEW n \in Nat
  PROVE  a[n][d] \in S \cup {None}
<1> DEFINE T == {k \in Nat : a[k][d] \in S \cup {None}}
<1>0. S \subseteq MaybeDepartment /\ None \notin S /\ d \in MaybeDepartment
  BY NoneIsNoRow DEF Closed, TypeOK, MaybeDepartment
<1>1. 0 \in T
  BY <1>0 DEF Ancestry
<1>2. ASSUME NEW k \in Nat, k \in T
      PROVE  k + 1 \in T
  <2>1. a[k + 1][d] = Above[a[k][d]] /\ a[k][d] \in S \cup {None}
    BY <1>0, <1>2 DEF Ancestry
  <2>2. \A x \in S \cup {None} : Above[x] \in S \cup {None}
    BY <1>0 DEF Closed, Above, MaybeDepartment
  <2> QED
    BY <2>1, <2>2
<1> HIDE DEF T
<1>3. Nat \subseteq T
  BY <1>1, <1>2, NumbersByStep
<1> QED
  BY <1>3 DEF T

\* The line of d: d and its ancestors.
LEMMA LineIsAncestors ==
  ASSUME TypeOK, NEW a, Ancestry(a), NEW d \in departments
  PROVE  /\ Line(d) = {a[n][d] : n \in Nat} \ {None}
         /\ Closed(Line(d))
<1> DEFINE L == {a[n][d] : n \in Nat} \ {None}
<1>0. Closed(departments) /\ d \in MaybeDepartment /\ None \notin departments
  BY NoneIsNoRow DEF Closed, TypeOK, MaybeDepartment
<1>1. L \subseteq departments
  BY <1>0, ClosedUpwards
<1>2. Closed(L)
  <2>1. ASSUME NEW x \in L
        PROVE  parent[x] \in L \cup {None}
    <3>1. PICK n \in Nat : x = a[n][d]
      OBVIOUS
    <3>2. a[n + 1][d] = Above[x]
      BY <1>0, <3>1 DEF Ancestry
    <3>3. Above[x] = parent[x]
      BY <1>1 DEF Above, MaybeDepartment, TypeOK
    <3>4. n + 1 \in Nat
      OBVIOUS
    <3> QED
      BY <3>2, <3>3, <3>4
  <2> HIDE DEF L
  <2> QED
    BY <1>1, <2>1 DEF Closed
<1>3. d \in L
  BY <1>0 DEF Ancestry
<1>4. ASSUME NEW x \in L, NEW S \in SUBSET departments, d \in S,
             \A y \in S : parent[y] \in S \cup {None}
      PROVE  x \in S
  <2>1. PICK n \in Nat : x = a[n][d]
    OBVIOUS
  <2>2. Closed(S)
    BY <1>4 DEF Closed
  <2> QED
    BY <1>4, <2>1, <2>2, ClosedUpwards
<1>5. L \subseteq Line(d)
  <2> HIDE DEF L
  <2> QED
    BY <1>1, <1>4 DEF Line
<1>6. Line(d) \subseteq L
  <2> HIDE DEF L
  <2> QED
    BY <1>2, <1>3 DEF Line, Closed
<1> QED
  BY <1>2, <1>5, <1>6

LEMMA LineLength ==
  ASSUME TypeOK, NEW a, Ancestry(a), NEW d \in departments, NEW n \in Nat, RootAt(a, d, n)
  PROVE  Cardinality(Line(d)) = n + 1
<1>0. d \in Departments /\ d \in MaybeDepartment
  BY DEF TypeOK, MaybeDepartment
<1>1. \A k \in 0 .. n : a[k][d] \notin Seen(a, d, {}, k)
  BY <1>0, LineHasNoRepeat
<1>2. Cardinality(Seen(a, d, {}, n + 1)) = n + 1
  <2>1. n + 1 \in Nat /\ 0 .. ((n + 1) - 1) = 0 .. n
    OBVIOUS
  <2> QED
    BY <1>1, <2>1, SeenCounts
<1>3. Seen(a, d, {}, n + 1) = Line(d)
  <2>1. \A k \in Nat : k > n => a[k][d] = None
    BY <1>0, AboveTheRoot DEF RootAt
  <2>2. \A k \in 0 .. n : a[k][d] # None
    <3> SUFFICES ASSUME NEW k \in 0 .. n, a[k][d] = None
                 PROVE  FALSE
      OBVIOUS
    <3>1. Above[None] = None
      BY DEF Above, MaybeDepartment
    <3>2. k # 0
      BY <1>0, NoneIsNoRow DEF Ancestry
    <3>3. k - 1 \in 0 .. (n - 1) /\ k - 1 \in Nat /\ (k - 1) + 1 = k
      BY <3>2
    <3>4. a[(k - 1) + 1][d] = Above[a[k - 1][d]]
      BY <1>0, <3>3 DEF Ancestry
    <3> QED
      BY <3>3, <3>4 DEF RootAt
  <2>3. 0 .. ((n + 1) - 1) = 0 .. n
    OBVIOUS
  <2>4. Seen(a, d, {}, n + 1) = {a[k][d] : k \in 0 .. n}
    BY <2>3 DEF Seen
  <2>5. \A k \in Nat : k \in 0 .. n \/ k > n
    OBVIOUS
  <2>6. {a[k][d] : k \in 0 .. n} = {a[k][d] : k \in Nat} \ {None}
    BY <2>1, <2>2, <2>5
  <2> QED
    BY <2>4, <2>6, LineIsAncestors
<1> QED
  BY <1>2, <1>3

\* Without a cycle every line ends at a root, and the other way round.
LEMMA AcyclicMeansRooted ==
  ASSUME TypeOK, NEW a, Ancestry(a)
  PROVE  TreeIsAcyclic <=> \A d \in departments : \E n \in Nat : RootAt(a, d, n)
<1>1. ASSUME TreeIsAcyclic, NEW d \in departments
      PROVE  \E n \in Nat : RootAt(a, d, n)
  <2>1. Closed(Line(d)) /\ Line(d) = {a[n][d] : n \in Nat} \ {None}
    BY LineIsAncestors
  <2>2. d \in MaybeDepartment /\ d # None
    BY NoneIsNoRow DEF TypeOK, MaybeDepartment
  <2>3. d \in Line(d)
    BY <2>1, <2>2 DEF Ancestry
  <2>4. PICK x \in Line(d) : parent[x] = None
    BY <1>1, <2>1, <2>3 DEF TreeIsAcyclic, Closed
  <2>5. PICK m \in Nat : x = a[m][d]
    BY <2>1
  <2>6. Above[a[m][d]] = None
    BY <2>1, <2>4, <2>5 DEF Above, Closed, TypeOK, MaybeDepartment
  <2>7. PICK n \in 0 .. m : RootAt(a, d, n)
    BY <2>6, RootExists
  <2> QED
    BY <2>7
<1>2. ASSUME \A d \in departments : \E n \in Nat : RootAt(a, d, n), NEW S \in SUBSET departments,
             S # {}, \A d \in S : parent[d] \in S
      PROVE  FALSE
  <2>1. PICK d \in S : TRUE
    BY <1>2
  <2>2. PICK n \in Nat : RootAt(a, d, n)
    BY <1>2
  <2>3. Closed(S) /\ None \notin S /\ d \in MaybeDepartment
    BY <1>2, NoneIsNoRow DEF Closed, TypeOK, MaybeDepartment
  <2>4. a[n][d] \in S \cup {None} /\ a[n + 1][d] = None
    BY <2>2, <2>3, ClosedUpwards DEF RootAt, Ancestry
  <2> DEFINE T == {k \in Nat : a[k][d] \in S}
  <2>5. 0 \in T
    BY <2>3 DEF Ancestry
  <2>6. ASSUME NEW k \in Nat, k \in T
        PROVE  k + 1 \in T
    <3>1. a[k + 1][d] = Above[a[k][d]]
      BY <2>3 DEF Ancestry
    <3>2. Above[a[k][d]] = parent[a[k][d]]
      BY <2>3, <2>6 DEF Above, TypeOK, MaybeDepartment
    <3> QED
      BY <1>2, <2>6, <3>1, <3>2
  <2> HIDE DEF T
  <2>7. Nat \subseteq T
    BY <2>5, <2>6, NumbersByStep
  <2>8. n + 1 \in T
    BY <2>7
  <2> QED
    BY <2>3, <2>4, <2>8 DEF T
<1> QED
  BY <1>1, <1>2 DEF TreeIsAcyclic

LEMMA ServedMeansWithinLimit == TypeOK => TreeServedWithinLimit
<1> SUFFICES ASSUME TypeOK
             PROVE  TreeServedWithinLimit
  OBVIOUS
<1>1. PICK a : Ancestry(a)
  BY Ancestors
<1>2. departments \subseteq Departments
  BY DEF TypeOK
<1>3. DepartmentTreeServed <=>
        \A d \in departments : \E n \in 0 .. (MaxTreeDepth - 1) : RootAt(a, d, n)
  BY <1>1, <1>2, WalkMeetsRoot DEF DepartmentTreeServed
<1>4. TreeIsAcyclic <=> \A d \in departments : \E n \in Nat : RootAt(a, d, n)
  BY <1>1, AcyclicMeansRooted
<1>5. ASSUME NEW d \in departments, NEW n \in Nat, RootAt(a, d, n)
      PROVE  Cardinality(Line(d)) <= MaxTreeDepth <=> n \in 0 .. (MaxTreeDepth - 1)
  <2>1. Cardinality(Line(d)) = n + 1
    BY <1>1, <1>5, LineLength
  <2> QED
    BY <2>1, MaxTreeDepthIsPositive
<1>6. \A n \in 0 .. (MaxTreeDepth - 1) : n \in Nat
  BY MaxTreeDepthIsPositive
<1> QED
  BY <1>3, <1>4, <1>5, <1>6 DEF TreeServedWithinLimit

-----------------------------------------------------------------------------
(***************************************************************************)
(* Moves one at a time.  The walk of clean() is over when the move is      *)
(* saved; what it went by then still holds.                                *)
(***************************************************************************)

\* The new parent is still where it was read, or has become a root.
ReadsHold ==
  \A w \in Workers : MovesUnder(w) /\ task[w].op = "placing" =>
     parent[task[w].parent] \in {task[w].above, None}

\* d is not above p.
Apart(d, p) == \E S : Closed(S) /\ p \in S /\ d \notin S

ChecksHold ==
  \A w \in Workers : MovesUnder(w) /\ task[w].op = "placed" =>
     Apart(task[w].department, task[w].parent)

TreeInv == TreeIsAcyclic /\ ReadsHold /\ ChecksHold

\* A step that puts no department under another, except new ones.
LEMMA QuietKeepsMoves ==
  ASSUME TypeOK, TasksAreGrounded, TreeInv, NEW w \in Workers,
         \A v \in Workers \ {w} : task'[v] = task[v],
         task'[w] = task[w] \/ task'[w].op \notin {"placing", "placed"},
         departments \subseteq departments',
         \A x \in departments : parent'[x] \in {parent[x], None}
  PROVE  ReadsHold' /\ ChecksHold'
<1>1. ASSUME NEW v \in Workers, MovesUnder(v)'
      PROVE  /\ task'[v] = task[v] /\ MovesUnder(v)
             /\ task[v].department \in departments /\ task[v].parent \in departments
  <2>1. task'[v] = task[v]
    BY <1>1 DEF MovesUnder
  <2> QED
    BY <1>1, <2>1 DEF MovesUnder, TasksAreGrounded
<1>2. ReadsHold'
  <2> SUFFICES ASSUME NEW v \in Workers, MovesUnder(v)', task'[v].op = "placing"
               PROVE  parent'[task'[v].parent] \in {task'[v].above, None}
    BY DEF ReadsHold
  <2>1. parent[task[v].parent] \in {task[v].above, None}
    BY <1>1 DEF TreeInv, ReadsHold
  <2> QED
    BY <1>1, <2>1
<1>3. \A S : Closed(S) => Closed(S)'
  BY DEF Closed
<1>4. ChecksHold'
  <2> SUFFICES ASSUME NEW v \in Workers, MovesUnder(v)', task'[v].op = "placed"
               PROVE  \E S : Closed(S)' /\ task'[v].parent \in S /\ task'[v].department \notin S
    BY DEF ChecksHold, Apart
  <2>1. Apart(task[v].department, task[v].parent)
    BY <1>1 DEF TreeInv, ChecksHold
  <2> QED
    BY <1>1, <1>3, <2>1 DEF Apart
<1> QED
  BY <1>2, <1>4

\* A department that nothing is under yet closes no cycle.
LEMMA InsertKeepsTree ==
  ASSUME TypeOK, TreeIsAcyclic, NEW d \in Departments \ departments,
         departments' = departments \cup {d}, NEW p \in departments \cup {None},
         parent' = [parent EXCEPT ![d] = p]
  PROVE  TreeIsAcyclic'
<1> SUFFICES ASSUME NEW S \in SUBSET departments', S # {}, \A x \in S : parent'[x] \in S
             PROVE  FALSE
  BY DEF TreeIsAcyclic
<1>1. parent'[d] = p /\ \A x \in departments : parent'[x] = parent[x]
  BY DEF TypeOK
<1>2. None \notin departments' /\ \A x \in departments : parent[x] # d
  BY NoneIsNoRow DEF TypeOK
<1>3. \A x \in S \ {d} : parent[x] \in S \ {d}
  BY <1>1, <1>2
<1>4. S \ {d} # {} /\ S \ {d} \subseteq departments
  BY <1>1, <1>2
<1> QED
  BY <1>3, <1>4 DEF TreeIsAcyclic

\* A department moves to the top, or under one it is not above.
LEMMA MoveKeepsTree ==
  ASSUME TypeOK, TreeIsAcyclic, NEW d \in departments, NEW p \in departments \cup {None},
         p # None => Apart(d, p),
         departments' = departments, parent' = [parent EXCEPT ![d] = p]
  PROVE  TreeIsAcyclic'
<1> SUFFICES ASSUME NEW S \in SUBSET departments, S # {}, \A x \in S : parent'[x] \in S
             PROVE  FALSE
  BY DEF TreeIsAcyclic
<1>1. parent'[d] = p /\ \A x \in departments \ {d} : parent'[x] = parent[x]
  BY DEF TypeOK
<1>2. None \notin S
  BY NoneIsNoRow DEF TypeOK
<1>3. CASE d \notin S
  BY <1>1, <1>3 DEF TreeIsAcyclic
<1>4. CASE d \in S
  <2>1. p \in S /\ p # None
    BY <1>1, <1>2, <1>4
  <2>2. PICK R : Closed(R) /\ p \in R /\ d \notin R
    BY <2>1 DEF Apart
  <2>3. \A x \in S \cap R : parent[x] \in S \cap R
    BY <1>1, <1>2, <2>2 DEF Closed
  <2> QED
    BY <2>1, <2>2, <2>3 DEF TreeIsAcyclic
<1> QED
  BY <1>3, <1>4

\* clean() puts the department and its new parent apart.
LEMMA WalkPartsThem ==
  ASSUME TypeOK, NEW d \in departments, NEW p \in departments, NEW above \in MaybeDepartment,
         parent[p] \in {above, None}, WalkEnds(d, p, above)
  PROVE  Apart(d, p)
<1>0. p # None /\ d # p
  BY NoneIsNoRow DEF TypeOK, WalkEnds
<1>1. CASE parent[p] = None
  <2>1. Closed({p})
    BY <1>1 DEF Closed
  <2> QED
    BY <1>0, <2>1 DEF Apart
<1>2. CASE parent[p] # None
  <2>1. above = parent[p] /\ above \in departments
    BY <1>2 DEF TypeOK
  <2>2. d \notin Line(above)
    BY <1>0, <1>2, <2>1 DEF WalkEnds
  <2>3. Closed(Line(above)) /\ above \in Line(above)
    <3>1. PICK a : Ancestry(a)
      BY Ancestors
    <3>2. Closed(Line(above))
      BY <2>1, <3>1, LineIsAncestors
    <3>3. above \in Line(above)
      BY <2>1 DEF Line
    <3> QED
      BY <3>2, <3>3
  <2>4. Closed(Line(above) \cup {p})
    BY <2>1, <2>3 DEF Closed
  <2> QED
    BY <1>0, <2>2, <2>4 DEF Apart
<1> QED
  BY <1>1, <1>2

LEMMA InitTreeInv == Init => TreeInv
BY DEF Init, TreeInv, TreeIsAcyclic, ReadsHold, ChecksHold, MovesUnder, Idle

LEMMA SerialStepKeeps ==
  ASSUME IInv, TreeInv, SerialMoves, Next
  PROVE  TreeInv'
<1>0. TypeOK /\ TasksAreGrounded /\ TreeIsAcyclic
  BY DEF IInv, RowInv, TreeInv
<1>1. ASSUME NEW w \in Workers, NEW t \in Task, task' = [task EXCEPT ![w] = t],
             t.op \notin {"placing", "placed"}, UNCHANGED departmentVars
      PROVE  TreeInv'
  <2>1. task'[w] = t /\ \A v \in Workers \ {w} : task'[v] = task[v]
    BY <1>0, <1>1, TaskMoves
  <2>2. departments' = departments /\ parent' = parent
    BY <1>1 DEF departmentVars
  <2>3. ReadsHold' /\ ChecksHold'
    BY <1>0, <1>1, <2>1, <2>2, QuietKeepsMoves
  <2> QED
    BY <1>0, <2>2, <2>3 DEF TreeInv, TreeIsAcyclic
<1>2. ASSUME UNCHANGED <<departmentVars, task>>
      PROVE  TreeInv'
  BY <1>2
  DEF TreeInv, TreeIsAcyclic, ReadsHold, ChecksHold, MovesUnder, Apart, Closed, departmentVars
<1>3. ASSUME NEW w \in Workers, Finish(w), UNCHANGED departmentVars
      PROVE  TreeInv'
  BY <1>1, <1>3, Tasks DEF Finish, Idle
<1>4. ASSUME NEW w \in Workers, NEW d \in MaybeDepartment, NEW p \in MaybeDepartment,
             ParentRead(w, d, p)
      PROVE  TreeInv'
  <2> DEFINE above == IF p = None THEN None ELSE parent[p]
             t == [op |-> "placing", department |-> d, parent |-> p, above |-> above]
  <2>1. t \in Task
    <3>1. above \in MaybeDepartment
      BY <1>0 DEF TypeOK, MaybeDepartment
    <3> QED
      BY <3>1, Tasks
  <2>2. task' = [task EXCEPT ![w] = t] /\ UNCHANGED <<departments, parent>>
    BY <1>4 DEF ParentRead, Begin, departmentVars
  <2>3. task'[w] = t /\ \A v \in Workers \ {w} : task'[v] = task[v]
    <3> HIDE DEF t
    <3> QED
      BY <1>0, <2>1, <2>2, TaskMoves
  <2>4. ReadsHold'
    BY <2>2, <2>3 DEF TreeInv, ReadsHold, MovesUnder
  <2>5. ChecksHold'
    BY <2>2, <2>3 DEF TreeInv, ChecksHold, MovesUnder, Apart, Closed
  <2> QED
    BY <1>0, <2>2, <2>4, <2>5 DEF TreeInv, TreeIsAcyclic
<1>5. ASSUME NEW w \in Workers, ParentCheck(w)
      PROVE  TreeInv'
  <2> DEFINE d == task[w].department
             p == task[w].parent
             above == task[w].above
             t == [op |-> "placed", department |-> d, parent |-> p, above |-> above]
  <2>1. t \in Task /\ above \in MaybeDepartment
    BY <1>0, <1>5, TaskShape, Tasks DEF ParentCheck
  <2>2. task' = [task EXCEPT ![w] = t] /\ UNCHANGED <<departments, parent>>
    BY <1>5 DEF ParentCheck, departmentVars
  <2>3. task'[w] = t /\ \A v \in Workers \ {w} : task'[v] = task[v]
    <3> HIDE DEF t
    <3> QED
      BY <1>0, <2>1, <2>2, TaskMoves
  <2>4. ReadsHold'
    BY <2>2, <2>3 DEF TreeInv, ReadsHold, MovesUnder
  <2>5. ASSUME d # None, p # None
        PROVE  Apart(d, p)
    <3>1. MovesUnder(w) /\ task[w].op = "placing"
      BY <1>5, <2>5 DEF MovesUnder, ParentCheck
    <3>2. d \in departments /\ p \in departments
      BY <1>0, <2>5, <3>1 DEF TasksAreGrounded
    <3>3. parent[p] \in {above, None}
      BY <3>1 DEF TreeInv, ReadsHold
    <3>4. WalkEnds(d, p, above)
      BY <1>5 DEF ParentCheck
    <3> HIDE DEF d, p, above
    <3> QED
      BY <1>0, <2>1, <3>2, <3>3, <3>4, WalkPartsThem
  <2>6. ChecksHold'
    <3> SUFFICES ASSUME NEW v \in Workers, MovesUnder(v)', task'[v].op = "placed"
                 PROVE  \E S : Closed(S)' /\ task'[v].parent \in S /\ task'[v].department \notin S
      BY DEF ChecksHold, Apart
    <3>1. \A S : Closed(S) => Closed(S)'
      BY <2>2 DEF Closed
    <3>2. Apart(task'[v].department, task'[v].parent)
      <4>1. CASE v = w
        BY <2>3, <2>5, <4>1 DEF MovesUnder
      <4>2. CASE v # w
        BY <2>3, <4>2 DEF TreeInv, ChecksHold, MovesUnder
      <4> QED
        BY <4>1, <4>2
    <3> QED
      BY <3>1, <3>2 DEF Apart
  <2> QED
    BY <1>0, <2>2, <2>4, <2>6 DEF TreeInv, TreeIsAcyclic
<1>6. ASSUME NEW w \in Workers, NEW d \in Departments, DepartmentInsert(w, d)
      PROVE  TreeInv'
  <2>1. PICK p \in departments \cup {None} : p = task[w].parent
    BY <1>0, <1>6 DEF DepartmentInsert, TasksAreGrounded
  <2>2. /\ d \notin departments /\ departments' = departments \cup {d}
        /\ parent' = [parent EXCEPT ![d] = p]
    BY <1>6, <2>1 DEF DepartmentInsert
  <2>3. TreeIsAcyclic'
    BY <1>0, <2>2, InsertKeepsTree
  <2>4. task'[w] = Idle /\ \A v \in Workers \ {w} : task'[v] = task[v]
    BY <1>0, <1>6, Tasks, TaskMoves DEF DepartmentInsert, Finish
  <2>5. departments \subseteq departments' /\ \A x \in departments : parent'[x] = parent[x]
    BY <1>0, <2>2 DEF TypeOK
  <2>6. ReadsHold' /\ ChecksHold'
    BY <1>0, <2>4, <2>5, QuietKeepsMoves DEF Idle
  <2> QED
    BY <2>3, <2>6 DEF TreeInv
<1>7. ASSUME NEW w \in Workers, DepartmentMove(w)
      PROVE  TreeInv'
  <2>1. PICK d \in departments, p \in departments \cup {None} :
          d = task[w].department /\ p = task[w].parent
    BY <1>0, <1>7 DEF DepartmentMove, TasksAreGrounded
  <2>2. /\ task[w].op = "placed" /\ d # None /\ departments' = departments
        /\ parent' = [parent EXCEPT ![d] = p]
    BY <1>7, <2>1 DEF DepartmentMove
  <2>3. p # None => MovesUnder(w) /\ Apart(d, p)
    BY <2>1, <2>2 DEF TreeInv, ChecksHold, MovesUnder
  <2>4. TreeIsAcyclic'
    BY <1>0, <2>2, <2>3, MoveKeepsTree
  <2>5. task'[w] = Idle /\ \A v \in Workers \ {w} : task'[v] = task[v]
    BY <1>0, <1>7, Tasks, TaskMoves DEF DepartmentMove, Finish
  <2>6. ReadsHold' /\ ChecksHold'
    <3>1. CASE p = None
      <4>1. \A x \in departments : parent'[x] \in {parent[x], None}
        BY <1>0, <2>2, <3>1 DEF TypeOK
      <4> QED
        BY <1>0, <2>2, <2>5, <4>1, QuietKeepsMoves DEF Idle
    <3>2. CASE p # None
      <4>1. \A v \in Workers : ~MovesUnder(v)'
        BY <2>3, <2>5, <3>2 DEF SerialMoves, MovesUnder, Idle
      <4> QED
        BY <4>1 DEF ReadsHold, ChecksHold
    <3> QED
      BY <3>1, <3>2
  <2> QED
    BY <2>4, <2>6 DEF TreeInv
<1>8. CASE DepartmentStep
  BY <1>2, <1>4, <1>5, <1>6, <1>7, <1>8 DEF DepartmentStep, ActivateDepartment, departmentVars
<1>9. CASE StatusStep
  <2>1. ASSUME NEW w \in Workers, NEW x \in Departments \cup Positions, DeactivateCheck(w, x)
        PROVE  TreeInv'
    BY <1>1, <2>1, Tasks DEF DeactivateCheck, Begin
  <2>2. ASSUME NEW w \in Workers, DeactivateCommit(w)
        PROVE  TreeInv'
    BY <1>3, <2>2 DEF DeactivateCommit
  <2> QED
    BY <1>9, <2>1, <2>2 DEF StatusStep
<1>10. CASE PositionStep
  <2>1. ASSUME NEW w \in Workers, NEW p \in Positions, NEW d \in Departments,
               MovePositionRead(w, p, d)
        PROVE  TreeInv'
    BY <1>1, <2>1, Tasks DEF MovePositionRead, Begin
  <2>2. ASSUME NEW w \in Workers, MovePositionCommit(w)
        PROVE  TreeInv'
    BY <1>3, <2>2 DEF MovePositionCommit
  <2>3. ASSUME NEW p \in Positions,
               ActivatePosition(p) \/ \E d \in Departments : CreatePosition(p, d)
        PROVE  TreeInv'
    BY <1>2, <2>3 DEF ActivatePosition, CreatePosition
  <2> QED
    BY <1>10, <2>1, <2>2, <2>3 DEF PositionStep
<1>11. CASE EmployeeStep
  <2>1. ASSUME NEW w \in Workers, NEW e \in Employees, ReactivateCheck(w, e)
        PROVE  TreeInv'
    BY <1>1, <2>1, Tasks DEF ReactivateCheck, Begin
  <2>2. ASSUME NEW w \in Workers, ReactivateCommit(w)
        PROVE  TreeInv'
    BY <1>3, <2>2 DEF ReactivateCommit
  <2>3. ASSUME NEW e \in Employees, NEW d \in Departments, NEW p \in Positions \cup {None},
               CreateEmployee(e, d, p) \/ UpdateEmployee(e, d, p)
        PROVE  TreeInv'
    BY <1>2, <2>3 DEF CreateEmployee, UpdateEmployee, ApplyUpdate
  <2>4. ASSUME NEW f \in Forms,
               \/ \E e \in Employees : OpenForm(f, e)
               \/ \E d \in Departments, p \in Positions \cup {None} : SubmitForm(f, d, p)
               \/ RefuseForm(f)
        PROVE  TreeInv'
    BY <1>2, <2>4 DEF OpenForm, SubmitForm, ApplyUpdate, RefuseForm
  <2>5. ASSUME NEW e \in Employees, DepartEmployee(e)
        PROVE  TreeInv'
    BY <1>2, <2>5 DEF DepartEmployee
  <2> QED
    BY <1>11, <2>1, <2>2, <2>3, <2>4, <2>5 DEF EmployeeStep
<1>12. ASSUME NEW w \in Workers, Refuse(w)
       PROVE  TreeInv'
  BY <1>3, <1>12 DEF Refuse
<1> QED
  BY <1>8, <1>9, <1>10, <1>11, <1>12 DEF Next

-----------------------------------------------------------------------------
(***************************************************************************)
(* With PUT (Spec).  PUT breaks what the services keep between the rows,   *)
(* but not the rows themselves, the edit forms or the reader of the tree.  *)
(***************************************************************************)

\* What a worker remembers of rows, PUT included, still has its row.
Grounded(t) ==
  /\ t.op \in {"placing", "placed"} =>
       t.department \in departments \cup {None} /\ t.parent \in departments \cup {None}
  /\ t.op \in {"moving", "put_department", "put_position", "put_employee"} =>
       t.department \in departments
  /\ t.op = "put_department" => t.parent \in departments \cup {None}
  /\ t.op = "rehiring" => workplace[t.employee] # None

PutInv == TypeOK /\ (\A w \in Workers : Grounded(task[w])) /\ FormsShowTheRow

LEMMA PutShape ==
  ASSUME TypeOK, NEW w \in Workers
  PROVE  /\ task[w].op = "put_department" =>
              /\ task[w].department \in Departments /\ task[w].parent \in MaybeDepartment
              /\ task[w].open \in BOOLEAN
         /\ task[w].op = "put_position" =>
              /\ task[w].position \in Positions /\ task[w].department \in Departments
              /\ task[w].open \in BOOLEAN
         /\ task[w].op = "put_employee" =>
              /\ task[w].employee \in Employees /\ task[w].department \in Departments
              /\ task[w].post \in Positions \cup {None} /\ task[w].serving \in BOOLEAN
<1>1. task[w] \in Task
  BY DEF TypeOK
<1> QED
  BY <1>1 DEF Task, Idle

LEMMA Puts ==
  /\ \A d \in Departments, p \in MaybeDepartment, open \in BOOLEAN :
       [op |-> "put_department", department |-> d, parent |-> p, open |-> open] \in Task
  /\ \A p \in Positions, d \in Departments, open \in BOOLEAN :
       [op |-> "put_position", position |-> p, department |-> d, open |-> open] \in Task
  /\ \A e \in Employees, d \in Departments, p \in Positions \cup {None}, serving \in BOOLEAN :
       [op |-> "put_employee", employee |-> e, department |-> d, post |-> p,
        serving |-> serving] \in Task
BY DEF Task

\* A step that adds rows, removes none, and starts a task that is grounded.
LEMMA GroundsKept ==
  ASSUME TypeOK, \A w \in Workers : Grounded(task[w]),
         departments \subseteq departments',
         \A e \in Employees : workplace[e] # None => workplace'[e] # None,
         NEW w \in Workers, NEW t \in Task, task' = [task EXCEPT ![w] = t], Grounded(t)
  PROVE  /\ task' \in [Workers -> Task]
         /\ (\A v \in Workers : Grounded(task[v]))'
<1>1. /\ task' \in [Workers -> Task] /\ task'[w] = t
      /\ \A v \in Workers \ {w} : task'[v] = task[v]
  BY TaskMoves
<1>2. ASSUME NEW x \in Task, Grounded(x)
      PROVE  Grounded(x)'
  <2>1. x.op = "rehiring" => x.employee \in Employees
    BY DEF Task, Idle
  <2> QED
    BY <1>2, <2>1 DEF Grounded
<1>3. \A v \in Workers : task'[v] \in Task /\ Grounded(task'[v])
  BY <1>1 DEF TypeOK
<1>4. ASSUME NEW v \in Workers, NEW x, x = task'[v]
      PROVE  Grounded(x)'
  BY <1>2, <1>3, <1>4
<1> QED
  BY <1>1, <1>4 DEF Grounded

LEMMA GroundsStay ==
  ASSUME TypeOK, \A w \in Workers : Grounded(task[w]), task' = task,
         departments \subseteq departments',
         \A e \in Employees : workplace[e] # None => workplace'[e] # None
  PROVE  /\ task' \in [Workers -> Task]
         /\ (\A v \in Workers : Grounded(task[v]))'
<1>1. task \in [Workers -> Task]
  BY DEF TypeOK
<1>2. \A v \in Workers : task[v].op = "rehiring" => task[v].employee \in Employees
  BY TaskShape
<1> QED
  BY <1>1, <1>2 DEF Grounded

\* A step that only reads and remembers.
LEMMA ReadsKeepRows ==
  ASSUME PutInv, NEW w \in Workers, NEW t \in Task, task' = [task EXCEPT ![w] = t], Grounded(t),
         UNCHANGED <<departmentVars, openUnits, unitOf, staffVars, unchecked>>
  PROVE  PutInv'
<1>1. TypeOK /\ FormsShowTheRow /\ \A v \in Workers : Grounded(task[v])
  BY DEF PutInv
<1>2. UNCHANGED <<departments, parent, openUnits, unitOf, workplace, post, inService, form,
                  unchecked>>
  BY DEF departmentVars, staffVars
<1>3. task' \in [Workers -> Task] /\ (\A v \in Workers : Grounded(task[v]))'
  BY <1>1, <1>2, GroundsKept
<1>4. TypeOK'
  BY <1>1, <1>2, <1>3 DEF TypeOK
<1>5. FormsShowTheRow'
  BY <1>1, <1>2 DEF FormsShowTheRow
<1> QED
  BY <1>3, <1>4, <1>5 DEF PutInv

LEMMA ReadingStepsKeepRows ==
  ASSUME PutInv, NEW w \in Workers,
         \/ \E d, p \in MaybeDepartment : ParentRead(w, d, p)
         \/ ParentCheck(w)
         \/ \E x \in Departments \cup Positions : DeactivateCheck(w, x)
         \/ \E p \in Positions, d \in Departments : MovePositionRead(w, p, d)
         \/ \E e \in Employees : ReactivateCheck(w, e)
         \/ Refuse(w)
         \/ \E d \in Departments, p \in MaybeDepartment : PutDepartmentRead(w, d, p)
         \/ \E p \in Positions, d \in Departments : PutPositionRead(w, p, d)
         \/ \E e \in Employees, d \in Departments, p \in Positions \cup {None} :
               PutEmployeeRead(w, e, d, p)
  PROVE  PutInv'
<1>0. TypeOK /\ \A v \in Workers : Grounded(task[v])
  BY DEF PutInv
<1>d. \A d \in Departments : d \in openUnits => d \in departments
  BY <1>0, KindsAreDistinct DEF TypeOK
<1>1. ASSUME NEW d \in MaybeDepartment, NEW p \in MaybeDepartment, ParentRead(w, d, p)
      PROVE  PutInv'
  <2> DEFINE above == IF p = None THEN None ELSE parent[p]
             t == [op |-> "placing", department |-> d, parent |-> p, above |-> above]
  <2>1. above \in MaybeDepartment
    BY <1>0 DEF TypeOK, MaybeDepartment
  <2>2. t \in Task
    BY <2>1, Tasks
  <2>3. Grounded(t)
    BY <1>1 DEF ParentRead, Grounded
  <2>4. task' = [task EXCEPT ![w] = t]
    BY <1>1 DEF ParentRead, Begin
  <2>5. UNCHANGED <<departmentVars, openUnits, unitOf, staffVars, unchecked>>
    BY <1>1 DEF ParentRead
  <2> QED
    BY <2>2, <2>3, <2>4, <2>5, ReadsKeepRows
<1>2. CASE ParentCheck(w)
  <2> DEFINE t == [op |-> "placed", department |-> task[w].department,
                   parent |-> task[w].parent, above |-> task[w].above]
  <2>1. t \in Task
    BY <1>0, <1>2, TaskShape, Tasks DEF ParentCheck
  <2>2. Grounded(t)
    BY <1>0, <1>2 DEF ParentCheck, Grounded
  <2>3. /\ task' = [task EXCEPT ![w] = t]
        /\ UNCHANGED <<departmentVars, openUnits, unitOf, staffVars, unchecked>>
    BY <1>2 DEF ParentCheck
  <2> QED
    BY <2>1, <2>2, <2>3, ReadsKeepRows
<1>3. ASSUME NEW x \in Departments \cup Positions, DeactivateCheck(w, x)
      PROVE  PutInv'
  <2> DEFINE t == [op |-> "closing", unit |-> x]
  <2>1. t \in Task /\ Grounded(t)
    BY Tasks DEF Grounded
  <2>2. /\ task' = [task EXCEPT ![w] = t]
        /\ UNCHANGED <<departmentVars, openUnits, unitOf, staffVars, unchecked>>
    BY <1>3 DEF DeactivateCheck, Begin
  <2> QED
    BY <2>1, <2>2, ReadsKeepRows
<1>4. ASSUME NEW p \in Positions, NEW d \in Departments, MovePositionRead(w, p, d)
      PROVE  PutInv'
  <2> DEFINE t == [op |-> "moving", position |-> p, department |-> d]
  <2>1. t \in Task /\ Grounded(t)
    BY <1>d, <1>4, Tasks DEF MovePositionRead, Grounded
  <2>2. /\ task' = [task EXCEPT ![w] = t]
        /\ UNCHANGED <<departmentVars, openUnits, unitOf, staffVars, unchecked>>
    BY <1>4 DEF MovePositionRead, Begin
  <2> QED
    BY <2>1, <2>2, ReadsKeepRows
<1>5. ASSUME NEW e \in Employees, ReactivateCheck(w, e)
      PROVE  PutInv'
  <2> DEFINE t == [op |-> "rehiring", employee |-> e]
  <2>1. t \in Task /\ Grounded(t)
    BY <1>5, Tasks DEF ReactivateCheck, Grounded
  <2>2. /\ task' = [task EXCEPT ![w] = t]
        /\ UNCHANGED <<departmentVars, openUnits, unitOf, staffVars, unchecked>>
    BY <1>5 DEF ReactivateCheck, Begin
  <2> QED
    BY <2>1, <2>2, ReadsKeepRows
<1>6. CASE Refuse(w)
  <2>1. /\ task' = [task EXCEPT ![w] = Idle] /\ Grounded(Idle)
        /\ UNCHANGED <<departmentVars, openUnits, unitOf, staffVars, unchecked>>
    BY <1>6 DEF Refuse, Finish, Idle, Grounded
  <2> QED
    BY <2>1, Tasks, ReadsKeepRows
<1>7. ASSUME NEW d \in Departments, NEW p \in MaybeDepartment, PutDepartmentRead(w, d, p)
      PROVE  PutInv'
  <2> DEFINE t == [op |-> "put_department", department |-> d, parent |-> p,
                   open |-> d \in openUnits]
  <2>1. (d \in openUnits) \in BOOLEAN
    OBVIOUS
  <2>2. t \in Task
    BY <2>1, Puts
  <2>3. Grounded(t)
    BY <1>7 DEF PutDepartmentRead, Grounded
  <2>4. /\ task' = [task EXCEPT ![w] = t]
        /\ UNCHANGED <<departmentVars, openUnits, unitOf, staffVars, unchecked>>
    BY <1>7 DEF PutDepartmentRead, Begin
  <2> HIDE DEF t
  <2> QED
    BY <2>2, <2>3, <2>4, ReadsKeepRows
<1>8. ASSUME NEW p \in Positions, NEW d \in Departments, PutPositionRead(w, p, d)
      PROVE  PutInv'
  <2> DEFINE t == [op |-> "put_position", position |-> p, department |-> d,
                   open |-> p \in openUnits]
  <2>1. (p \in openUnits) \in BOOLEAN
    OBVIOUS
  <2>2. t \in Task
    BY <2>1, Puts
  <2>3. Grounded(t)
    BY <1>8 DEF PutPositionRead, Grounded
  <2>4. /\ task' = [task EXCEPT ![w] = t]
        /\ UNCHANGED <<departmentVars, openUnits, unitOf, staffVars, unchecked>>
    BY <1>8 DEF PutPositionRead, Begin
  <2> HIDE DEF t
  <2> QED
    BY <2>2, <2>3, <2>4, ReadsKeepRows
<1>9. ASSUME NEW e \in Employees, NEW d \in Departments, NEW p \in Positions \cup {None},
             PutEmployeeRead(w, e, d, p)
      PROVE  PutInv'
  <2> DEFINE t == [op |-> "put_employee", employee |-> e, department |-> d, post |-> p,
                   serving |-> e \in inService]
  <2>1. (e \in inService) \in BOOLEAN
    OBVIOUS
  <2>2. t \in Task
    BY <2>1, Puts
  <2>3. Grounded(t)
    BY <1>d, <1>9 DEF PutEmployeeRead, Grounded
  <2>4. /\ task' = [task EXCEPT ![w] = t]
        /\ UNCHANGED <<departmentVars, openUnits, unitOf, staffVars, unchecked>>
    BY <1>9 DEF PutEmployeeRead, Begin
  <2> HIDE DEF t
  <2> QED
    BY <2>2, <2>3, <2>4, ReadsKeepRows
<1> QED
  BY <1>1, <1>2, <1>3, <1>4, <1>5, <1>6, <1>7, <1>8, <1>9

\* A write of a department, a position or a status.
LEMMA UnitWritesKeepRows ==
  ASSUME PutInv, UNCHANGED <<workplace, post, inService, form>>,
         task' = task \/ \E w \in Workers : Finish(w),
         departments \subseteq departments', departments' \subseteq Departments,
         parent' \in [Departments -> departments' \cup {None}],
         openUnits' \subseteq departments' \cup Positions,
         unitOf' \in [Positions -> departments' \cup {None}],
         unchecked' \subseteq Employees \cup Positions
  PROVE  PutInv'
<1>1. TypeOK /\ FormsShowTheRow /\ \A v \in Workers : Grounded(task[v])
  BY DEF PutInv
<1>2. task' \in [Workers -> Task] /\ (\A v \in Workers : Grounded(task[v]))'
  <2>1. Grounded(Idle)
    BY DEF Idle, Grounded
  <2> QED
    BY <1>1, <2>1, Tasks, GroundsKept, GroundsStay DEF Finish
<1>3. TypeOK'
  BY <1>1, <1>2 DEF TypeOK
<1>4. FormsShowTheRow'
  BY <1>1 DEF FormsShowTheRow
<1> QED
  BY <1>2, <1>3, <1>4 DEF PutInv

LEMMA UnitStepsKeepRows ==
  ASSUME PutInv,
         \/ DepartmentStep \/ StatusStep \/ PositionStep
         \/ \E w \in Workers : PutDepartmentSave(w) \/ PutPositionSave(w)
  PROVE  PutInv'
<1>0. TypeOK /\ \A v \in Workers : Grounded(task[v])
  BY DEF PutInv
<1>1. ASSUME NEW w \in Workers, NEW d \in Departments, DepartmentInsert(w, d)
      PROVE  PutInv'
  <2>1. task[w].parent \in departments \cup {None}
    BY <1>0, <1>1 DEF DepartmentInsert, Grounded
  <2>2. /\ departments' = departments \cup {d} /\ openUnits' = openUnits \cup {d}
        /\ parent' \in [Departments -> departments' \cup {None}]
        /\ UNCHANGED <<unitOf, workplace, post, inService, form, unchecked>> /\ Finish(w)
    BY <1>0, <1>1, <2>1 DEF DepartmentInsert, TypeOK, staffVars
  <2>3. /\ departments \subseteq departments' /\ departments' \subseteq Departments
        /\ openUnits' \subseteq departments' \cup Positions
        /\ unitOf' \in [Positions -> departments' \cup {None}]
        /\ unchecked' \subseteq Employees \cup Positions
    BY <1>0, <2>2 DEF TypeOK
  <2> QED
    BY <2>2, <2>3, UnitWritesKeepRows
<1>2. ASSUME NEW w \in Workers, DepartmentMove(w)
      PROVE  PutInv'
  <2>1. task[w].parent \in departments \cup {None}
    BY <1>0, <1>2 DEF DepartmentMove, Grounded
  <2>2. parent' \in [Departments -> departments \cup {None}]
    BY <1>0, <1>2, <2>1 DEF DepartmentMove, TypeOK
  <2> QED
    BY <1>0, <1>2, <2>2, UnitWritesKeepRows DEF DepartmentMove, TypeOK, staffVars
<1>3. ASSUME NEW d \in Departments, ActivateDepartment(d)
      PROVE  PutInv'
  BY <1>0, <1>3, UnitWritesKeepRows DEF ActivateDepartment, TypeOK, departmentVars, staffVars
<1>4. ASSUME NEW w \in Workers, DeactivateCommit(w)
      PROVE  PutInv'
  BY <1>0, <1>4, UnitWritesKeepRows DEF DeactivateCommit, TypeOK, departmentVars, staffVars
<1>5. ASSUME NEW p \in Positions, ActivatePosition(p)
      PROVE  PutInv'
  BY <1>0, <1>5, UnitWritesKeepRows DEF ActivatePosition, TypeOK, departmentVars, staffVars
<1>6. ASSUME NEW p \in Positions, NEW d \in Departments, CreatePosition(p, d)
      PROVE  PutInv'
  <2>1. d \in departments
    BY <1>0, <1>6, KindsAreDistinct DEF CreatePosition, TypeOK
  <2>2. unitOf' \in [Positions -> departments \cup {None}]
    BY <1>0, <1>6, <2>1 DEF CreatePosition, TypeOK
  <2> QED
    BY <1>0, <1>6, <2>2, UnitWritesKeepRows DEF CreatePosition, TypeOK, departmentVars, staffVars
<1>7. ASSUME NEW w \in Workers, MovePositionCommit(w)
      PROVE  PutInv'
  <2>1. task[w].position \in Positions /\ task[w].department \in departments
    BY <1>0, <1>7, TaskShape DEF MovePositionCommit, Grounded
  <2>2. unitOf' \in [Positions -> departments \cup {None}]
        /\ unchecked' \subseteq Employees \cup Positions
    BY <1>0, <1>7, <2>1 DEF MovePositionCommit, TypeOK
  <2> QED
    BY <1>0, <1>7, <2>2, UnitWritesKeepRows
    DEF MovePositionCommit, TypeOK, departmentVars, staffVars
<1>8. ASSUME NEW w \in Workers, PutDepartmentSave(w)
      PROVE  PutInv'
  <2>1. task[w].department \in departments /\ task[w].parent \in departments \cup {None}
    BY <1>0, <1>8 DEF PutDepartmentSave, Grounded
  <2>2. /\ parent' \in [Departments -> departments \cup {None}]
        /\ openUnits' \subseteq departments \cup Positions
    BY <1>0, <1>8, <2>1 DEF PutDepartmentSave, SaveStatus, TypeOK
  <2> QED
    BY <1>0, <1>8, <2>2, UnitWritesKeepRows DEF PutDepartmentSave, TypeOK, staffVars
<1>9. ASSUME NEW w \in Workers, PutPositionSave(w)
      PROVE  PutInv'
  <2>1. task[w].position \in Positions /\ task[w].department \in departments
    BY <1>0, <1>9, PutShape DEF PutPositionSave, Grounded
  <2>2. /\ unitOf' \in [Positions -> departments \cup {None}]
        /\ openUnits' \subseteq departments \cup Positions
    BY <1>0, <1>9, <2>1 DEF PutPositionSave, SaveStatus, TypeOK
  <2> QED
    BY <1>0, <1>9, <2>2, UnitWritesKeepRows DEF PutPositionSave, TypeOK, departmentVars, staffVars
<1> QED
  BY <1>1, <1>2, <1>3, <1>4, <1>5, <1>6, <1>7, <1>8, <1>9, ReadingStepsKeepRows
  DEF DepartmentStep, StatusStep, PositionStep

\* A write of an employee.
LEMMA StaffWritesKeepRows ==
  ASSUME PutInv, UNCHANGED <<departments, parent, openUnits, unitOf>>, FormsOK',
         task' = task \/ \E w \in Workers : Finish(w),
         NEW e \in Employees, NEW d \in departments \cup {None}, NEW p \in Positions \cup {None},
         workplace' = [workplace EXCEPT ![e] = d], post' = [post EXCEPT ![e] = p],
         workplace[e] # None => d # None,
         inService' \subseteq inService \cup {e}, e \in inService' => d # None,
         unchecked' \subseteq unchecked \cup {e}
  PROVE  PutInv'
<1>1. TypeOK /\ \A v \in Workers : Grounded(task[v])
  BY DEF PutInv
<1>2. /\ workplace' \in [Employees -> departments \cup {None}]
      /\ post' \in [Employees -> Positions \cup {None}]
      /\ workplace'[e] = d /\ \A g \in Employees \ {e} : workplace'[g] = workplace[g]
  BY <1>1 DEF TypeOK
<1>3. \A g \in Employees : workplace[g] # None => workplace'[g] # None
  BY <1>2
<1>4. task' \in [Workers -> Task] /\ (\A v \in Workers : Grounded(task[v]))'
  <2>1. Grounded(Idle)
    BY DEF Idle, Grounded
  <2> QED
    BY <1>1, <1>3, <2>1, Tasks, GroundsKept, GroundsStay DEF Finish
<1>5. inService' \subseteq {g \in Employees : workplace'[g] # None}
  BY <1>1, <1>2 DEF TypeOK
<1>6. TypeOK'
  BY <1>1, <1>2, <1>4, <1>5 DEF TypeOK, FormsOK
<1> QED
  BY <1>4, <1>6 DEF PutInv, FormsOK

LEMMA StaffStepsKeepRows ==
  ASSUME PutInv, EmployeeStep
  PROVE  PutInv'
<1>0. TypeOK /\ FormsShowTheRow /\ \A v \in Workers : Grounded(task[v])
  BY DEF PutInv
<1>f. FormsOK'
  BY <1>0, EmployeeForms
<1>1. ASSUME NEW e \in Employees, NEW d \in Departments, NEW p \in Positions \cup {None},
             RelationshipsActive(d, p), workplace' = [workplace EXCEPT ![e] = d],
             post' = [post EXCEPT ![e] = p],
             inService' \in {inService, inService \cup {e}}, unchecked' \subseteq unchecked,
             UNCHANGED <<departments, parent, openUnits, unitOf, task>>
      PROVE  PutInv'
  <2>1. d \in departments /\ d # None
    BY <1>0, <1>1, NoneIsNoRow, KindsAreDistinct DEF RelationshipsActive, TypeOK
  <2> QED
    BY <1>f, <1>1, <2>1, StaffWritesKeepRows
<1>2. ASSUME NEW e \in Employees, UNCHANGED <<departments, parent, openUnits, unitOf, workplace, post>>,
             task' = task \/ \E w \in Workers : Finish(w),
             inService' \subseteq inService \cup {e}, e \in inService' => workplace[e] # None,
             unchecked' \subseteq unchecked \cup {e}
      PROVE  PutInv'
  <2>1. PICK d \in departments \cup {None}, p \in Positions \cup {None} :
          d = workplace[e] /\ p = post[e]
    BY <1>0 DEF TypeOK
  <2>2. workplace' = [workplace EXCEPT ![e] = d] /\ post' = [post EXCEPT ![e] = p]
    BY <1>0, <1>2, <2>1 DEF TypeOK
  <2> QED
    BY <1>f, <1>2, <2>1, <2>2, StaffWritesKeepRows
<1>3. ASSUME NEW e \in Employees, NEW d \in Departments, NEW p \in Positions \cup {None},
             CreateEmployee(e, d, p) \/ ApplyUpdate(e, d, p)
      PROVE  PutInv'
  BY <1>1, <1>3 DEF CreateEmployee, ApplyUpdate, departmentVars
<1>4. ASSUME NEW f \in Forms, NEW d \in Departments, NEW p \in Positions \cup {None},
             SubmitForm(f, d, p)
      PROVE  PutInv'
  <2>1. PICK e \in Employees : e = form[f].employee
    BY <1>0, <1>4, FormShape DEF SubmitForm, FormsOK, TypeOK
  <2>2. ApplyUpdate(e, d, p)
    BY <1>4, <2>1 DEF SubmitForm
  <2> QED
    BY <1>3, <2>2
<1>5. ASSUME NEW f \in Forms, RefuseForm(f) \/ \E e \in Employees : OpenForm(f, e)
      PROVE  PutInv'
  <2>1. UNCHANGED <<departments, parent, openUnits, unitOf, workplace, post, inService, task,
                    unchecked>>
    BY <1>5 DEF OpenForm, RefuseForm, departmentVars
  <2>2. TypeOK'
    BY <1>0, <1>f, <2>1 DEF TypeOK, FormsOK
  <2>3. (\A v \in Workers : Grounded(task[v]))'
    BY <1>0, <2>1, GroundsStay
  <2> QED
    BY <1>f, <2>2, <2>3 DEF PutInv, FormsOK
<1>6. ASSUME NEW e \in Employees, DepartEmployee(e)
      PROVE  PutInv'
  BY <1>0, <1>2, <1>6 DEF DepartEmployee, departmentVars, TypeOK
<1>7. ASSUME NEW w \in Workers, ReactivateCommit(w)
      PROVE  PutInv'
  <2>1. PICK e \in Employees : e = task[w].employee
    BY <1>0, <1>7, TaskShape DEF ReactivateCommit
  <2>2. workplace[e] # None
    BY <1>0, <1>7, <2>1 DEF ReactivateCommit, Grounded
  <2> QED
    BY <1>2, <1>7, <2>1, <2>2 DEF ReactivateCommit, departmentVars
<1>8. ASSUME NEW w \in Workers, NEW e \in Employees, ReactivateCheck(w, e)
      PROVE  PutInv'
  BY <1>8, ReadingStepsKeepRows
<1> QED
  BY <1>3, <1>4, <1>5, <1>6, <1>7, <1>8 DEF EmployeeStep, UpdateEmployee

LEMMA PutEmployeeKeepsRows ==
  ASSUME PutInv, NEW w \in Workers, PutEmployeeSave(w)
  PROVE  PutInv'
<1>0. TypeOK /\ FormsOK /\ \A v \in Workers : Grounded(task[v])
  BY DEF PutInv, FormsOK, TypeOK
<1>1. PICK e \in Employees, d \in departments, p \in Positions \cup {None} :
        e = task[w].employee /\ d = task[w].department /\ p = task[w].post
  BY <1>0, PutShape DEF PutEmployeeSave, Grounded
<1>2. /\ workplace' = [workplace EXCEPT ![e] = d] /\ post' = [post EXCEPT ![e] = p]
      /\ inService' \in {inService \cup {e}, inService \ {e}} /\ form' = Saved(e) /\ Finish(w)
      /\ UNCHANGED <<departments, parent, openUnits, unitOf, unchecked>>
  BY <1>1 DEF PutEmployeeSave, departmentVars
<1>3. d # None
  BY <1>0, NoneIsNoRow DEF TypeOK
<1>4. \A g \in Employees \ {e} : RowUnchanged(g)
  BY <1>0, <1>2 DEF RowUnchanged, TypeOK
<1>5. FormsOK'
  BY <1>0, <1>2, <1>4, SaveKeepsForms
<1> QED
  BY <1>2, <1>3, <1>5, StaffWritesKeepRows

LEMMA RowsReachable == Spec => []PutInv
<1>1. Init => PutInv
  <2>1. Init => TypeOK /\ FormsShowTheRow
    BY InitIInv DEF IInv, RowInv
  <2>2. Init => \A w \in Workers : Grounded(task[w])
    BY DEF Init, Idle, Grounded
  <2> QED
    BY <2>1, <2>2 DEF PutInv
<1>2. PutInv /\ [Next \/ PutStep]_vars => PutInv'
  <2> SUFFICES ASSUME PutInv, [Next \/ PutStep]_vars
               PROVE  PutInv'
    OBVIOUS
  <2>1. CASE Next
    BY <2>1, UnitStepsKeepRows, StaffStepsKeepRows, ReadingStepsKeepRows DEF Next
  <2>2. CASE PutStep
    BY <2>2, UnitStepsKeepRows, ReadingStepsKeepRows, PutEmployeeKeepsRows DEF PutStep
  <2>3. CASE UNCHANGED vars
    BY <2>3 DEF PutInv, TypeOK, Grounded, FormsShowTheRow, departmentVars, staffVars, vars
  <2> QED
    BY <2>1, <2>2, <2>3
<1> QED
  BY <1>1, <1>2, PTL DEF Spec

-----------------------------------------------------------------------------
LEMMA Reachable == ServiceSpec => []IInv
  BY InitIInv, StepKeeps, PTL DEF ServiceSpec

\* Every state has the types of TypeOK: foreign keys name rows that exist, and
\* whoever is in service has a workplace.
THEOREM Types == ServiceSpec => []TypeOK
<1>1. IInv => TypeOK
  BY DEF IInv, RowInv
<1> QED
  BY <1>1, Reachable, PTL

\* However moves of positions, transfers and rehirings overlap, an employee's
\* position belongs to the employee's department.
THEOREM PositionsMatchDepartments == ServiceSpec => []PostsAgree
<1>1. IInv => PostsAgree
  BY DEF IInv, RowInv
<1> QED
  BY <1>1, Reachable, PTL

\* A closed unit is not in use, except by what was read without a lock.
THEOREM ClosedUnitsAreUnused == ServiceSpec => []UnitsInUseAreOpen
<1>1. IInv => UnitsInUseAreOpen
  BY DEF IInv, UnitInv
<1> QED
  BY <1>1, Reachable, PTL

\* An edit that is accepted overwrites nothing its editor has not seen.
THEOREM NoLostUpdate == ServiceSpec => []FormsShowTheRow
<1>1. IInv => FormsShowTheRow
  BY DEF IInv
<1> QED
  BY <1>1, Reachable, PTL

\* PUT, which goes past the services, breaks no foreign key and leaves nobody in
\* service without a workplace.
THEOREM TypesWithPut == Spec => []TypeOK
<1>1. PutInv => TypeOK
  BY DEF PutInv
<1> QED
  BY <1>1, RowsReachable, PTL

\* PUT itself overwrites what it has not read, but never behind an edit form: a
\* form opened before it is stale afterwards.
THEOREM NoLostUpdateWithPut == Spec => []FormsShowTheRow
<1>1. PutInv => FormsShowTheRow
  BY DEF PutInv
<1> QED
  BY <1>1, RowsReachable, PTL

\* The tree is served exactly as long as no department is above itself and no
\* line to the root has more than MaxTreeDepth departments: what the reader's
\* walk computes, for any tree of departments, finite or not, PUT included.
THEOREM TreeIsServedWithinLimit == Spec => []TreeServedWithinLimit
  BY ServedMeansWithinLimit, TypesWithPut, PTL

LEMMA TreeKept == IInv /\ TreeInv /\ SerialMoves /\ [Next]_vars => TreeInv'
<1>1. ASSUME TreeInv, UNCHANGED vars
      PROVE  TreeInv'
  BY <1>1
  DEF TreeInv, TreeIsAcyclic, ReadsHold, ChecksHold, MovesUnder, Apart, Closed, vars,
      departmentVars
<1> QED
  BY <1>1, SerialStepKeeps

\* The check of clean() fails through overlapping moves only: if no two requests
\* are in the middle of moving a department under a parent, no department ever
\* gets above itself, whatever creations, moves to the top, status changes and
\* aborted requests come in between.
THEOREM SerialMovesKeepTheTree == ServiceSpec /\ []SerialMoves => []TreeIsAcyclic
<1>1. TreeInv => TreeIsAcyclic
  BY DEF TreeInv
<1> QED
  BY <1>1, TreeKept, InitTreeInv, Reachable, PTL DEF ServiceSpec

\* The same up to the first overlap: no department is above itself unless two
\* moves have overlapped.
THEOREM OnlyOverlapsCloseCycles == HistoryServiceSpec => []SerialMovesKeepTreeAcyclic
<1> DEFINE HInv == ~overlapped => TreeInv /\ SerialMoves
<1>1. HistoryInit => Init /\ HInv
  <2>1. Init => SerialMoves
    BY DEF Init, SerialMoves, MovesUnder, Idle
  <2> QED
    BY <2>1, InitTreeInv DEF HistoryInit
<1>2. [HistoryNext]_historyVars => [Next]_vars
  BY DEF HistoryNext, historyVars
<1>3. IInv /\ HInv /\ [HistoryNext]_historyVars => HInv'
  <2>1. ASSUME HInv, UNCHANGED historyVars
        PROVE  HInv'
    <3>1. UNCHANGED vars /\ overlapped' = overlapped
      BY <2>1 DEF historyVars
    <3>2. TreeInv => TreeInv'
      BY <3>1
      DEF TreeInv, TreeIsAcyclic, ReadsHold, ChecksHold, MovesUnder, Apart, Closed, vars,
          departmentVars
    <3>3. SerialMoves => SerialMoves'
      BY <3>1 DEF SerialMoves, MovesUnder, vars
    <3> QED
      BY <2>1, <3>1, <3>2, <3>3
  <2>2. ASSUME IInv, HInv, HistoryNext, ~overlapped'
        PROVE  TreeInv' /\ SerialMoves'
    <3>1. ~overlapped /\ SerialMoves'
      BY <2>2 DEF HistoryNext, Recorded
    <3> QED
      BY <2>2, <3>1, TreeKept DEF HistoryNext
  <2> QED
    BY <2>1, <2>2
<1>4. HInv => SerialMovesKeepTreeAcyclic
  BY DEF TreeInv, SerialMovesKeepTreeAcyclic
<1>5. HistoryServiceSpec => ServiceSpec
  BY <1>1, <1>2, PTL DEF HistoryServiceSpec, ServiceSpec
<1> QED
  BY <1>1, <1>3, <1>4, <1>5, Reachable, PTL DEF HistoryServiceSpec

\* Then nothing but a line that is too long keeps the tree from being served.
THEOREM SerialTreeIsServed ==
  ServiceSpec /\ []SerialMoves =>
    [](DepartmentTreeServed <=> \A d \in departments : Cardinality(Line(d)) <= MaxTreeDepth)
<1>1. TreeServedWithinLimit /\ TreeIsAcyclic =>
        (DepartmentTreeServed <=>
           \A d \in departments : Cardinality(Line(d)) <= MaxTreeDepth)
  BY DEF TreeServedWithinLimit
<1> QED
  BY <1>1, ServedMeansWithinLimit, Types, SerialMovesKeepTheTree, PTL
=============================================================================
