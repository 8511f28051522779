------------------------------ MODULE Directory ------------------------------
(***************************************************************************)
(* Departments, positions and employees (backend/modules/organizations,    *)
(* backend/modules/employees).  PostgreSQL READ COMMITTED: an action is a  *)
(* transaction at its commit.  What a request read before its transaction  *)
(* locks anything (the instances its serializer loaded), and what a        *)
(* transaction holds locked while it checks other rows without a lock, is  *)
(* the task of its worker between two actions.                             *)
(*                                                                         *)
(* Rows are locked FOR UPDATE; a commit that writes a foreign key needs    *)
(* the referenced row FOR KEY SHARE, so it waits while another transaction *)
(* holds that row.                                                         *)
(***************************************************************************)
EXTENDS Naturals, FiniteSets

CONSTANTS
  Departments, Positions, Employees, Workers,
  Forms,          \* edit forms of employees that may be open at a time
  MaxTreeDepth,   \* MAX_DEPARTMENT_TREE_DEPTH
  None

ASSUME NoneIsNoRow == None \notin Departments \cup Positions
\* Rows of different tables differ.
ASSUME KindsAreDistinct == Departments \cap Positions = {} /\ Employees \cap Positions = {}
ASSUME MaxTreeDepthIsPositive == MaxTreeDepth \in Nat \ {0}

VARIABLES
  departments,    \* departments with a row
  parent,         \* Department.parent
  openUnits,      \* departments and positions whose status is active
  unitOf,         \* Position.department, None before the insert
  workplace,      \* Employee.department, None before the insert
  post,           \* Employee.position
  inService,      \* employees whose employment_status is active
  form,           \* form[f]: the employee detail an edit form was opened with
  task,           \* task[w]: the request worker w is in the middle of
  unchecked       \* employees and positions whose unit was last read without
                  \* its lock (history)

departmentVars == <<departments, parent>>
staffVars == <<workplace, post, inService, form>>
vars == <<departmentVars, openUnits, unitOf, staffVars, task, unchecked>>

Idle == [op |-> "idle"]
MaybeDepartment == Departments \cup {None}
Task == {Idle}
          \cup [op : {"placing", "placed"}, department : MaybeDepartment,
                parent : MaybeDepartment, above : MaybeDepartment]
          \cup [op : {"closing"}, unit : Departments \cup Positions]
          \cup [op : {"rehiring"}, employee : Employees]
          \cup [op : {"moving"}, position : Positions, department : Departments]
          \cup [op : {"put_department"}, department : Departments,
                parent : MaybeDepartment, open : BOOLEAN]
          \cup [op : {"put_position"}, position : Positions, department : Departments,
                open : BOOLEAN]
          \cup [op : {"put_employee"}, employee : Employees, department : Departments,
                post : Positions \cup {None}, serving : BOOLEAN]

NoForm == [at |-> "none"]
StaleForm == [at |-> "stale"]      \* the row was saved since: updated_at differs
FormStates ==
  {NoForm, StaleForm}
    \cup [at : {"open"}, employee : Employees, department : Departments,
          post : Positions \cup {None}, serving : BOOLEAN]

\* Rows locked between two actions; a position is locked with its department.
UnitFree(x) ==
  \A w \in Workers :
     /\ task[w].op = "closing" =>
           /\ task[w].unit # x
           /\ task[w].unit \in Positions => unitOf[task[w].unit] # x
     /\ task[w].op = "placed" => task[w].department # x
EmployeeFree(e) ==
  \A w \in Workers : task[w].op = "rehiring" => task[w].employee # e

Init ==
  /\ departments = {}
  /\ parent = [d \in Departments |-> None]
  /\ openUnits = {}
  /\ unitOf = [p \in Positions |-> None]
  /\ workplace = [e \in Employees |-> None]
  /\ post = [e \in Employees |-> None]
  /\ inService = {}
  /\ form = [f \in Forms |-> NoForm]
  /\ task = [w \in Workers |-> Idle]
  /\ unchecked = {}

Begin(w, request) == task[w] = Idle /\ task' = [task EXCEPT ![w] = request]
Finish(w) == task' = [task EXCEPT ![w] = Idle]

\* A transaction rolls back: a check refused it, or it was the victim of a
\* deadlock.
Refuse(w) ==
  /\ task[w] # Idle
  /\ Finish(w)
  /\ UNCHANGED <<departmentVars, openUnits, unitOf, staffVars, unchecked>>

(***************************************************************************)
(* Parents.  The serializer loads the new parent, checks its status and    *)
(* remembers its parent_id; clean() walks up from there.                   *)
(***************************************************************************)

\* Creation when d is None, otherwise a move of d.
ParentRead(w, d, p) ==
  /\ d \in departments \cup {None}
  /\ p \in (departments \cap openUnits) \cup {None}
  /\ Begin(w, [op |-> "placing", department |-> d, parent |-> p,
               above |-> IF p = None THEN None ELSE parent[p]])
  /\ UNCHANGED <<departmentVars, openUnits, unitOf, staffVars, unchecked>>

\* d and the departments above it.
Line(d) ==
  {x \in departments : \A S \in SUBSET departments :
     (d \in S /\ \A y \in S : parent[y] \in S \cup {None}) => x \in S}

\* Deviation: only the new parent itself is compared with d.
ParentIsAnother(d, p, above) == p # None => p # d

\* clean() meets neither d nor a department twice on its way up from p.
WalkEnds(d, p, above) ==
  p # None =>
    /\ d # p
    /\ above # None =>
         /\ Line(above) \cap {d, p} = {}
         /\ \E root \in Line(above) : parent[root] = None

ParentCheck(w) ==
  /\ task[w].op = "placing"
  /\ task[w].department # None => UnitFree(task[w].department)
  /\ WalkEnds(task[w].department, task[w].parent, task[w].above)
  /\ task' = [task EXCEPT ![w] =
                 [op |-> "placed", department |-> task[w].department,
                  parent |-> task[w].parent, above |-> task[w].above]]
  /\ UNCHANGED <<departmentVars, openUnits, unitOf, staffVars, unchecked>>

DepartmentInsert(w, d) ==
  /\ task[w].op = "placed" /\ task[w].department = None
  /\ d \notin departments
  /\ task[w].parent # None => UnitFree(task[w].parent)
  /\ departments' = departments \cup {d}
  /\ parent' = [parent EXCEPT ![d] = task[w].parent]
  /\ openUnits' = openUnits \cup {d}
  /\ Finish(w)
  /\ UNCHANGED <<unitOf, staffVars, unchecked>>

DepartmentMove(w) ==
  /\ task[w].op = "placed" /\ task[w].department # None
  /\ task[w].parent # None => UnitFree(task[w].parent)
  /\ parent' = [parent EXCEPT ![task[w].department] = task[w].parent]
  /\ Finish(w)
  /\ UNCHANGED <<departments, openUnits, unitOf, staffVars, unchecked>>

(***************************************************************************)
(* build_department_tree: from every department up, with a limit clean()   *)
(* does not know.                                                          *)
(***************************************************************************)

\* Deviation: the limit counts steps up, not departments.
TooDeepByOne(depth) == depth > MaxTreeDepth + 1

TooDeep(depth) == depth > MaxTreeDepth

\* What the walk from d meets: a root, a department seen before, or the limit.
TreeWalk(d) ==
  LET up[visited \in SUBSET Departments] ==
        [current \in Departments |->
           IF parent[current] = None THEN "root"
           ELSE IF current \in visited THEN "cycle"
           ELSE IF TooDeep(Cardinality(visited) + 2) THEN "limit"
           ELSE up[visited \cup {current}][parent[current]]]
  IN  up[{}][d]

DepartmentTreeServed == \A d \in departments : TreeWalk(d) = "root"

(***************************************************************************)
(* Status.  A unit is closed under its lock after its dependents were      *)
(* counted without one.                                                    *)
(***************************************************************************)
DepartmentUnused(d) ==
  /\ \A x \in departments \cap openUnits : parent[x] # d
  /\ \A p \in Positions \cap openUnits : unitOf[p] # d
  /\ \A e \in inService : workplace[e] # d

PositionUnused(p) == \A e \in inService : post[e] # p

DeactivateCheck(w, x) ==
  /\ x \in openUnits
  /\ UnitFree(x)
  /\ x \in Departments => DepartmentUnused(x)
  /\ x \in Positions => UnitFree(unitOf[x]) /\ PositionUnused(x)
  /\ Begin(w, [op |-> "closing", unit |-> x])
  /\ UNCHANGED <<departmentVars, openUnits, unitOf, staffVars, unchecked>>

DeactivateCommit(w) ==
  /\ task[w].op = "closing"
  /\ openUnits' = openUnits \ {task[w].unit}
  /\ Finish(w)
  /\ UNCHANGED <<departmentVars, unitOf, staffVars, unchecked>>

ActivateDepartment(d) ==
  /\ d \in departments \ openUnits
  /\ UnitFree(d)
  /\ openUnits' = openUnits \cup {d}
  /\ UNCHANGED <<departmentVars, unitOf, staffVars, task, unchecked>>

\* Deviation: the department's status is not looked at.
ActivateAnywhere(p) == unitOf[p] \in departments

DepartmentAllowsPosition(p) == unitOf[p] \in openUnits /\ UnitFree(unitOf[p])

\* set_position_active locks the position and, through select_related, its
\* department.
ActivatePosition(p) ==
  /\ unitOf[p] # None /\ p \notin openUnits
  /\ UnitFree(p) /\ DepartmentAllowsPosition(p)
  /\ openUnits' = openUnits \cup {p}
  /\ unchecked' = unchecked \ {p}
  /\ UNCHANGED <<departmentVars, unitOf, staffVars, task>>

(***************************************************************************)
(* Positions.  Creation locks the department; a move trusts the department *)
(* the serializer loaded, locks the position and looks for employees.      *)
(***************************************************************************)
CreatePosition(p, d) ==
  /\ unitOf[p] = None
  /\ d \in openUnits /\ UnitFree(d)
  /\ unitOf' = [unitOf EXCEPT ![p] = d]
  /\ openUnits' = openUnits \cup {p}
  /\ UNCHANGED <<departmentVars, staffVars, task, unchecked>>

MovePositionRead(w, p, d) ==
  /\ unitOf[p] \notin {None, d}
  /\ d \in openUnits
  /\ Begin(w, [op |-> "moving", position |-> p, department |-> d])
  /\ UNCHANGED <<departmentVars, openUnits, unitOf, staffVars, unchecked>>

\* Deviation: only employees in service keep a position where it is.
UnstaffedByStatus(p) == \A e \in inService : post[e] # p

Unstaffed(p) == \A e \in Employees : post[e] # p

MovePositionCommit(w) ==
  /\ task[w].op = "moving"
  /\ LET p == task[w].position
     IN  /\ UnitFree(p) /\ UnitFree(task[w].department)
         /\ unitOf[p] # task[w].department
         /\ Unstaffed(p)
         /\ unitOf' = [unitOf EXCEPT ![p] = task[w].department]
         /\ unchecked' = unchecked \cup {p}
  /\ Finish(w)
  /\ UNCHANGED <<departmentVars, openUnits, staffVars>>

(***************************************************************************)
(* Employees.  Creation and update lock the department and the position    *)
(* and look at them again; reactivation locks the employee only.           *)
(***************************************************************************)

\* Deviation: the rows are not locked, so a closing in progress is missed.
RelationshipsUnlocked(d, p) ==
  /\ d \in openUnits
  /\ p # None => p \in openUnits /\ unitOf[p] = d

RelationshipsActive(d, p) ==
  /\ d \in openUnits /\ UnitFree(d)
  /\ p # None => p \in openUnits /\ UnitFree(p) /\ unitOf[p] = d

\* Deviation: the save leaves updated_at out.
SavedSilently(e) == form

\* Every save of the row sets updated_at.
Saved(e) ==
  [f \in Forms |-> IF form[f].at = "open" /\ form[f].employee = e THEN StaleForm ELSE form[f]]

\* Deviation: the department is not saved.
CreateEmployeeNowhere(e, d, p) ==
  /\ workplace[e] = None
  /\ RelationshipsActive(d, p)
  /\ post' = [post EXCEPT ![e] = p]
  /\ inService' = inService \cup {e}
  /\ UNCHANGED <<departmentVars, openUnits, unitOf, workplace, form, task, unchecked>>

CreateEmployee(e, d, p) ==
  /\ workplace[e] = None
  /\ RelationshipsActive(d, p)
  /\ workplace' = [workplace EXCEPT ![e] = d]
  /\ post' = [post EXCEPT ![e] = p]
  /\ inService' = inService \cup {e}
  /\ UNCHANGED <<departmentVars, openUnits, unitOf, form, task, unchecked>>

\* Without changes nothing is saved.
ApplyUpdate(e, d, p) ==
  /\ workplace[e] # None /\ EmployeeFree(e)
  /\ RelationshipsActive(d, p)
  /\ workplace' = [workplace EXCEPT ![e] = d]
  /\ post' = [post EXCEPT ![e] = p]
  /\ unchecked' = unchecked \ {e}
  /\ UNCHANGED <<departmentVars, openUnits, unitOf, inService, task>>

\* PATCH without expected_updated_at.
UpdateEmployee(e, d, p) ==
  /\ ApplyUpdate(e, d, p)
  /\ form' = IF <<d, p>> = <<workplace[e], post[e]>> THEN form ELSE Saved(e)

\* The form sends the updated_at it was opened with.
OpenForm(f, e) ==
  /\ form[f] = NoForm /\ workplace[e] # None
  /\ form' = [form EXCEPT ![f] = [at |-> "open", employee |-> e, department |-> workplace[e],
                                  post |-> post[e], serving |-> e \in inService]]
  /\ UNCHANGED <<departmentVars, openUnits, unitOf, workplace, post, inService, task, unchecked>>

SubmitForm(f, d, p) ==
  /\ form[f].at = "open"
  /\ LET e == form[f].employee
     IN  /\ ApplyUpdate(e, d, p)
         /\ form' = [(IF <<d, p>> = <<workplace[e], post[e]>> THEN form ELSE Saved(e))
                       EXCEPT ![f] = NoForm]

\* stale_object: the page loads the employee again.
RefuseForm(f) ==
  /\ form[f] = StaleForm
  /\ form' = [form EXCEPT ![f] = NoForm]
  /\ UNCHANGED <<departmentVars, openUnits, unitOf, workplace, post, inService, task, unchecked>>

DepartEmployee(e) ==
  /\ e \in inService /\ EmployeeFree(e)
  /\ inService' = inService \ {e}
  /\ form' = Saved(e)
  /\ UNCHANGED <<departmentVars, openUnits, unitOf, workplace, post, task, unchecked>>

ReactivateCheck(w, e) ==
  /\ workplace[e] # None /\ e \notin inService /\ EmployeeFree(e)
  /\ workplace[e] \in openUnits
  /\ post[e] # None => post[e] \in openUnits
  /\ Begin(w, [op |-> "rehiring", employee |-> e])
  /\ UNCHANGED <<departmentVars, openUnits, unitOf, staffVars, unchecked>>

ReactivateCommit(w) ==
  /\ task[w].op = "rehiring"
  /\ inService' = inService \cup {task[w].employee}
  /\ form' = Saved(task[w].employee)
  /\ unchecked' = unchecked \cup {task[w].employee}
  /\ Finish(w)
  /\ UNCHANGED <<departmentVars, openUnits, unitOf, workplace, post>>

(***************************************************************************)
(* PUT.  The detail views override patch only, so RetrieveUpdateAPIView    *)
(* also answers PUT: it loads the row, validates, and saves every column   *)
(* as loaded, without service, lock, clean() or audit.                     *)
(***************************************************************************)
PutDepartmentRead(w, d, p) ==
  /\ d \in departments /\ p \in (departments \cap openUnits) \cup {None}
  /\ Begin(w, [op |-> "put_department", department |-> d, parent |-> p,
               open |-> d \in openUnits])
  /\ UNCHANGED <<departmentVars, openUnits, unitOf, staffVars, unchecked>>

SaveStatus(x, open) == openUnits' = IF open THEN openUnits \cup {x} ELSE openUnits \ {x}

PutDepartmentSave(w) ==
  /\ task[w].op = "put_department"
  /\ UnitFree(task[w].department)
  /\ task[w].parent # None => UnitFree(task[w].parent)
  /\ parent' = [parent EXCEPT ![task[w].department] = task[w].parent]
  /\ SaveStatus(task[w].department, task[w].open)
  /\ Finish(w)
  /\ UNCHANGED <<departments, unitOf, staffVars, unchecked>>

PutPositionRead(w, p, d) ==
  /\ unitOf[p] # None /\ d \in departments
  /\ Begin(w, [op |-> "put_position", position |-> p, department |-> d,
               open |-> p \in openUnits])
  /\ UNCHANGED <<departmentVars, openUnits, unitOf, staffVars, unchecked>>

PutPositionSave(w) ==
  /\ task[w].op = "put_position"
  /\ UnitFree(task[w].position) /\ UnitFree(task[w].department)
  /\ unitOf' = [unitOf EXCEPT ![task[w].position] = task[w].department]
  /\ SaveStatus(task[w].position, task[w].open)
  /\ Finish(w)
  /\ UNCHANGED <<departmentVars, staffVars, unchecked>>

PutEmployeeRead(w, e, d, p) ==
  /\ workplace[e] # None
  /\ d \in openUnits
  /\ p # None => p \in openUnits /\ unitOf[p] = d
  /\ Begin(w, [op |-> "put_employee", employee |-> e, department |-> d, post |-> p,
               serving |-> e \in inService])
  /\ UNCHANGED <<departmentVars, openUnits, unitOf, staffVars, unchecked>>

PutEmployeeSave(w) ==
  /\ task[w].op = "put_employee"
  /\ EmployeeFree(task[w].employee) /\ UnitFree(task[w].department)
  /\ task[w].post # None => UnitFree(task[w].post)
  /\ workplace' = [workplace EXCEPT ![task[w].employee] = task[w].department]
  /\ post' = [post EXCEPT ![task[w].employee] = task[w].post]
  /\ inService' = IF task[w].serving THEN inService \cup {task[w].employee}
                  ELSE inService \ {task[w].employee}
  /\ form' = Saved(task[w].employee)
  /\ Finish(w)
  /\ UNCHANGED <<departmentVars, openUnits, unitOf, unchecked>>

DepartmentStep ==
  \/ \E w \in Workers, d, p \in MaybeDepartment : ParentRead(w, d, p)
  \/ \E w \in Workers : ParentCheck(w)
  \/ \E w \in Workers, d \in Departments : DepartmentInsert(w, d)
  \/ \E w \in Workers : DepartmentMove(w)
  \/ \E d \in Departments : ActivateDepartment(d)

StatusStep ==
  \/ \E w \in Workers, x \in Departments \cup Positions : DeactivateCheck(w, x)
  \/ \E w \in Workers : DeactivateCommit(w)

PositionStep ==
  \/ \E p \in Positions : ActivatePosition(p)
  \/ \E p \in Positions, d \in Departments : CreatePosition(p, d)
  \/ \E w \in Workers, p \in Positions, d \in Departments : MovePositionRead(w, p, d)
  \/ \E w \in Workers : MovePositionCommit(w)

EmployeeStep ==
  \/ \E e \in Employees, d \in Departments, p \in Positions \cup {None} :
        CreateEmployee(e, d, p) \/ UpdateEmployee(e, d, p)
  \/ \E f \in Forms, e \in Employees : OpenForm(f, e)
  \/ \E f \in Forms, d \in Departments, p \in Positions \cup {None} : SubmitForm(f, d, p)
  \/ \E f \in Forms : RefuseForm(f)
  \/ \E e \in Employees : DepartEmployee(e)
  \/ \E w \in Workers, e \in Employees : ReactivateCheck(w, e)
  \/ \E w \in Workers : ReactivateCommit(w)

Next ==
  \/ DepartmentStep \/ StatusStep \/ PositionStep \/ EmployeeStep
  \/ \E w \in Workers : Refuse(w)

PutStep ==
  \E w \in Workers :
    \/ \E d \in Departments, p \in MaybeDepartment : PutDepartmentRead(w, d, p)
    \/ PutDepartmentSave(w)
    \/ \E p \in Positions, d \in Departments : PutPositionRead(w, p, d)
    \/ PutPositionSave(w)
    \/ \E e \in Employees, d \in Departments, p \in Positions \cup {None} :
          PutEmployeeRead(w, e, d, p)
    \/ PutEmployeeSave(w)

\* Every write goes through a service (POST, PATCH and the status actions, all
\* that the Flutter client sends); and the same with PUT.
ServiceSpec == Init /\ [][Next]_vars
Spec == Init /\ [][Next \/ PutStep]_vars
-----------------------------------------------------------------------------
TypeOK ==
  /\ departments \subseteq Departments
  /\ parent \in [Departments -> departments \cup {None}]
  /\ openUnits \subseteq departments \cup Positions
  /\ unitOf \in [Positions -> departments \cup {None}]
  /\ workplace \in [Employees -> departments \cup {None}]
  /\ post \in [Employees -> Positions \cup {None}]
  /\ inService \subseteq {e \in Employees : workplace[e] # None}
  /\ form \in [Forms -> FormStates]
  /\ task \in [Workers -> Task]
  /\ unchecked \subseteq Employees \cup Positions

\* An employee's position belongs to the employee's department, whatever moves
\* of positions, transfers and rehirings overlap (ADR-0004, lines 76 and 83).
PostsAgree ==
  \A e \in Employees : post[e] # None => unitOf[post[e]] = workplace[e]

\* A form whose updated_at is still the row's shows the row as it is: whatever
\* transfer, departure or rehiring came in between, an edit that is accepted
\* overwrites nothing its editor has not seen (ADR-0004, line 85).
FormsShowTheRow ==
  \A f \in Forms : form[f].at = "open" =>
    LET e == form[f].employee
    IN  <<form[f].department, form[f].post, form[f].serving>>
          = <<workplace[e], post[e], e \in inService>>

\* Nobody in service sits in a closed department or position and no active
\* position belongs to a closed department, except through reactivate_employee,
\* which reads both without a lock, and through a move of the position, which
\* trusts the department its serializer loaded (ADR-0004, lines 76 and 83).
UnitsInUseAreOpen ==
  /\ \A e \in inService \ unchecked :
       workplace[e] \in openUnits /\ (post[e] # None => post[e] \in openUnits)
  /\ \A p \in (Positions \cap openUnits) \ unchecked : unitOf[p] \in openUnits

\* No department is, through its parents, above itself (ADR-0008, line 19).
TreeIsAcyclic ==
  ~ \E S \in SUBSET departments : S # {} /\ \A d \in S : parent[d] \in S

\* No two requests are in the middle of moving a department under a parent.
MovesUnder(w) ==
  task[w].op \in {"placing", "placed"} /\ task[w].department # None /\ task[w].parent # None

SerialMoves == \A v, w \in Workers : MovesUnder(v) /\ MovesUnder(w) => v = w

\* The tree is served exactly when it has no cycle and no department has more
\* than MaxTreeDepth departments on its line to the root, itself included
\* (ADR-0008, line 19); that much nothing but the reader checks.
TreeServedWithinLimit ==
  DepartmentTreeServed <=>
    TreeIsAcyclic /\ \A d \in departments : Cardinality(Line(d)) <= MaxTreeDepth
=============================================================================
