CONSTANTS
  a = a
  b = b
  Workers = {w1, w2}
  Users = {u1}
  Courses = {a, b}
  NoCourse = NoCourse
  Prerequisite <- MCPrerequisite
  Published = {a, b}
  Progress = {0, 50, 100}
  MaxItems = 2
  MaxRows = 2
SPECIFICATION Spec
INVARIANTS
  OneRowPerCourse
  EnrolledAfterPrerequisite
PROPERTIES
  OnlyStaleSavesDamage
CHECK_DEADLOCK FALSE
