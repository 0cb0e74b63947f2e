---------------------------- MODULE MCEnrollment ----------------------------
(* The instance of Enrollment: a course b whose prerequisite is the course a. *)
EXTENDS Enrollment

CONSTANTS a, b

MCPrerequisite == [c \in Courses |-> IF c = b THEN a ELSE NoCourse]
=============================================================================
