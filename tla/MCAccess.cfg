SPECIFICATION Spec
CONSTANTS
  Ids = {u1, u2, u3}
  NoUser = NoUser
  Emails = {adminMail, mail}
  AdminEmail = adminMail
  NewRoles = {"instructor", "student"}
  Courses = {c1, c2}
  NoCourse = NoCourse
  Requests = {r1, r2}
SYMMETRY Symmetry
PROPERTIES
  AdmissionBacked
CHECK_DEADLOCK FALSE
