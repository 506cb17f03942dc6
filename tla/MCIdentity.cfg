SPECIFICATION Spec
CONSTANTS
  admin = admin
  ann = ann
  adminMail = adminMail
  mail = mail
  Ids = {u1, u2, u3}
  NoUser = NoUser
  Identities = {admin, ann}
  NoSubject = NoSubject
  Emails = {adminMail, mail}
  EmailOf <- MCEmailOf
  AdminEmail = adminMail
  NewRoles = {"student"}
  LegacyEmail = adminMail
  Logins = {l1, l2}
INVARIANTS
  TokensTruthful
  EnrolledAdmitted
PROPERTIES
  RevocationCompletes
CHECK_DEADLOCK FALSE
